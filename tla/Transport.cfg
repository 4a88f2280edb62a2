SPECIFICATION RequestSpec
CONSTANTS
    proc = proc
    image = image
    create = create
    exit = exit
    load1 = load1
    load2 = load2
    Types = {proc, image}
    Checked = {proc}
    Records = {create, exit, load1}
    TypeOf <- MCTypeOf
    Unannounced = {exit}
    SizeOf <- MCSizeOf
    BufLen = 5
    WordMod = 64
    Callbacks = {c1}
    Readers = {w1}
    Synchronous = FALSE
    None = None
INVARIANTS
    TypeOK
    NoUndefined
    CompletedOnce
    SingleOwner
    BufferSafe
    CodesBacked
    ClosedIsEmpty
    IInv
PROPERTIES
    RequestsReturn
