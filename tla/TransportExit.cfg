SPECIFICATION FairSpec
CONSTANTS
    proc = proc
    image = image
    create = create
    exit = exit
    load1 = load1
    load2 = load2
    Types = {proc, image}
    Checked = {proc}
    Records = {exit}
    TypeOf <- MCTypeOf
    Unannounced = {exit}
    SizeOf <- MCSizeOf
    BufLen = 5
    WordMod = 64
    Callbacks = {c1}
    Readers = {w1}
    Synchronous = TRUE
    None = None
PROPERTIES
 ExitsReported
