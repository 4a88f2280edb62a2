SPECIFICATION FairSpec
CONSTANTS
    proc = proc
    image = image
    create = create
    exit = exit
    load1 = load1
    load2 = load2
    Types = {proc, image}
    Checked = {proc}
    Records = {create, load1}
    TypeOf <- MCTypeOf
    Unannounced = {}
    SizeOf <- MCSizeOf
    BufLen = 5
    WordMod = 64
    Callbacks = {c1, c2}
    Readers = {w1}
    Synchronous = TRUE
    None = None
INVARIANTS
 NoUndefined
 CodesBacked
PROPERTIES
 DeliveryHolds
 NoLostWakeup
 CodesDrain
