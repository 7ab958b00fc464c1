\* A client reparented into a frame and back, changing its window type,
\* beside a shaped override window whose opacity changes.
CONSTANTS
    f1 = f1
    f2 = f2
    o1 = o1
    c1 = c1
    None = None
    AllWs = AllWs
    Frames = {}
    Overrides = {o1}
    Clients = {c1}
    Workspaces = {1, 2}
    WsOf <- MCWsOf
    Env <- EnvClient
    MaxQueue = 3
    MaxVer = 0
    MaxPix = 1
    MaxEff = 1
INIT Init
NEXT Next
INVARIANT RegistryConsistent
PROPERTY LifecycleRefined
\* The compositor's main loop may wait for events forever once the bounded
\* environment has nothing more to send.
CHECK_DEADLOCK FALSE
