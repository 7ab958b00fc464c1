\* An override window unmapped and remapped during a workspace switch.
CONSTANTS
    f1 = f1
    f2 = f2
    o1 = o1
    c1 = c1
    None = None
    AllWs = AllWs
    Frames = {f2}
    Overrides = {o1}
    Clients = {}
    Workspaces = {1, 2}
    WsOf <- MCWsOf
    Env <- EnvRemap
    MaxQueue = 3
    MaxVer = 0
    MaxPix = 2
    MaxEff = 1
INIT Init
NEXT Next
INVARIANT MapStateAgrees
\* The compositor's main loop may wait for events forever once the bounded
\* environment has nothing more to send.
CHECK_DEADLOCK FALSE
