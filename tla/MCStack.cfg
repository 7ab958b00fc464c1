\* Workspace switches racing restacks and circulates of two frames, one
\* sticky: deferred operations and the stacking order after the switch.
CONSTANTS
    f1 = f1
    f2 = f2
    o1 = o1
    c1 = c1
    None = None
    AllWs = AllWs
    Frames = {f1, f2}
    Overrides = {}
    Clients = {}
    Workspaces = {1, 2}
    WsOf <- MCWsOf
    Env <- EnvStack
    MaxQueue = 3
    MaxVer = 1
    MaxPix = 1
    MaxEff = 1
INIT Init
NEXT Next
PROPERTY StackRestoredAfterSwitch
INVARIANT RegistryConsistent
\* The compositor's main loop may wait for events forever once the bounded
\* environment has nothing more to send.
CHECK_DEADLOCK FALSE
