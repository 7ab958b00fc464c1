\* A frame that is unmanaged, minimized and resized, with fairness for the
\* main loop and the plugin: DESTROY effects end in the destruction.
CONSTANTS
    f1 = f1
    f2 = f2
    o1 = o1
    c1 = c1
    None = None
    AllWs = AllWs
    Frames = {f1}
    Overrides = {}
    Clients = {}
    Workspaces = {1, 2}
    WsOf <- MCWsOf
    Env <- EnvDestroy
    MaxQueue = 3
    MaxVer = 1
    MaxPix = 2
    MaxEff = 1
SPECIFICATION FairSpec
PROPERTY LifecycleFair
\* The compositor's main loop may wait for events forever once the bounded
\* environment has nothing more to send.
CHECK_DEADLOCK FALSE
