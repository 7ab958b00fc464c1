\* Window lifecycle, damage and effects: creation, map/unmap, destroy,
\* drawing, WM unmanage/minimize/maximize; one frame, one override window.
CONSTANTS
    f1 = f1
    f2 = f2
    o1 = o1
    c1 = c1
    None = None
    AllWs = AllWs
    Frames = {f1}
    Overrides = {o1}
    Clients = {}
    Workspaces = {1, 2}
    WsOf <- MCWsOf
    Env <- EnvCore
    MaxQueue = 3
    MaxVer = 1
    MaxPix = 1
    MaxEff = 1
INIT Init
NEXT Next
INVARIANT TypeOK
PROPERTY LifecycleRefined
INVARIANT RegistryConsistent
INVARIANT EffectAccounting
INVARIANT TextureCurrent
\* The compositor's main loop may wait for events forever once the bounded
\* environment has nothing more to send.
CHECK_DEADLOCK FALSE
