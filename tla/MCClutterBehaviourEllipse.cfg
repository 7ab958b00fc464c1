\* An actor applied and removed while every setter changes the path, with
\* begin and end angles up to a turn and a half apart in either direction,
\* and the alpha at 0, half way and CLUTTER_ALPHA_MAX_ALPHA.
CONSTANTS
    x1 = x1
    x2 = x2
    None = None
    Actors = {x1}
    Coords = {0, 8}
    Sizes = {2, 4}
    Angles = {0, 1024, 1536}
    TiltAngles = {256, 512}
    Degrees = {0, 90}
    Alphas = {0, 32768, 65535}
    MaxAlpha = 65535
VIEW MCView
INIT Init
NEXT Next
INVARIANT TypeOK
 
INVARIANT ReadBack
