\* One override-redirect window that is reshaped, resized and drawn into
\* while Clutter paints and picks its shaped texture, without NPOT textures.
CONSTANTS
    NPOT = FALSE
    MaxTexSize = 3
    Sizes <- MCSizes
    Shapes <- MCShapes
    Attrs <- MCAttrs
    MaxQueue = 3

INIT Init
NEXT Next

INVARIANT TypeOK
INVARIANT ShadowTileLayout
INVARIANT SumGaussianInRange
INVARIANT MaskedDrawCurrent
INVARIANT ShapeTracksServer

\* The main loop waits for X events and redraws forever; with a bounded
\* queue the model may reach a state where only the environment could move.
CHECK_DEADLOCK FALSE
