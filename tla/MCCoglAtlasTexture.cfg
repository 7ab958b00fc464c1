\* Three textures of two sizes in one format class, created, updated
\* in part or whole, and freed, with the upload failing or not.  Sides on
\* the scale 4 : 256, so the atlas is tried at 4x4, 4x8 and 8x8.
CONSTANTS
    t1 = t1
    t2 = t2
    t3 = t3
    Texs = {t1, t2, t3}
    BitmapSizes <- MCBitmapSizes
    InitAtlasSize = 4
    MaxTextureSize = 16
    MaxGen = 1
    Formats = {"rgba"}

INIT Init
NEXT Next

INVARIANT TypeOK
INVARIANT AtlasTracksTextures
INVARIANT SubTexturesCurrent
INVARIANT AtlasContentCurrent

\* Each of the finitely many textures is created and freed at most once;
\* when all are done no step is left.
CHECK_DEADLOCK FALSE
