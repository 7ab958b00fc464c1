\* Two materials (m1 is ctx->default_material), two layer addresses,
\* two layer indices on three texture units, no layer-0 override.
CONSTANTS
    tA = tA
    tB = tB
    d2 = d2
    dR = dR
    ov1 = ov1
    m1 = m1
    m2 = m2
    l1 = l1
    l2 = l2
    l3 = l3
    Materials = {m1, m2}
    DefaultMaterial = m1
    LayerIds = {l1, l2}
    Indices = {0, 1}
    Textures = {tA, tB}
    TargetOf <- MCTargetOf
    HasAlpha <- MCHasAlpha
    Default2D = d2
    DefaultRect = dR
    OverrideNames = {}
    FlushMasks <- MCMasks
    MaxUnits = 3
    Colors <- MCColors
    White <- MCWhite
    Funcs = {"modulate", "replace"}
    SrcVals = {"dflt"}
    OpVals = {"dflt"}
    Matrices = {"m"}
    CombineChannels = {"rgba"}
    LightVals = {"dflt"}
    AlphaVals = {"x"}
    BlendVals = {"src_alpha"}
    MaxCalls = 3
INIT Init
NEXT Next
INVARIANT TypeOK
INVARIANT CacheCoherent
INVARIANT UnitsLoaded
INVARIANT BaseStateCurrent
