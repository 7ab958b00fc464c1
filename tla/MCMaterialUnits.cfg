\* One material with two layer indices on two texture units: a material
\* with as many layers as units.
CONSTANTS
    tA = tA
    tB = tB
    d2 = d2
    dR = dR
    ov1 = ov1
    m1 = m1
    m2 = m2
    l1 = l1
    l2 = l2
    l3 = l3
    Materials = {m1}
    DefaultMaterial = m1
    LayerIds = {l1, l2}
    Indices = {0, 1}
    Textures = {tA, tB}
    TargetOf <- MCTargetOf
    HasAlpha <- MCHasAlpha
    Default2D = d2
    DefaultRect = dR
    OverrideNames = {}
    FlushMasks <- MCMasks
    MaxUnits = 2
    Colors <- MCColors
    White <- MCWhite
    Funcs = {"modulate", "replace"}
    SrcVals = {"dflt"}
    OpVals = {"dflt"}
    Matrices = {"m"}
    CombineChannels = {"rgba"}
    LightVals = {"dflt"}
    AlphaVals = {"x"}
    BlendVals = {"src_alpha"}
    MaxCalls = 3
INIT Init
NEXT Next
INVARIANT UnitsLoaded
