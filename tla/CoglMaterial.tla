----------------------------- MODULE CoglMaterial -----------------------------
(***************************************************************************)
(* CoglMaterial, src/clutter/cogl/common/cogl-material.c: materials made  *)
(* of a colour, lighting, alpha-test and blend state and a list of layers  *)
(* sorted by index, each a texture with its combine state and texture      *)
(* matrix; and cogl_material_flush_gl_state, which loads one material into *)
(* the GL context using the cache ctx->current_layers (one CoglLayerInfo   *)
(* per texture unit) and ctx->current_material_flags to skip GL calls.     *)
(*   mat     the CoglMaterial of each handle                               *)
(*   lay     the CoglMaterialLayer at each address, or NoLayer when free;  *)
(*           g_new0 may hand out an address freed before                   *)
(*   gl      the GL state: per texture unit the enabled targets, the last *)
(*           glBindTexture (target and name), the environment and matrix; *)
(*           the active unit; glColor, glMaterial, glAlphaFunc, glBlendFunc*)
(*   cache   ctx->current_layers, a sequence of CoglLayerInfo records      *)
(*   ctxFlags, current, source  ctx->current_material_flags,              *)
(*           ctx->current_material and ctx->source_material                *)
(*   flushed the arguments of the flush made by the last step, or NoFlush*)
(*   calls   the number of API calls other than flushes, up to MaxCalls   *)
(* Textures and GL texture names are model values; a texture's GL target  *)
(* and alpha bit are constants.  Colour, lighting, alpha-test, blend and   *)
(* combine values are abstract values from small sets.                     *)
(***************************************************************************)
EXTENDS Integers, Sequences, FiniteSets, TLC

CONSTANTS
    Materials,      \* material handles
    DefaultMaterial,\* ctx->default_material
    LayerIds,       \* the addresses layers may be allocated at
    Indices,        \* layer indices the program uses
    Textures,       \* Cogl textures, each its own GL texture name
    TargetOf,       \* the GL target of each texture
    HasAlpha,       \* whether the texture's format has COGL_A_BIT
    Default2D, DefaultRect, \* ctx->default_gl_texture_2d/rect_tex
    OverrideNames,  \* GL names callers pass as LAYER0_OVERRIDE
    FlushMasks,     \* fallback and disable masks, as sets of layer positions
    MaxUnits,       \* CGL_MAX_COMBINED_TEXTURE_IMAGE_UNITS
    Colors, White,  \* unlit colours, records [c, a]; White is 1,1,1,1
    Funcs,          \* combine functions; "modulate" is the default
    SrcVals, OpVals,\* non-default combine sources and operands
    Matrices,       \* texture matrices; "identity" is the default
    CombineChannels,\* channel selections the combine setters are given
    LightVals, AlphaVals, BlendVals, \* lighting, alpha-test, blend values
    MaxCalls        \* bound on the API calls other than flushes

Targets == {"2d", "rect"}
ASSUME /\ DefaultMaterial \in Materials /\ MaxUnits \in Nat \ {0}
       /\ TargetOf \in [Textures -> Targets] /\ HasAlpha \in [Textures -> BOOLEAN]
       /\ White \in Colors /\ "modulate" \in Funcs
       /\ CombineChannels \subseteq {"rgba", "rgb", "alpha"}

None == "none"
NoOverride == 0                   \* layer0_override_texture of 0
GLNames == Textures \cup {Default2D, DefaultRect} \cup OverrideNames

\* The default combine state of _cogl_material_get_layer:
\* MODULATE (PREVIOUS, TEXTURE) for both RGB and alpha.
DefaultCombine == [rgb |-> "modulate", alpha |-> "modulate",
                   src |-> "dflt", op |-> "dflt"]
Combines == [rgb : Funcs, alpha : Funcs, src : SrcVals \cup {"dflt"},
             op : OpVals \cup {"dflt"}]

Layer == [index : Indices, texture : Textures, dc : BOOLEAN, um : BOOLEAN,
          dirty : BOOLEAN, combine : Combines, matrix : Matrices \cup {"identity"}]
NoLayer == [index |-> -1, texture |-> None, dc |-> FALSE, um |-> FALSE,
            dirty |-> FALSE, combine |-> DefaultCombine, matrix |-> "identity"]

\* cogl_material_new: the GL defaults, all DEFAULT_* flags, no layers.
NewMaterial == [layers |-> <<>>, unlit |-> White, lighting |-> "dflt",
                alpha |-> "always", blendf |-> "src_alpha",
                dcolor |-> TRUE, dglmat |-> TRUE, dalpha |-> TRUE,
                dblend |-> TRUE, blend |-> FALSE]

\* A texture unit as GL starts it: nothing enabled or bound, the MODULATE
\* texture environment and the identity texture matrix.  GL keeps a binding
\* per target; the flush binds before it enables, so only the last binding
\* of a unit is kept.
InitUnit == [enabled |-> {}, bound |-> [target |-> None, tex |-> None],
             env |-> "gl_initial", matrix |-> "identity"]

VARIABLES mat, lay, gl, cache, ctxFlags, current, source, flushed, calls

vars == <<mat, lay, gl, cache, ctxFlags, current, source, flushed, calls>>
ctxvars == <<gl, cache, ctxFlags, current>>

\* A call of the material API other than a flush: one of at most MaxCalls
\* in a behaviour.
Call == calls < MaxCalls /\ calls' = calls + 1

\* The value of flushed after a step that is not a flush.
NoFlush == [m |-> None, fb |-> {}, dis |-> {}, ov |-> NoOverride]

\* The context as cogl creates it: materials made by cogl_material_new, no
\* layer allocated, GL in its initial state (glBlendFunc ONE, ZERO), an
\* empty ctx->current_layers and no material flushed.
Init ==
    /\ mat = [m \in Materials |-> NewMaterial]
    /\ lay = [l \in LayerIds |-> NoLayer]
    /\ gl = [units |-> [u \in 0 .. MaxUnits - 1 |-> InitUnit], active |-> 0,
             color |-> White, lighting |-> "dflt", alpha |-> "always",
             blendf |-> "gl_one_zero"]
    /\ cache = <<>>
    /\ ctxFlags = [dcolor |-> FALSE, dglmat |-> FALSE, dalpha |-> FALSE,
                   dblend |-> FALSE]
    /\ current = None
    /\ source = None
    /\ flushed = NoFlush
    /\ calls = 0

-----------------------------------------------------------------------------
(* The material setters.                                                   *)

\* The position of the layer of index idx in the material's list, 0 if none.
Find(m, idx) ==
    IF \E k \in 1 .. Len(mat[m].layers) : lay[mat[m].layers[k]].index = idx
    THEN CHOOSE k \in 1 .. Len(mat[m].layers) : lay[mat[m].layers[k]].index = idx
    ELSE 0

\* A new layer appended at the end of the list.
InsertPosAppend(m, idx) == Len(mat[m].layers) + 1

\* Where _cogl_material_get_layer inserts a new layer: before the first
\* layer of a greater index, the list being sorted.
InsertPos(m, idx) ==
    LET gt == {k \in 1 .. Len(mat[m].layers) : lay[mat[m].layers[k]].index > idx}
    IN IF gt = {} THEN Len(mat[m].layers) + 1
       ELSE CHOOSE k \in gt : \A j \in gt : k =< j
InsertBefore(s, k, x) == SubSeq(s, 1, k - 1) \o <<x>> \o SubSeq(s, k, Len(s))
RemoveAt(s, k) == SubSeq(s, 1, k - 1) \o SubSeq(s, k + 1, Len(s))

\* handle_automatic_blend_enable: blending when a layer's texture has an
\* alpha channel or the colour is not opaque.
AutoBlend(ls, unlit, lays) ==
    (\E k \in 1 .. Len(ls) : HasAlpha[lays[ls[k]].texture]) \/ unlit.a # 1

\* The layer _cogl_material_get_layer (create_if_not_found) yields: the
\* existing one, or a new default layer at a free address l.
NewLayer(idx) == [index |-> idx, texture |-> None, dc |-> TRUE, um |-> FALSE,
                  dirty |-> FALSE, combine |-> DefaultCombine,
                  matrix |-> "identity"]

\* The address the layer of index idx has or may be given.
LayerAddr(m, idx, l) ==
    IF Find(m, idx) # 0 THEN l = mat[m].layers[Find(m, idx)] ELSE lay[l] = NoLayer

\* cogl_material_set_layer on layer address l: get or create the layer,
\* replace its texture, recompute blending and mark the layer dirty (past
\* MaxUnits layers it only warns).  Returns the new <<mat, lay>>.
LayerSet(m, idx, t, l) ==
    LET pos  == Find(m, idx)
        ls   == IF pos # 0 THEN mat[m].layers
                ELSE InsertBefore(mat[m].layers, InsertPos(m, idx), l)
        old  == IF pos # 0 THEN lay[l] ELSE NewLayer(idx)
        lays == [lay EXCEPT ![l] = [old EXCEPT !.texture = t, !.dirty = TRUE]]
    IN <<[mat EXCEPT ![m].layers = ls,
                     ![m].blend = AutoBlend(ls, mat[m].unlit, lays)], lays>>

SetLayer(m, idx, t) ==
    \E l \in LayerIds :
        /\ LayerAddr(m, idx, l)
        /\ mat' = LayerSet(m, idx, t, l)[1]
        /\ lay' = LayerSet(m, idx, t, l)[2]
        /\ UNCHANGED <<ctxvars, source>> /\ flushed' = NoFlush /\ Call

\* The layer of index idx in material m (only where Find(m, idx) # 0).
LayerAt(m, idx) == lay[mat[m].layers[Find(m, idx)]]

\* A change to an existing layer's combine state or matrix, giving it the
\* layer y: dirty, and no longer DEFAULT_COMBINE.
EditLayer(m, idx, y) ==
    /\ Find(m, idx) # 0
    /\ lay' = [lay EXCEPT ![mat[m].layers[Find(m, idx)]] =
                  [y EXCEPT !.dirty = TRUE, !.dc = FALSE]]
    /\ UNCHANGED <<mat, ctxvars, source>> /\ flushed' = NoFlush /\ Call

\* cogl_material_set_layer_combine_function for RGBA, RGB or ALPHA.
SetLayerCombineFunction(m, idx, ch, fn) ==
    EditLayer(m, idx, [LayerAt(m, idx) EXCEPT
        !.combine.rgb = IF ch \in {"rgba", "rgb"} THEN fn ELSE @,
        !.combine.alpha = IF ch \in {"rgba", "alpha"} THEN fn ELSE @])

\* cogl_material_set_layer_combine_arg_src and _arg_op.
SetLayerCombineArgSrc(m, idx, v) ==
    EditLayer(m, idx, [LayerAt(m, idx) EXCEPT !.combine.src = v])
SetLayerCombineArgOp(m, idx, v) ==
    EditLayer(m, idx, [LayerAt(m, idx) EXCEPT !.combine.op = v])

\* cogl_material_set_layer_matrix: also HAS_USER_MATRIX.
SetLayerMatrix(m, idx, mx) ==
    EditLayer(m, idx, [LayerAt(m, idx) EXCEPT !.matrix = mx, !.um = TRUE])

\* cogl_material_remove_layer: unref (and so free) the layer of that
\* index, unlink it, recompute blending.  ctx->current_layers may still
\* hold the freed address.
RemoveLayer(m, idx) ==
    LET pos == Find(m, idx)
        ls  == IF pos = 0 THEN mat[m].layers ELSE RemoveAt(mat[m].layers, pos)
        lays == IF pos = 0 THEN lay ELSE [lay EXCEPT ![mat[m].layers[pos]] = NoLayer]
    IN /\ pos # 0
       /\ lay' = lays
       /\ mat' = [mat EXCEPT ![m].layers = ls,
                             ![m].blend = AutoBlend(ls, mat[m].unlit, lays)]
       /\ UNCHANGED <<ctxvars, source>> /\ flushed' = NoFlush /\ Call

\* cogl_material_set_color (and _color4ub): nothing if the colour is the
\* same; DEFAULT_COLOR again only for opaque white; recompute blending.
SetColor(m, c) ==
    /\ c # mat[m].unlit
    /\ mat' = [mat EXCEPT ![m].unlit = c, ![m].dcolor = (c = White),
                          ![m].blend = AutoBlend(mat[m].layers, c, lay)]
    /\ UNCHANGED <<lay, ctxvars, source>> /\ flushed' = NoFlush /\ Call

\* cogl_material_set_ambient, _diffuse, _ambient_and_diffuse, _specular,
\* _shininess and _emission: the lighting state is no longer the default.
SetGlMaterial(m, v) ==
    /\ mat' = [mat EXCEPT ![m].lighting = v, ![m].dglmat = FALSE]
    /\ UNCHANGED <<lay, ctxvars, source>> /\ flushed' = NoFlush /\ Call

\* cogl_material_set_alpha_test_function.
SetAlphaTestFunction(m, v) ==
    /\ mat' = [mat EXCEPT ![m].alpha = v, ![m].dalpha = FALSE]
    /\ UNCHANGED <<lay, ctxvars, source>> /\ flushed' = NoFlush /\ Call

\* cogl_material_set_blend_factors.
SetBlendFactors(m, v) ==
    /\ mat' = [mat EXCEPT ![m].blendf = v, ![m].dblend = FALSE]
    /\ UNCHANGED <<lay, ctxvars, source>> /\ flushed' = NoFlush /\ Call

-----------------------------------------------------------------------------
(* cogl_material_flush_gl_state.  The loop over the layers and the loop    *)
(* that disables the units after them are folds over a record S of the     *)
(* texture units, the active unit, the cache, the layers and the loop      *)
(* counter i.  glActiveTexture beyond the last unit is an error that       *)
(* leaves the active unit as it was.                                       *)

DefaultTex(tg) == IF tg = "2d" THEN Default2D ELSE DefaultRect

\* glActiveTexture (GL_TEXTURE0 + i): the unit the following calls reach.
UnitFor(S, i) == IF i < MaxUnits THEN i ELSE S.active

\* The cache test without the dirty flag.
CacheHitIgnoringDirty(S, i, lid, fallback, disabled, overridden) ==
    /\ i < Len(S.cache)
    /\ S.cache[i + 1].handle = lid
    /\ ~(S.cache[i + 1].overridden \/ overridden)
    /\ S.cache[i + 1].fallback = fallback
    /\ S.cache[i + 1].disabled = disabled

\* The cache test: the same layer address, not dirty, no layer-0 override
\* then or now, and the same fallback and disabled state as cached.
CacheHit(S, i, lid, fallback, disabled, overridden) ==
    /\ i < Len(S.cache)
    /\ S.cache[i + 1].handle = lid
    /\ ~S.lay[lid].dirty
    /\ ~(S.cache[i + 1].overridden \/ overridden)
    /\ S.cache[i + 1].fallback = fallback
    /\ S.cache[i + 1].disabled = disabled

\* The enabled targets of a unit after "disable the previous target if it
\* was different" and "enable/disable the new target", both skipped when
\* the cache says GL already has them.
TargetsAfter(en, has, info, tgt, disabled) ==
    LET en1 == IF has /\ info.target # tgt /\ ~info.disabled
               THEN en \ {info.target} ELSE en
    IN IF ~disabled
       THEN IF has /\ info.target = tgt /\ ~info.disabled THEN en1 ELSE en1 \cup {tgt}
       ELSE IF has /\ info.target = tgt /\ info.disabled THEN en1 ELSE en1 \ {tgt}

\* _cogl_material_layer_flush_gl_sampler_state: the combine state unless
\* both the cached and the new layer have DEFAULT_COMBINE; the texture
\* matrix when there is a cache entry and either has a user matrix.
FlushSamplerState(U, L, has, info) ==
    [U EXCEPT !.env = IF has /\ info.dc /\ L.dc THEN @ ELSE L.combine,
              !.matrix = IF has /\ (info.um \/ L.um) THEN L.matrix ELSE @]

\* One pass of the layer loop for the layer at address lid.  A cache hit
\* continues to the next layer; otherwise the unit is set up, the cache
\* entry written, the dirty flag cleared, and the loop breaks once i + 1
\* reaches MaxUnits, leaving i at the unit it just set up.
LayerStep(S, lid, fb, dis, ov) ==
    LET i   == S.i
        L   == S.lay[lid]
        fallback == i \in fb
        disabled == i \in dis
        overridden == ov # NoOverride
        tgt == TargetOf[L.texture]
        tex == IF overridden THEN ov ELSE IF fallback THEN DefaultTex(tgt)
               ELSE L.texture
        u   == UnitFor(S, i)
        U1  == [S.units[u] EXCEPT !.bound = [target |-> tgt, tex |-> tex]]
        has == i < Len(S.cache)
        info == IF has THEN S.cache[i + 1] ELSE None
        new == [handle |-> lid, dc |-> L.dc, um |-> L.um, target |-> tgt,
                tex |-> tex, fallback |-> fallback, disabled |-> disabled,
                overridden |-> overridden]
    IN IF CacheHit(S, i, lid, fallback, disabled, overridden)
       THEN [S EXCEPT !.units[u] = U1, !.active = u, !.i = i + 1]
       ELSE [S EXCEPT
               !.units[u] = FlushSamplerState(
                   [U1 EXCEPT !.enabled = TargetsAfter(@, has, info, tgt, disabled)],
                   L, has, info),
               !.active = u,
               !.cache = IF has THEN [@ EXCEPT ![i + 1] = new] ELSE Append(@, new),
               !.lay[lid].dirty = FALSE,
               !.i = IF i + 1 >= MaxUnits THEN i ELSE i + 1,
               !.stop = (i + 1 >= MaxUnits)]

RECURSIVE FlushLayersFrom(_, _, _, _, _, _)
FlushLayersFrom(S, ls, k, fb, dis, ov) ==
    IF k > Len(ls) \/ S.stop THEN S
    ELSE FlushLayersFrom(LayerStep(S, ls[k], fb, dis, ov), ls, k + 1, fb, dis, ov)

\* The disabling loop without "gl_layer_info->disabled = TRUE".
RECURSIVE DisableFromNoMark(_, _)
DisableFromNoMark(S, j) ==
    IF j >= Len(S.cache) THEN S
    ELSE IF S.cache[j + 1].disabled THEN DisableFromNoMark(S, j + 1)
    ELSE LET u == UnitFor(S, j) IN
         DisableFromNoMark([S EXCEPT !.active = u,
                  !.units[u].enabled = @ \ {S.cache[j + 1].target}], j + 1)

\* "Disable additional texture units that may have previously been in
\* use": from unit i to the end of ctx->current_layers.
RECURSIVE DisableFrom(_, _)
DisableFrom(S, j) ==
    IF j >= Len(S.cache) THEN S
    ELSE IF S.cache[j + 1].disabled THEN DisableFrom(S, j + 1)
    ELSE LET u == UnitFor(S, j) IN
         DisableFrom([S EXCEPT !.active = u,
                               !.units[u].enabled = @ \ {S.cache[j + 1].target},
                               !.cache[j + 1].disabled = TRUE], j + 1)

\* _cogl_material_flush_layers_gl_state.
FlushLayersGlState(m, fb, dis, ov) ==
    LET S0 == [units |-> gl.units, active |-> gl.active, cache |-> cache,
               lay |-> lay, i |-> 0, stop |-> FALSE]
        S1 == FlushLayersFrom(S0, mat[m].layers, 1, fb, dis, ov)
    IN DisableFrom(S1, S1.i)

\* The base flush testing only the material's own DEFAULT_* flags.
FlushBaseGlStateOwnFlags(m) ==
    LET M == mat[m] IN
    [color    |-> IF M.dcolor THEN gl.color ELSE M.unlit,
     lighting |-> IF M.dglmat THEN gl.lighting ELSE M.lighting,
     alpha    |-> IF M.dalpha THEN gl.alpha ELSE M.alpha,
     blendf   |-> IF M.dblend THEN gl.blendf ELSE M.blendf]

\* _cogl_material_flush_base_gl_state: each of glColor, glMaterial,
\* glAlphaFunc and glBlendFunc unless both the last flushed material's
\* flags and this material's say it is the default.
FlushBaseGlState(m) ==
    LET M == mat[m] IN
    [color    |-> IF ctxFlags.dcolor /\ M.dcolor THEN gl.color ELSE M.unlit,
     lighting |-> IF ctxFlags.dglmat /\ M.dglmat THEN gl.lighting ELSE M.lighting,
     alpha    |-> IF ctxFlags.dalpha /\ M.dalpha THEN gl.alpha ELSE M.alpha,
     blendf   |-> IF ctxFlags.dblend /\ M.dblend THEN gl.blendf ELSE M.blendf]

\* What a flush of m with these masks is asked to load: for each layer up
\* to the number of units, its target, the texture to bind (the override
\* for layer 0, the default texture of its target for a fallback layer),
\* whether it is disabled, its combine state and matrix; and the base state.
Requested(m, fb, dis, ov) ==
    LET ls == mat[m].layers
        n  == IF Len(ls) < MaxUnits THEN Len(ls) ELSE MaxUnits
    IN [units |-> [k \in 1 .. n |->
          LET L == lay[ls[k]] IN
          [target |-> TargetOf[L.texture],
           tex |-> IF k = 1 /\ ov # NoOverride THEN ov
                   ELSE IF k - 1 \in fb THEN DefaultTex(TargetOf[L.texture])
                   ELSE L.texture,
           disabled |-> k - 1 \in dis, combine |-> L.combine,
           matrix |-> L.matrix]],
        base |-> [color |-> mat[m].unlit, lighting |-> mat[m].lighting,
                  alpha |-> mat[m].alpha, blendf |-> mat[m].blendf]]

\* cogl_material_flush_gl_state (handle, FALLBACK_MASK, fb, DISABLE_MASK,
\* dis, LAYER0_OVERRIDE, ov): the base state, the layers, then m becomes
\* ctx->current_material and its flags ctx->current_material_flags.
FlushGlState(m, fb, dis, ov) ==
    LET B == FlushBaseGlState(m)
        S == FlushLayersGlState(m, fb, dis, ov)
    IN /\ gl' = [units |-> S.units, active |-> S.active, color |-> B.color,
                 lighting |-> B.lighting, alpha |-> B.alpha, blendf |-> B.blendf]
       /\ cache' = S.cache
       /\ lay' = S.lay
       /\ ctxFlags' = [dcolor |-> mat[m].dcolor, dglmat |-> mat[m].dglmat,
                       dalpha |-> mat[m].dalpha, dblend |-> mat[m].dblend]
       /\ current' = m
       /\ flushed' = [m |-> m, fb |-> fb, dis |-> dis, ov |-> ov]
       /\ UNCHANGED <<mat, source, calls>>

\* cogl_set_source: nothing when m is already the source.
SetSource(m) ==
    /\ source # m
    /\ source' = m
    /\ UNCHANGED <<mat, lay, ctxvars>> /\ flushed' = NoFlush /\ Call

\* cogl_set_source_texture: layer 0 of the default material gets the
\* texture, its colour becomes opaque white, and it becomes the source.
SetSourceTexture(t) ==
    \E l \in LayerIds :
        LET dm == DefaultMaterial
            r  == LayerSet(dm, 0, t, l)
        IN /\ LayerAddr(dm, 0, l)
           /\ lay' = r[2]
           /\ mat' = IF r[1][dm].unlit = White THEN r[1]
                     ELSE [r[1] EXCEPT ![dm].unlit = White, ![dm].dcolor = TRUE,
                                       ![dm].blend = AutoBlend(r[1][dm].layers, White, r[2])]
           /\ source' = dm
           /\ UNCHANGED ctxvars /\ flushed' = NoFlush /\ Call

-----------------------------------------------------------------------------

Next ==
    \/ \E m \in Materials, idx \in Indices, t \in Textures : SetLayer(m, idx, t)
    \/ \E m \in Materials, idx \in Indices, ch \in CombineChannels, fn \in Funcs :
           SetLayerCombineFunction(m, idx, ch, fn)
    \/ \E m \in Materials, idx \in Indices, v \in SrcVals :
           SetLayerCombineArgSrc(m, idx, v)
    \/ \E m \in Materials, idx \in Indices, v \in OpVals :
           SetLayerCombineArgOp(m, idx, v)
    \/ \E m \in Materials, idx \in Indices, mx \in Matrices :
           SetLayerMatrix(m, idx, mx)
    \/ \E m \in Materials, idx \in Indices : RemoveLayer(m, idx)
    \/ \E m \in Materials, c \in Colors : SetColor(m, c)
    \/ \E m \in Materials, v \in LightVals : SetGlMaterial(m, v)
    \/ \E m \in Materials, v \in AlphaVals : SetAlphaTestFunction(m, v)
    \/ \E m \in Materials, v \in BlendVals : SetBlendFactors(m, v)
    \/ \E m \in Materials, fb \in FlushMasks, dis \in FlushMasks,
          ov \in {NoOverride} \cup OverrideNames : FlushGlState(m, fb, dis, ov)
    \/ \E m \in Materials : SetSource(m)
    \/ \E t \in Textures : SetSourceTexture(t)

Spec == Init /\ [][Next]_vars

-----------------------------------------------------------------------------
(* Properties.                                                             *)

Live == {l \in LayerIds : lay[l] # NoLayer}

\* Types, and the shape the layer functions keep: each material's list is
\* sorted by strictly increasing index, lists share no layer, every live
\* layer is in a list, and ctx->current_layers has one entry per unit at
\* most (the loop breaks at CGL_MAX_COMBINED_TEXTURE_IMAGE_UNITS).
TypeOK ==
    /\ \A l \in Live : lay[l] \in Layer
    /\ \A m \in Materials :
         /\ mat[m].layers \in Seq(Live)
         /\ \A k \in 1 .. Len(mat[m].layers) - 1 :
              lay[mat[m].layers[k]].index < lay[mat[m].layers[k + 1]].index
    /\ \A l \in Live : \E m \in Materials : \E k \in 1 .. Len(mat[m].layers) :
         /\ mat[m].layers[k] = l
         /\ \A n \in Materials \ {m} : \A j \in 1 .. Len(mat[n].layers) :
              mat[n].layers[j] # l
    /\ Len(cache) =< MaxUnits
    /\ gl.active \in 0 .. MaxUnits - 1
    /\ current \in Materials \cup {None} /\ source \in Materials \cup {None}

\* ctx->current_layers is true of GL: for each cached unit, its target is
\* the only one that may be enabled, and it is enabled exactly when the
\* entry is not disabled; the cached texture is bound to it; a cached
\* DEFAULT_COMBINE means GL has the default combine state, and a cached
\* entry without HAS_USER_MATRIX means the identity texture matrix.  The
\* layer loop skips GL calls on exactly these claims, and the loop that
\* disables the units after the layers updates them.
CacheCoherent ==
    \A j \in 1 .. Len(cache) :
        j =< MaxUnits =>
        LET e == cache[j]
            U == gl.units[j - 1]
        IN /\ U.enabled \subseteq {e.target}
           /\ (e.target \in U.enabled) = ~e.disabled
           /\ U.bound = [target |-> e.target, tex |-> e.tex]
           /\ e.dc => U.env = DefaultCombine
           /\ ~e.um => U.matrix = "identity"

\* After cogl_material_flush_gl_state every texture unit is as the flush
\* was asked: a unit of a layer has exactly that layer's target enabled
\* (none when its disable bit is set), the requested texture bound and the
\* layer's combine state; every other unit has no target enabled.
UnitsLoaded ==
    flushed # NoFlush =>
    LET expect == Requested(flushed.m, flushed.fb, flushed.dis, flushed.ov) IN
    \A u \in 0 .. MaxUnits - 1 :
        IF u < Len(expect.units)
        THEN LET r == expect.units[u + 1] IN
             /\ gl.units[u].enabled = IF r.disabled THEN {} ELSE {r.target}
             /\ gl.units[u].bound = [target |-> r.target, tex |-> r.tex]
             /\ gl.units[u].env = r.combine
        ELSE gl.units[u].enabled = {}

\* After a flush each layer's unit has the layer's texture matrix: its
\* user matrix from cogl_material_set_layer_matrix, or the identity.
MatrixCurrent ==
    flushed # NoFlush =>
    LET expect == Requested(flushed.m, flushed.fb, flushed.dis, flushed.ov) IN
    \A u \in 0 .. Len(expect.units) - 1 :
        gl.units[u].matrix = expect.units[u + 1].matrix

\* After a flush glColor, glMaterial, glAlphaFunc and glBlendFunc hold the
\* flushed material's values, although _cogl_material_flush_base_gl_state
\* skips each call when the previous material and this one both have the
\* DEFAULT_* flag, and materials change between flushes.
BaseStateCurrent ==
    flushed # NoFlush =>
    LET expect == Requested(flushed.m, flushed.fb, flushed.dis, flushed.ov) IN
        [color |-> gl.color, lighting |-> gl.lighting, alpha |-> gl.alpha,
         blendf |-> gl.blendf] = expect.base

=============================================================================
