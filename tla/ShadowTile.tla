------------------------------ MODULE ShadowTile ------------------------------
(***************************************************************************)
(* The shadow tile of src/src/compositor/clutter/compositor-clutter.c:     *)
(* shadow_gaussian_make_tile builds the RGBA image that manage_screen      *)
(* uploads as compositor->shadow_src, which every window's shadow          *)
(* (a TidyTextureFrame with MAX_TILE_SZ borders) stretches.  It is a 3x3   *)
(* grid of MAX_TILE_SZ squares; nine loops write the alpha of each square  *)
(* with sum_gaussian of the gaussian map at an offset, mirroring the west  *)
(* squares to the east and the north ones to the south.                    *)
(* The map's values are doubles (exp, sqrt) and are not modelled: a        *)
(* pixel's alpha is sum_gaussian of its (x, y) arguments over a fixed map, *)
(* so a write is the buffer index with the arguments.  sum_gaussian's      *)
(* choice of filter cells, all integer arithmetic, is modelled exactly.    *)
(***************************************************************************)
EXTENDS Integers, FiniteSets

ShadowRadius == 8                  \* SHADOW_RADIUS
MaxTileSz == 8                     \* MAX_TILE_SZ
TileWidth == 3 * MaxTileSz         \* TILE_WIDTH
TileHeight == 3 * MaxTileSz        \* TILE_HEIGHT

\* make_gaussian_map (SHADOW_RADIUS): size = ((int) ceil (r * 3) + 1) & ~1,
\* with ceil exact for the integer radius and & ~1 clearing the low bit.
GaussianMapSize == ((3 * ShadowRadius + 1) \div 2) * 2
GaussianCenter == GaussianMapSize \div 2

\* Mutant: fx_end not clamped to the map's size.
SumGaussianRangeNoClamp(p, len) ==
    LET start == IF GaussianCenter - p < 0 THEN 0 ELSE GaussianCenter - p
    IN start .. len + GaussianCenter - p - 1

\* sum_gaussian: the filter indices summed along one axis for the pixel at
\* offset p of a window of the given length, fx_start .. fx_end - 1 after
\* the two clamps (fy_start .. fy_end - 1 the same way); it adds the map's
\* values over the product of the two ranges, caps the sum at 1 and scales
\* it by opacity * 255.
SumGaussianRange(p, len) ==
    LET start == IF GaussianCenter - p < 0 THEN 0 ELSE GaussianCenter - p
        end   == IF len + GaussianCenter - p > GaussianMapSize
                 THEN GaussianMapSize ELSE len + GaussianCenter - p
    IN start .. end - 1

(* shadow_gaussian_make_tile: the writes of each loop, as <<index into _d, *)
(* the (x, y) handed to sum_gaussian>>, with P the square's side and c the *)
(* map's centre.                                                           *)

LOCAL P == MaxTileSz
LOCAL c == GaussianCenter
LOCAL Sq == (0 .. P - 1) \X (0 .. P - 1)

TileN == {<<q[2] * 3 * P + q[1] + P, <<c, q[2] - c>>>> : q \in Sq}
TileS == {<<(P - q[2] - 1) * 3 * P + 6 * P * P + q[1] + P, <<c, q[2] - c>>>> : q \in Sq}
TileW == {<<q[2] * 3 * P + 3 * P * P + q[1], <<q[1] - c, c>>>> : q \in Sq}
TileE == {<<q[2] * 3 * P + 3 * P * P + (P - q[1] - 1) + 2 * P, <<q[1] - c, c>>>> : q \in Sq}
TileNW == {<<q[2] * 3 * P + q[1], <<q[1] - c, q[2] - c>>>> : q \in Sq}
TileSW == {<<(P - q[2] - 1) * 3 * P + 6 * P * P + q[1], <<q[1] - c, q[2] - c>>>> : q \in Sq}
\* Mutant: the SE square mirrored without the - 1.
TileSEOffByOne ==
    {<<(P - q[2] - 1) * 3 * P + 6 * P * P + (P - q[1]) + 2 * P, <<q[1] - c, q[2] - c>>>> : q \in Sq}
TileSE == {<<(P - q[2] - 1) * 3 * P + 6 * P * P + (P - q[1] - 1) + 2 * P, <<q[1] - c, q[2] - c>>>> : q \in Sq}
TileNE == {<<q[2] * 3 * P + (P - q[1] - 1) + 2 * P, <<q[1] - c, q[2] - c>>>> : q \in Sq}
TileCenter == {<<q[2] * 3 * P + 3 * P * P + q[1] + P, <<c, c>>>> : q \in Sq}

\* Every write the function makes, on a buffer of 4 * TILE_WIDTH *
\* TILE_HEIGHT bytes from g_malloc0 (one index per RGBA pixel).
ShadowGaussianMakeTile ==
    TileN \cup TileS \cup TileW \cup TileE \cup TileNW \cup TileSW \cup TileSE
          \cup TileNE \cup TileCenter

-----------------------------------------------------------------------------
(* Reference definitions the tile is checked against (ShapedWindow).       *)

\* The square of the 3x3 grid a coordinate of the tile falls in decides the
\* argument: its offset from the map's centre in the first square, the
\* centre (the whole filter inside the tile) in the middle one, and the
\* first square's argument mirrored in the last.
LOCAL EdgeArg(k) == CASE k < P     -> k - c
                      [] k < 2 * P -> c
                      [] OTHER     -> 3 * P - 1 - k - c

\* Every pixel of the TILE_WIDTH x TILE_HEIGHT buffer is written exactly
\* once (nine loops of P x P writes reach every index), and with the alpha
\* of its square, the east squares the mirror image of the west ones and
\* the south of the north.
TileLayoutAsReference ==
    /\ {w[1] : w \in ShadowGaussianMakeTile} = 0 .. TileWidth * TileHeight - 1
    /\ \A w \in ShadowGaussianMakeTile :
           w[2] = <<EdgeArg(w[1] % TileWidth), EdgeArg(w[1] \div TileWidth)>>

\* For every pixel of the tile, sum_gaussian adds exactly the filter cells
\* its comment names, those with 0 <= x + (fx - center) < width (and the
\* same for y), and none outside the map.
FilterAsReference ==
    \A w \in ShadowGaussianMakeTile :
        /\ SumGaussianRange(w[2][1], TileWidth)
               = {f \in 0 .. GaussianMapSize - 1 :
                     0 =< w[2][1] + f - c /\ w[2][1] + f - c < TileWidth}
        /\ SumGaussianRange(w[2][2], TileHeight)
               = {f \in 0 .. GaussianMapSize - 1 :
                     0 =< w[2][2] + f - c /\ w[2][2] + f - c < TileHeight}

=============================================================================
