--------------------------- MODULE CoglAtlasTexture ---------------------------
(***************************************************************************)
(* CoglAtlasTexture, src/clutter/cogl/cogl/cogl-atlas-texture.c: small    *)
(* textures share one large GL texture per format class (with or without  *)
(* alpha).  Each texture owns a rectangle of the atlas with a one-pixel   *)
(* border that repeats its edge pixels, and samples the atlas through a   *)
(* sub-texture of the rectangle's interior.  When a new texture does not  *)
(* fit, the atlas is rebuilt at the same or a doubled size and every      *)
(* texture is blitted to its new place.                                   *)
(*                                                                         *)
(*   atlas[k]  ctx->atlas_alpha / atlas_no_alpha: the CoglAtlas's size and *)
(*             the rectangle it holds for each texture, or NoAtlas         *)
(*   big[k]    ctx->atlas_*_texture: a generation number (a new handle on  *)
(*             each rebuild) and the value of every texel                  *)
(*   tex[t]    each CoglAtlasTexture: its format, bitmap size, rectangle,  *)
(*             sub_texture (the atlas generation and rectangle it was made *)
(*             from) and the version of each of its own pixels             *)
(* A texel holds <<t, i, j, v>>, pixel (i, j) of t at version v, or Junk.  *)
(* cogl_atlas_add_rectangle belongs to cogl-atlas.c, which is not in this  *)
(* tree; it is taken to place a rectangle first-fit, row by row.           *)
(***************************************************************************)
EXTENDS Integers, Sequences, FiniteSets, Functions, TLC

CONSTANTS
    Texs,            \* CoglAtlasTexture objects the model may create
    BitmapSizes,     \* bitmap sizes passed to _cogl_atlas_texture_new_from_bitmap
    InitAtlasSize,   \* the first atlas side (256 in the code, scaled down)
    MaxTextureSize,  \* GL_MAX_TEXTURE_SIZE on the same scale
    MaxGen,          \* bound on the updates of one pixel through set_region
    Formats          \* internal formats: "rgb" (RGB_888), "rgba" (RGBA_8888)

Kinds == {"alpha", "noalpha"}
\* The atlas a format goes to: internal_format & COGL_A_BIT.
AtlasOf(f) == IF f = "rgba" THEN "alpha" ELSE "noalpha"

Rect(x, y, w, h) == [x |-> x, y |-> y, w |-> w, h |-> h]
NoRect == Rect(-1, -1, 0, 0)
NoEnts == [t \in {} |-> NoRect]
NoAtlas == [w |-> 0, h |-> 0, ents |-> NoEnts]
Junk == <<"junk", 0, 0, 0>>
Cells(w, h) == (0 .. w - 1) \X (0 .. h - 1)
Area(r) == r.w * r.h
Pixels(s) == (0 .. s.w - 1) \X (0 .. s.h - 1)
Unused == [state |-> "unused", fmt |-> "rgb", size |-> [w |-> 0, h |-> 0],
           rect |-> NoRect, sub |-> [gen |-> 0, rect |-> NoRect],
           data |-> [p \in {} |-> 0]]

VARIABLES atlas, big, tex
vars == <<atlas, big, tex>>

Init ==
    /\ atlas = [k \in Kinds |-> NoAtlas]
    /\ big = [k \in Kinds |-> [gen |-> 0, px |-> [c \in {} |-> Junk]]]
    /\ tex = [t \in Texs |-> Unused]

-----------------------------------------------------------------------------
(* cogl_atlas_add_rectangle (outside this tree): the first free place,     *)
(* scanning rows from the top, or NoRect when none is left.                *)

Disjoint(a, b) == \/ a.x + a.w =< b.x \/ b.x + b.w =< a.x
                  \/ a.y + a.h =< b.y \/ b.y + b.h =< a.y
AddRectangle(ents, W, H, w, h) ==
    LET P == {p \in (0 .. W - w) \X (0 .. H - h) :
                \A e \in DOMAIN ents : Disjoint(Rect(p[1], p[2], w, h), ents[e])}
        Before(p, q) == p[2] < q[2] \/ (p[2] = q[2] /\ p[1] =< q[1])
    IN IF P = {} THEN NoRect
       ELSE LET p == CHOOSE p \in P : \A q \in P : Before(p, q)
            IN Rect(p[1], p[2], w, h)
RemainingSpace(a) == a.w * a.h - SumFunction([e \in DOMAIN a.ents |-> Area(a.ents[e])])

-----------------------------------------------------------------------------
(* Reorganising the atlas.                                                 *)

\* _cogl_atlas_texture_get_next_size: double the smaller side (the height
\* when they are equal).
NextSize(s) == IF s.w < s.h THEN [w |-> 2 * s.w, h |-> s.h]
               ELSE [w |-> s.w, h |-> 2 * s.h]

\* The sanity check on GL_MAX_TEXTURE_SIZE: halve it when bit 30 is set.
MaxSize == IF (MaxTextureSize \div 2^30) % 2 = 1 THEN MaxTextureSize \div 2
           ELSE MaxTextureSize

\* The textures in the order qsort with _cogl_atlas_texture_compare_size_cb
\* may leave them: largest area first; qsort leaves equal areas in any order.
SortedOrders(S, sz) ==
    {o \in [1 .. Cardinality(S) -> S] :
        /\ Range(o) = S
        /\ \A i \in 1 .. Cardinality(S) - 1 : Area(sz[o[i]]) >= Area(sz[o[i + 1]])}

\* Adding the textures of o, in order, to an empty atlas of W x H; the loop
\* breaks at the first that does not fit.
RECURSIVE PackAll(_, _, _, _, _, _)
PackAll(o, i, ents, W, H, sz) ==
    IF i > Len(o) THEN [ok |-> TRUE, ents |-> ents]
    ELSE LET p == AddRectangle(ents, W, H, sz[o[i]].w, sz[o[i]].h)
         IN IF p = NoRect THEN [ok |-> FALSE, ents |-> ents]
            ELSE PackAll(o, i + 1, ents @@ (o[i] :> p), W, H, sz)

\* create_atlas also trying atlases with a side at the maximum.
RECURSIVE CreateAtlasUpToMax(_, _, _)
CreateAtlasUpToMax(s, o, sz) ==
    IF ~(s.w =< MaxSize /\ s.h =< MaxSize) THEN NoAtlas
    ELSE LET r == PackAll(o, 1, NoEnts, s.w, s.h, sz)
         IN IF r.ok THEN [w |-> s.w, h |-> s.h, ents |-> r.ents]
            ELSE CreateAtlasUpToMax(NextSize(s), o, sz)

\* _cogl_atlas_texture_create_atlas: try ever larger atlases, while both
\* sides are below the maximum, until one holds every texture; NoAtlas when
\* none does.
RECURSIVE CreateAtlas(_, _, _)
CreateAtlas(s, o, sz) ==
    IF ~(s.w < MaxSize /\ s.h < MaxSize) THEN NoAtlas
    ELSE LET r == PackAll(o, 1, NoEnts, s.w, s.h, sz)
         IN IF r.ok THEN [w |-> s.w, h |-> s.h, ents |-> r.ents]
            ELSE CreateAtlas(NextSize(s), o, sz)

InRect(c, r) == /\ r.x =< c[1] /\ c[1] < r.x + r.w
                /\ r.y =< c[2] /\ c[2] < r.y + r.h

\* _cogl_atlas_texture_migrate's blits (blit_begin, blit, blit_end): a new
\* atlas texture of undefined content into which every texture but the one
\* being added is copied, border included, from its old rectangle.
Migrate(old, ts, na, skip) ==
    [c \in Cells(na.w, na.h) |->
        LET M == {u \in DOMAIN na.ents \ {skip} : InRect(c, na.ents[u])}
        IN IF M = {} THEN Junk
           ELSE LET u == CHOOSE u \in M : TRUE
                    o == ts[u].rect
                    n == na.ents[u]
                IN old.px[<<c[1] - n.x + o.x, c[2] - n.y + o.y>>]]

\* _cogl_atlas_texture_create_sub_texture: the interior of the rectangle in
\* the atlas texture of generation g.
SubTexture(g, r) == [gen |-> g, rect |-> r]

\* The loop of _cogl_atlas_texture_migrate leaving the sub-textures alone.
MovedNoSubUpdate(ts, na, skip, g) ==
    [u \in DOMAIN ts |->
        IF u \in DOMAIN na.ents \ {skip} THEN [ts[u] EXCEPT !.rect = na.ents[u]]
        ELSE ts[u]]

\* The loop of _cogl_atlas_texture_migrate: every texture but the one being
\* added gets a new sub-texture of the new atlas texture and its new
\* rectangle.
Moved(ts, na, skip, g) ==
    [u \in DOMAIN ts |->
        IF u \in DOMAIN na.ents \ {skip}
        THEN [ts[u] EXCEPT !.rect = na.ents[u], !.sub = SubTexture(g, na.ents[u])]
        ELSE ts[u]]

\* _cogl_atlas_texture_reserve_space for a w x h rectangle for texture t in
\* the atlas of kind k: the set of outcomes [ok, atlas, big, tex, rect].
\* The rectangle goes into the existing atlas if it fits; otherwise all of
\* the atlas's textures and the new one, sorted by size, go into a new
\* atlas starting at 256 (InitAtlasSize), or at the current size, doubled
\* first when the free space is less than w * h.
ReserveSpace(k, t, w, h) ==
    LET a == atlas[k]
        p == IF a # NoAtlas THEN AddRectangle(a.ents, a.w, a.h, w, h) ELSE NoRect
    IN IF p # NoRect
       THEN {[ok |-> TRUE, atlas |-> [a EXCEPT !.ents = @ @@ (t :> p)],
              big |-> big[k], tex |-> tex, rect |-> p]}
       ELSE LET S == DOMAIN a.ents \cup {t}
                sz == [u \in S |-> IF u = t THEN Rect(0, 0, w, h) ELSE tex[u].rect]
                cur == [w |-> a.w, h |-> a.h]
                start == IF a = NoAtlas THEN [w |-> InitAtlasSize, h |-> InitAtlasSize]
                         ELSE IF RemainingSpace(a) < w * h THEN NextSize(cur)
                         ELSE cur
                Outcome(o) ==
                    LET na == CreateAtlas(start, o, sz)
                        g == big[k].gen + 1
                    IN IF na = NoAtlas
                       THEN [ok |-> FALSE, atlas |-> a, big |-> big[k],
                             tex |-> tex, rect |-> NoRect]
                       ELSE [ok |-> TRUE, atlas |-> na,
                             big |-> [gen |-> g,
                                      px |-> IF a = NoAtlas
                                             THEN [c \in Cells(na.w, na.h) |-> Junk]
                                             ELSE Migrate(big[k], tex, na, t)],
                             tex |-> IF a = NoAtlas THEN tex ELSE Moved(tex, na, t, g),
                             rect |-> na.ents[t]]
            IN {Outcome(o) : o \in SortedOrders(S, sz)}

-----------------------------------------------------------------------------
(* _cogl_atlas_texture_set_region on a texture in the atlas: the region's *)
(* pixels go to the rectangle's interior, and the edge pixels of a region  *)
(* that touches an edge of the texture go to the border beside it.         *)

Pix(t, d, i, j) == <<t, i, j, d[<<i, j>>]>>

\* set_region testing the right edge against the rectangle's width - 1.
WriteRegionRightOffByOne(px, t, r, d, dx, dy, dw, dh) ==
    LET Central == {<<r.x + 1 + dx + i, r.y + 1 + dy + j>> : i \in 0 .. dw - 1, j \in 0 .. dh - 1}
        Left == IF dx = 0 THEN {<<r.x, r.y + 1 + dy + j>> : j \in 0 .. dh - 1} ELSE {}
        Right == IF dx + dw = r.w - 1
                 THEN {<<r.x + r.w - 1, r.y + 1 + dy + j>> : j \in 0 .. dh - 1} ELSE {}
        Top == IF dy = 0 THEN {<<r.x + 1 + dx + i, r.y>> : i \in 0 .. dw - 1} ELSE {}
        Bottom == IF dy + dh = r.h - 2
                  THEN {<<r.x + 1 + dx + i, r.y + r.h - 1>> : i \in 0 .. dw - 1} ELSE {}
    IN [c \in DOMAIN px |->
          CASE c \in Central -> Pix(t, d, c[1] - r.x - 1, c[2] - r.y - 1)
            [] c \in Left    -> Pix(t, d, dx, c[2] - r.y - 1)
            [] c \in Right   -> Pix(t, d, dx + dw - 1, c[2] - r.y - 1)
            [] c \in Top     -> Pix(t, d, c[1] - r.x - 1, dy)
            [] c \in Bottom  -> Pix(t, d, c[1] - r.x - 1, dy + dh - 1)
            [] OTHER         -> px[c]]

\* The five cogl_texture_set_region calls on the atlas texture: the
\* central data, then the left, right, top and bottom edges when the region
\* reaches them (dst_x == 0, dst_x + dst_width == rectangle.width - 2, ...).
\* The corners of the border are never written.
WriteRegion(px, t, r, d, dx, dy, dw, dh) ==
    LET Central == {<<r.x + 1 + dx + i, r.y + 1 + dy + j>> : i \in 0 .. dw - 1, j \in 0 .. dh - 1}
        Left == IF dx = 0 THEN {<<r.x, r.y + 1 + dy + j>> : j \in 0 .. dh - 1} ELSE {}
        Right == IF dx + dw = r.w - 2
                 THEN {<<r.x + r.w - 1, r.y + 1 + dy + j>> : j \in 0 .. dh - 1} ELSE {}
        Top == IF dy = 0 THEN {<<r.x + 1 + dx + i, r.y>> : i \in 0 .. dw - 1} ELSE {}
        Bottom == IF dy + dh = r.h - 2
                  THEN {<<r.x + 1 + dx + i, r.y + r.h - 1>> : i \in 0 .. dw - 1} ELSE {}
    IN [c \in DOMAIN px |->
          CASE c \in Central -> Pix(t, d, c[1] - r.x - 1, c[2] - r.y - 1)
            [] c \in Left    -> Pix(t, d, dx, c[2] - r.y - 1)
            [] c \in Right   -> Pix(t, d, dx + dw - 1, c[2] - r.y - 1)
            [] c \in Top     -> Pix(t, d, c[1] - r.x - 1, dy)
            [] c \in Bottom  -> Pix(t, d, c[1] - r.x - 1, dy + dh - 1)
            [] OTHER         -> px[c]]

-----------------------------------------------------------------------------
(* The entry points.                                                       *)

\* The failure branch keeping the reserved rectangle.
DropReservedKeep(a, t) == a

\* The _cogl_texture_upload_data_convert failure branch of new_from_bitmap:
\* cogl_atlas_remove_rectangle for the rectangle reserve_space made; the
\* reorganised atlas stays.
DropReserved(a, t) == [a EXCEPT !.ents = Restrict(@, DOMAIN @ \ {t})]

\* _cogl_atlas_texture_new_from_bitmap for a bitmap of size s in format f,
\* with no flags, on a driver that can read back textures, where the
\* conversion to the internal format succeeds when conv.  The rectangle is
\* the bitmap plus a two-pixel border; when reserve_space fails nothing
\* changes (the caller falls back to another texture type).  On success
\* the texture is in the atlas, gets its sub-texture, and set_region
\* uploads the whole bitmap with its border.
NewFromBitmap(t, s, f, conv) ==
    /\ tex[t].state = "unused"
    /\ LET k == AtlasOf(f) IN
       \E r \in ReserveSpace(k, t, s.w + 2, s.h + 2) :
          IF ~r.ok THEN UNCHANGED vars
          ELSE IF ~conv
          THEN /\ atlas' = [atlas EXCEPT ![k] = DropReserved(r.atlas, t)]
               /\ big' = [big EXCEPT ![k] = r.big]
               /\ tex' = r.tex
          ELSE LET d == [p \in Pixels(s) |-> 0]
               IN /\ atlas' = [atlas EXCEPT ![k] = r.atlas]
                  /\ tex' = [r.tex EXCEPT ![t] =
                               [state |-> "live", fmt |-> f, size |-> s,
                                rect |-> r.rect, sub |-> SubTexture(r.big.gen, r.rect),
                                data |-> d]]
                  /\ big' = [big EXCEPT ![k] =
                               [r.big EXCEPT !.px =
                                   WriteRegion(@, t, r.rect, d, 0, 0, s.w, s.h)]]

\* cogl_texture_set_region on a live atlas texture for the region
\* (dx, dy, dw, dh) of its bitmap, with new data for every pixel in it.
SetRegion(t, dx, dy, dw, dh) ==
    /\ tex[t].state = "live"
    /\ dx + dw =< tex[t].size.w /\ dy + dh =< tex[t].size.h
    /\ LET R == (dx .. dx + dw - 1) \X (dy .. dy + dh - 1)
           d == [p \in DOMAIN tex[t].data |->
                   IF p \in R THEN tex[t].data[p] + 1 ELSE tex[t].data[p]]
           k == AtlasOf(tex[t].fmt)
       IN /\ \A p \in R : tex[t].data[p] < MaxGen
          /\ tex' = [tex EXCEPT ![t].data = d]
          /\ big' = [big EXCEPT ![k].px =
                       WriteRegion(@, t, tex[t].rect, d, dx, dy, dw, dh)]
          /\ UNCHANGED atlas

\* The last unref: _cogl_atlas_texture_free removes the rectangle from the
\* atlas of the texture's format and unrefs the sub-texture.
Free(t) ==
    /\ tex[t].state = "live"
    /\ LET k == AtlasOf(tex[t].fmt)
       IN atlas' = [atlas EXCEPT ![k].ents = Restrict(@, DOMAIN @ \ {t})]
    /\ tex' = [tex EXCEPT ![t].state = "freed"]
    /\ UNCHANGED big

Next ==
    \/ \E t \in Texs, s \in BitmapSizes, f \in Formats, conv \in BOOLEAN :
          NewFromBitmap(t, s, f, conv)
    \/ \E t \in Texs, dx, dy \in 0 .. 2, dw, dh \in 1 .. 3 : SetRegion(t, dx, dy, dw, dh)
    \/ \E t \in Texs : Free(t)

Spec == Init /\ [][Next]_vars

-----------------------------------------------------------------------------
(* Properties.                                                             *)

Live(k) == {t \in Texs : tex[t].state = "live" /\ AtlasOf(tex[t].fmt) = k}

TypeOK ==
    /\ \A k \in Kinds : /\ DOMAIN big[k].px = Cells(atlas[k].w, atlas[k].h)
                        /\ atlas[k].w < MaxSize /\ atlas[k].h < MaxSize
    /\ \A t \in Texs : /\ tex[t].state \in {"unused", "live", "freed"}
                       /\ tex[t].state = "live" =>
                            /\ tex[t].size \in BitmapSizes
                            /\ tex[t].data \in [Pixels(tex[t].size) -> 0 .. MaxGen]

\* The atlas holds a rectangle exactly for each live texture of its format,
\* the one the texture records: new_from_bitmap removes the rectangle it
\* reserved when the upload fails, free removes it, and a rebuild moves
\* the texture's record with the atlas's.
AtlasTracksTextures ==
    \A k \in Kinds :
        /\ DOMAIN atlas[k].ents = Live(k)
        /\ \A t \in Live(k) : atlas[k].ents[t] = tex[t].rect

\* Every live texture samples the current atlas texture at its current
\* rectangle: after a rebuild replaces the atlas texture and moves the
\* rectangles, migrate has remade every other texture's sub-texture.
SubTexturesCurrent ==
    \A k \in Kinds : \A t \in Live(k) :
        tex[t].sub = SubTexture(big[k].gen, tex[t].rect)

\* The atlas texture shows every live texture's current pixels in its
\* rectangle's interior, and its edge pixels in the border beside each edge,
\* through every rebuild, partial update and free of other textures.
AtlasContentCurrent ==
    \A k \in Kinds : \A t \in Live(k) :
        LET r == tex[t].rect
            s == tex[t].size
            d == tex[t].data
            px == big[k].px
        IN /\ \A i \in 0 .. s.w - 1, j \in 0 .. s.h - 1 :
                 px[<<r.x + 1 + i, r.y + 1 + j>>] = Pix(t, d, i, j)
           /\ \A j \in 0 .. s.h - 1 :
                 /\ px[<<r.x, r.y + 1 + j>>] = Pix(t, d, 0, j)
                 /\ px[<<r.x + r.w - 1, r.y + 1 + j>>] = Pix(t, d, s.w - 1, j)
           /\ \A i \in 0 .. s.w - 1 :
                 /\ px[<<r.x + 1 + i, r.y>>] = Pix(t, d, i, 0)
                 /\ px[<<r.x + 1 + i, r.y + r.h - 1>>] = Pix(t, d, i, s.h - 1)

=============================================================================
