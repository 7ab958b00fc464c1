----------------------------- MODULE ShapedWindow -----------------------------
(***************************************************************************)
(* One compositor window and its MetaShapedTexture actor: how the shape,  *)
(* size and content of an X window reach the texture and its mask.         *)
(* compositor-clutter.c constructs the window (meta_comp_window_constructed*)
(* with is_shaped, has_shadow and update_shape), handles ShapeNotify       *)
(* (process_shape, update_shape), ConfigureNotify (resize_win) and         *)
(* DamageNotify (repair_win, which binds a new pixmap to the texture);     *)
(* Clutter paints and picks the actor at any time in between.              *)
(*                                                                         *)
(*   xsize, xshaped, xrects, xdamaged  the X window: its size, its client  *)
(*        bounding shape, and whether its damage object has reported       *)
(*   queue     the events for this window on the compositor's connection   *)
(*   shaped, attrs, bound, shadow  priv->shaped, priv->attrs' size, whether*)
(*        priv->back_pixmap is set, and whether priv->shadow was created   *)
(*   tex       the MetaShapedTexture record (module ShapedTexture)         *)
(*   multiTex  the static tst_multi_tex_support cache                      *)
(*   drawn     what the last paint or pick step drew                       *)
(* The window stays mapped and has no effect running: the registry, the   *)
(* stacking and the effects are the subject of CompositorClutter.          *)
(***************************************************************************)
EXTENDS ShapedTexture, ShadowTile

CONSTANTS
    Sizes,       \* sizes the window takes, a subset of TexSizes
    Shapes,      \* rectangle lists the client sets as its bounding shape
    Attrs,       \* the window's argb32, opacity, frame, override-redirect, type
    MaxQueue     \* bound on the length of the event queue

ASSUME Sizes \subseteq TexSizes /\ MaxQueue \in Nat \ {0}

VARIABLES xsize, xshaped, xrects, xdamaged, queue,
          shaped, attrs, bound, shadow, tex, multiTex, drawn

xvars == <<xsize, xshaped, xrects, xdamaged>>
cvars == <<shaped, attrs, bound, shadow, tex, multiTex>>
vars == <<xvars, queue, cvars, drawn>>

ShapeEv(sh) == [type |-> "shape", shaped |-> sh, size |-> xsize]
ConfigureEv(s) == [type |-> "configure", shaped |-> FALSE, size |-> s]
DamageEv == [type |-> "damage", shaped |-> FALSE, size |-> xsize]
NoDrawing == [kind |-> "none"]

\* XShapeGetRectangles (ShapeBounding): the client's shape, or the default
\* bounding region (the window's extent) when the client set none.
XShapeGetRectangles ==
    IF xshaped THEN xrects ELSE <<Rect(0, 0, xsize.w, xsize.h)>>

\* meta_comp_window_has_shadow: the first rule that applies wins.
HasShadow(a, sh) ==
    CASE a.argb32 \/ a.opacity # 255 -> FALSE
      [] a.frame                     -> TRUE
      [] sh                          -> FALSE
      [] a.override                  -> TRUE
      [] a.type \in {"dnd", "desktop"} -> FALSE
      [] a.type = "menu"             -> TRUE
      [] OTHER                       -> FALSE

\* update_shape without clearing the old rectangles first.
UpdateShapeNoClear(t, sh) ==
    IF sh THEN AddRectangles(t, XShapeGetRectangles) ELSE t

\* update_shape: clear the rectangles; when the window is shaped, add the
\* rectangles the server reports now (a NULL reply adds nothing).
UpdateShape(t, sh) ==
    LET t1 == ClearRectangles(t)
    IN IF sh THEN AddRectangles(t1, XShapeGetRectangles) ELSE t1

\* The window as the compositor holds it after CreateNotify: constructed
\* with is_shaped from the server, has_shadow and update_shape, with no
\* back pixmap yet; the window is mapped and its first damage is queued.
Init ==
    /\ \E s \in Sizes, sh \in BOOLEAN, rs \in Shapes :
         /\ xsize = s
         /\ xshaped = sh
         /\ xrects = IF sh THEN rs ELSE <<>>
    /\ xdamaged = TRUE
    /\ queue = <<DamageEv>>
    /\ shaped = xshaped
    /\ attrs = xsize
    /\ bound = FALSE
    /\ shadow = HasShadow(Attrs, xshaped)
    /\ tex = UpdateShape(InitTexture, xshaped)
    /\ multiTex = "unknown"
    /\ drawn = NoDrawing

Push(evs) == /\ Len(queue) + Len(evs) =< MaxQueue
             /\ queue' = queue \o evs

-----------------------------------------------------------------------------
(* The X server and the client.                                            *)

\* The client sets or removes its bounding shape; the server sends
\* ShapeNotify with the new shaped state.
XShape ==
    \E sh \in BOOLEAN, rs \in Shapes :
        /\ Push(<<ShapeEv(sh)>>)
        /\ xshaped' = sh
        /\ xrects' = IF sh THEN rs ELSE <<>>
        /\ UNCHANGED <<xsize, xdamaged>>
        /\ UNCHANGED cvars /\ drawn' = NoDrawing

\* The window is resized: ConfigureNotify, and new content, which the
\* damage object reports unless it already has (XDamageReportNonEmpty).
XResize ==
    \E s \in Sizes \ {xsize} :
        /\ Push(<<ConfigureEv(s)>> \o IF xdamaged THEN <<>> ELSE <<DamageEv>>)
        /\ xsize' = s
        /\ xdamaged' = TRUE
        /\ UNCHANGED <<xshaped, xrects>>
        /\ UNCHANGED cvars /\ drawn' = NoDrawing

\* The client draws into the window.
XDraw ==
    /\ ~xdamaged
    /\ Push(<<DamageEv>>)
    /\ xdamaged' = TRUE
    /\ UNCHANGED <<xsize, xshaped, xrects>>
    /\ UNCHANGED cvars /\ drawn' = NoDrawing

-----------------------------------------------------------------------------
(* The compositor's handlers, one event at a time from the queue head.     *)

Take(t) == /\ queue # <<>> /\ Head(queue).type = t
           /\ queue' = Tail(queue)

\* process_shape for ShapeBounding: priv->shaped from the event, then
\* update_shape.
ProcessShape ==
    /\ Take("shape")
    /\ shaped' = Head(queue).shaped
    /\ tex' = UpdateShape(tex, Head(queue).shaped)
    /\ drawn' = NoDrawing
    /\ UNCHANGED <<xvars, attrs, bound, shadow, multiTex>>

\* process_configure_notify -> resize_win: a new size detaches the back
\* pixmap (meta_comp_window_detach); the attributes take the new size.
ProcessConfigure ==
    /\ Take("configure")
    /\ bound' = (bound /\ attrs = Head(queue).size)
    /\ attrs' = Head(queue).size
    /\ drawn' = NoDrawing
    /\ UNCHANGED <<xvars, shaped, shadow, tex, multiTex>>

\* process_damage -> repair_win: without a back pixmap, name the window's
\* current pixmap and set it on the texture; either way the damage is
\* subtracted and the texture updated.
ProcessDamage ==
    /\ Take("damage")
    /\ bound' = TRUE
    /\ tex' = IF bound THEN tex ELSE SetPixmap(tex, xsize)
    /\ xdamaged' = FALSE
    /\ drawn' = NoDrawing
    /\ UNCHANGED <<xsize, xshaped, xrects, shaped, attrs, shadow, multiTex>>

-----------------------------------------------------------------------------
(* Clutter paints and picks the actor.                                     *)

\* meta_shaped_texture_is_multi_tex_supported, asked only when there are
\* rectangles: the first answer depends on the GL driver and is cached.
MultiTexAnswers == IF multiTex = "unknown" THEN {"yes", "no"} ELSE {multiTex}

PaintActor ==
    \E m \in MultiTexAnswers :
        LET r == Paint(tex, m = "yes") IN
        /\ tex' = r[1]
        /\ drawn' = r[2]
        /\ multiTex' = IF Len(tex.rects) < 1 THEN multiTex ELSE m
        /\ UNCHANGED <<xvars, queue, shaped, attrs, bound, shadow>>

PickActor ==
    \E m \in MultiTexAnswers, pp \in BOOLEAN :
        LET r == Pick(tex, m = "yes", pp) IN
        /\ tex' = r[1]
        /\ drawn' = r[2]
        /\ multiTex' = IF Len(tex.rects) < 1 THEN multiTex ELSE m
        /\ UNCHANGED <<xvars, queue, shaped, attrs, bound, shadow>>

Next == \/ XShape \/ XResize \/ XDraw
        \/ ProcessShape \/ ProcessConfigure \/ ProcessDamage
        \/ PaintActor \/ PickActor

Spec == Init /\ [][Next]_vars

-----------------------------------------------------------------------------
(* Properties.                                                             *)

TypeOK ==
    /\ xsize \in Sizes /\ xshaped \in BOOLEAN /\ xdamaged \in BOOLEAN
    /\ attrs \in Sizes /\ bound \in BOOLEAN /\ shaped \in BOOLEAN
    /\ shadow \in BOOLEAN
    /\ tex.paint \in Sizes \cup {NoTex}
    /\ tex.mask.data \subseteq (0 .. tex.mask.w - 1) \X (0 .. tex.mask.h - 1)
    /\ multiTex \in {"unknown", "yes", "no"}
    /\ Len(queue) =< MaxQueue

\* The smallest power of two not below n, the size Cogl gives a texture
\* side when NPOT textures are not supported.
NextPow2(n) ==
    LET P == {2^k : k \in 0 .. n}
    IN CHOOSE p \in P : p >= n /\ \A q \in P : q >= n => p =< q
RefCoords(s) ==
    LET g == IF NPOT THEN s ELSE [w |-> NextPow2(s.w), h |-> NextPow2(s.h)]
    IN [x |-> <<s.w, g.w>>, y |-> <<s.h, g.h>>]
SameFraction(a, b) == a[1] * b[2] = a[2] * b[1]

\* Every draw through the mask (meta_shaped_texture_paint and _pick after
\* ensure_mask) uses a mask built from the rectangles the texture holds now,
\* at the size of the pixmap bound now, with texture coordinates that cover
\* exactly that size of the GL texture.  Rectangles change in update_shape
\* and the pixmap in repair_win, each in its own event, between paints.
MaskedDrawCurrent ==
    drawn.kind = "masked" =>
        /\ drawn.size = tex.paint
        /\ drawn.mask.w = tex.paint.w /\ drawn.mask.h = tex.paint.h
        /\ drawn.mask.data = MaskData(tex.rects, tex.paint)
        /\ SameFraction(drawn.mask.coords.x, RefCoords(tex.paint).x)
        /\ SameFraction(drawn.mask.coords.y, RefCoords(tex.paint).y)

\* Once every ShapeNotify is handled, priv->shaped and the texture's
\* rectangles are the server's: the shape the client set last, and none
\* when it removed its shape.  update_shape reads the server's rectangles
\* when it handles an event, whatever the event carried.
ShapeTracksServer ==
    (\A i \in 1 .. Len(queue) : queue[i].type # "shape") =>
        /\ shaped = xshaped
        /\ tex.rects = IF xshaped THEN xrects ELSE <<>>

\* A window with a shadow shows, stretched by its TidyTextureFrame, the tile
\* shadow_gaussian_make_tile built for compositor->shadow_src: every pixel
\* written exactly once, none left at g_malloc0's transparent zero, each
\* with the alpha of its square of the 3x3 grid and the east and south
\* squares the mirror images of the west and north ones.
ShadowTileLayout == shadow => TileLayoutAsReference

\* The alpha of every pixel of that tile sums exactly the cells of the
\* gaussian map sum_gaussian's comment names, and none outside the map:
\* its clamps of fx_start, fx_end, fy_start and fy_end are right for
\* every offset the tile uses.
SumGaussianInRange == shadow => FilterAsReference

\* The mask is the shape clipped to the texture (spec.md section 4.4): a
\* pixel is opaque exactly when a rectangle covers it.
ShapeRegion(rs, s) ==
    {p \in (0 .. s.w - 1) \X (0 .. s.h - 1) :
        \E i \in 1 .. Len(rs) : /\ rs[i].x =< p[1] /\ p[1] < rs[i].x + rs[i].w
                                /\ rs[i].y =< p[2] /\ p[2] < rs[i].y + rs[i].h}

\* Every pixel a masked draw shows is covered by one of the window's shape
\* rectangles, and every covered pixel is shown: ensure_mask's clipping of
\* the rectangles to the texture keeps exactly the shape.
MaskIsShape ==
    drawn.kind = "masked" => drawn.mask.data = ShapeRegion(tex.rects, tex.paint)

=============================================================================
