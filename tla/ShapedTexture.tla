---------------------------- MODULE ShapedTexture ----------------------------
(***************************************************************************)
(* MetaShapedTexture, src/src/compositor/shaped-texture.c: a Clutter      *)
(* texture-pixmap actor that paints through an alpha mask built from the   *)
(* window's bounding-shape rectangles.  Its state is one record:           *)
(*   rects  priv->rectangles, the XRectangles in the order they were added *)
(*   mask   priv->mask_texture with mask_width/height, mask_gl_width/height*)
(*          and mask_tex_coords, or NoMask (COGL_INVALID_HANDLE)           *)
(*   paint  the size of the Cogl texture of the bound pixmap, or NoTex     *)
(* The methods are operators from record to record; the module that owns  *)
(* the actor calls them inside its own actions.                            *)
(***************************************************************************)
EXTENDS Integers, Sequences

CONSTANTS
    NPOT,        \* COGL_FEATURE_TEXTURE_NPOT is among cogl_get_features ()
    MaxTexSize   \* the largest texture side the model uses

ASSUME NPOT \in BOOLEAN /\ MaxTexSize \in Nat \ {0}

\* COGL_INVALID_HANDLE, as a texture of no size (records of one shape let
\* TLC compare a handle with the invalid one).
NoTex == [w |-> 0, h |-> 0]
NoMask == [w |-> 0, h |-> 0, data |-> {}, gl |-> NoTex,
           coords |-> [x |-> <<1, 1>>, y |-> <<1, 1>>]]
TexSizes == [w : 1 .. MaxTexSize, h : 1 .. MaxTexSize]
\* An XRectangle: short x, y; unsigned short width, height.
Rect(x, y, w, h) == [x |-> x, y |-> y, w |-> w, h |-> h]

\* meta_shaped_texture_init: no rectangles, no mask, and no pixmap yet.
InitTexture == [rects |-> <<>>, mask |-> NoMask, paint |-> NoTex]

\* The CLAMP macro of glib, in its order of tests.
Clamp(v, lo, hi) == IF v > hi THEN hi ELSE IF v < lo THEN lo ELSE v

-----------------------------------------------------------------------------
(* meta_shaped_texture_get_gl_size: without NPOT textures Cogl rounds each *)
(* side up to a power of two, which the code recomputes by doubling from 1.*)

RECURSIVE Doubling(_, _)
Doubling(real, n) == IF real < n THEN Doubling(real * 2, n) ELSE real

GlSide(n) == IF NPOT THEN n ELSE Doubling(1, n)
GetGlSize(s) == [w |-> GlSide(s.w), h |-> GlSide(s.h)]

\* meta_shaped_texture_set_coord_array for the far corner of the texture
\* coordinates: 1.0 when the GL texture has exactly the texture's size,
\* tex / gl otherwise.  A coordinate is kept as a fraction <<num, den>>.
CoordsFor(s, gl) ==
    IF gl.w = s.w /\ gl.h = s.h THEN [x |-> <<1, 1>>, y |-> <<1, 1>>]
    ELSE [x |-> <<s.w, gl.w>>, y |-> <<s.h, gl.h>>]

-----------------------------------------------------------------------------
(* The mask data: a zeroed tex_width x tex_height buffer in which every     *)
(* rectangle, clipped by CLAMP, is set to 255.  The set of pixels at 255.  *)

\* The loop body clipping only the near edges of a rectangle.
FilledNoFarClip(r, s) ==
    LET x1 == Clamp(r.x, 0, s.w - 1)
        y1 == Clamp(r.y, 0, s.h - 1)
    IN (x1 .. r.x + r.w - 1) \X (y1 .. r.y + r.h - 1)

\* The pixels the loop body fills for one rectangle: x2 and y2 are taken
\* from the unclipped x1 and y1, then each is clamped.
Filled(r, s) ==
    LET x1 == Clamp(r.x, 0, s.w - 1)
        x2 == Clamp(r.x + r.w, x1, s.w)
        y1 == Clamp(r.y, 0, s.h - 1)
        y2 == Clamp(r.y + r.h, y1, s.h)
    IN (x1 .. x2 - 1) \X (y1 .. y2 - 1)

\* The loop runs from the last rectangle down to the first.
RECURSIVE FillFrom(_, _, _)
FillFrom(rs, i, s) == IF i = 0 THEN {}
                      ELSE Filled(rs[i], s) \cup FillFrom(rs, i - 1, s)

MaskData(rs, s) == FillFrom(rs, Len(rs), s)

-----------------------------------------------------------------------------
(* The methods.                                                            *)

\* meta_shaped_texture_dirty_mask: unref the mask if there is one.
DirtyMask(t) == [t EXCEPT !.mask = NoMask]

\* meta_shaped_texture_clear_rectangles: g_array_set_size (0), dirty_mask,
\* queue_redraw.
ClearRectangles(t) == DirtyMask([t EXCEPT !.rects = <<>>])

\* meta_shaped_texture_add_rectangles: append the rectangles, dirty_mask,
\* queue_redraw.
AddRectangles(t, rs) == DirtyMask([t EXCEPT !.rects = @ \o rs])

\* clutter_x11_texture_pixmap_set_pixmap: the paint texture now has the
\* pixmap's size (the parent class; the mask is not touched).
SetPixmap(t, s) == [t EXCEPT !.paint = s]

\* A new mask built at size s from the current rectangles.
BuildMask(t, s) ==
    [w |-> s.w, h |-> s.h, data |-> MaskData(t.rects, s),
     gl |-> GetGlSize(s), coords |-> CoordsFor(s, GetGlSize(s))]

\* ensure_mask keeping a mask of another size.
EnsureMaskNoSizeCheck(t) ==
    IF t.paint = NoTex \/ t.mask # NoMask THEN t
    ELSE [t EXCEPT !.mask = BuildMask(t, t.paint)]

\* meta_shaped_texture_ensure_mask: nothing without a paint texture; a
\* mask of another size is dropped; a missing mask is built at the paint
\* texture's size.
EnsureMask(t) ==
    IF t.paint = NoTex THEN t
    ELSE LET s  == t.paint
             t1 == IF t.mask # NoMask /\ (t.mask.w # s.w \/ t.mask.h # s.h)
                   THEN DirtyMask(t) ELSE t
         IN IF t1.mask = NoMask THEN [t1 EXCEPT !.mask = BuildMask(t1, s)]
            ELSE t1

\* What one paint or pick draws: the plain texture (the parent class's
\* method), nothing, or the paint texture through the mask.
Masked(t) == [kind |-> "masked", size |-> t.paint, mask |-> t.mask]

\* meta_shaped_texture_paint with multi-texturing support mt: the regular
\* paint when there are no rectangles or no multi-texturing; otherwise,
\* once realized, nothing without a paint texture, else ensure_mask and the
\* two-unit draw.  Returns <<texture, drawing>>.
Paint(t, mt) ==
    IF Len(t.rects) < 1 \/ ~mt THEN <<t, [kind |-> "plain"]>>
    ELSE IF t.paint = NoTex THEN <<t, [kind |-> "nothing"]>>
    ELSE LET t1 == EnsureMask(t) IN <<t1, Masked(t1)>>

\* meta_shaped_texture_pick: the regular pick under the same fallback;
\* otherwise only when clutter_actor_should_pick_paint (pp) does it paint
\* the mask rectangle in the pick colour, after ensure_mask.
Pick(t, mt, pp) ==
    IF Len(t.rects) < 1 \/ ~mt THEN <<t, [kind |-> "plain"]>>
    ELSE IF ~pp \/ t.paint = NoTex THEN <<t, [kind |-> "nothing"]>>
    ELSE LET t1 == EnsureMask(t) IN <<t1, Masked(t1)>>

=============================================================================
