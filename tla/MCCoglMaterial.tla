--------------------------- MODULE MCCoglMaterial ---------------------------
(* Instances of CoglMaterial for TLC: two textures of different targets,   *)
(* one with an alpha channel, and the colours the program sets.            *)
EXTENDS CoglMaterial

CONSTANTS tA, tB, d2, dR, ov1, m1, m2, l1, l2, l3

\* tA is a GL_TEXTURE_2D texture without alpha, tB a rectangle texture
\* with alpha.
MCTargetOf == [t \in Textures |-> IF t = tA THEN "2d" ELSE "rect"]
MCHasAlpha == [t \in Textures |-> t = tB]

\* Opaque white (the default), and a translucent white.
MCWhite == [c |-> "white", a |-> 1]
MCColors == {MCWhite, [c |-> "white", a |-> 0]}

\* Flushes with no mask, and with the first layer's bit set.
MCMasks == {{}, {0}}

==============================================================================
