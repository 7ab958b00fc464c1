------------------------ MODULE MCCoglAtlasTexture ------------------------
(* Instances of CoglAtlasTexture for TLC.                                   *)
EXTENDS CoglAtlasTexture
CONSTANTS t1, t2, t3

\* A one-pixel bitmap (a 3x3 rectangle) and a three-pixel one (5x3), of
\* which only two fit in the largest atlas (8x8).
MCBitmapSizes == {[w |-> 1, h |-> 1], [w |-> 3, h |-> 1]}

==============================================================================
