--------------------------- MODULE MCShapedWindow ---------------------------
(* Instances of ShapedWindow for TLC: the window sizes and the bounding    *)
(* shapes the client sets.                                                 *)
EXTENDS ShapedWindow

\* A wide window and a smaller one; 3 is not a power of two, so the masks
\* of the wide window have a GL texture larger than themselves.
MCSizes == {[w |-> 3, h |-> 2], [w |-> 2, h |-> 1]}

\* A shape inside both sizes, and a two-rectangle shape whose second
\* rectangle reaches past the smaller size.
MCShapes == {<<Rect(0, 0, 1, 1)>>,
             <<Rect(0, 0, 1, 1), Rect(2, 1, 1, 1)>>}

\* An override-redirect menu window with no frame: it gets a shadow only
\* while it is not shaped.
MCAttrs == [argb32 |-> FALSE, opacity |-> 255, frame |-> FALSE,
            override |-> TRUE, type |-> "menu"]

==============================================================================
