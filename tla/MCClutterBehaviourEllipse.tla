---------------------- MODULE MCClutterBehaviourEllipse ----------------------
(* The ellipse behaviour for TLC: the actors, as model values.           *)
EXTENDS ClutterBehaviourEllipse

CONSTANTS x1, x2

\* The states TLC tells apart.  pos is read only in the state after the
\* Apply or AlphaNotify that wrote it: each later Apply and AlphaNotify
\* overwrites the positions the properties read, and no step reads a
\* position.  Two states that differ only in pos have the same futures
\* for every property checked.
MCView == <<priv, given, applied, step, IF step.kind = "set" THEN {} ELSE pos>>

=============================================================================
