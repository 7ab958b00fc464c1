--------------------------- MODULE WindowLifecycle ---------------------------
(***************************************************************************)
(* What the compositor promises about the life of a window surface, from   *)
(* the WindowRegistry and lifecycle rules of spec.md (sections 3 and 4.1): *)
(* a surface is registered under its native id when the window is created  *)
(* or reparented to the root, unless the id already has one; at the start  *)
(* of destroy handling it is detached from the registry and the stack, so  *)
(* that later lookups treat it as gone, while its DESTROY effect runs; it  *)
(* is then freed.  A surface is never registered again once detached or    *)
(* freed, and freeing it releases its id only if it still holds it.       *)
(*   phase  each surface: "none" (not yet constructed), "registered",       *)
(*          "detached" or "gone"                                           *)
(*   owner  the registry: the surface each native id maps to, or NoActor    *)
(*   win    the native id each constructed surface was registered under     *)
(***************************************************************************)
CONSTANTS Actors, Xids, NoActor

VARIABLES phase, owner, win

lvars == <<phase, owner, win>>

Phases == {"none", "registered", "detached", "gone"}

\* Release id x from surface a if the registry still maps it to a.
Release(x, a) == [owner EXCEPT ![x] = IF @ = a THEN NoActor ELSE @]

LInit ==
    /\ phase = [a \in Actors |-> "none"]
    /\ owner = [x \in Xids |-> NoActor]
    /\ win \in [Actors -> Xids]

\* register: a fresh surface for an id that has none.
Register(a, x) ==
    /\ phase[a] = "none" /\ owner[x] = NoActor
    /\ phase' = [phase EXCEPT ![a] = "registered"]
    /\ owner' = [owner EXCEPT ![x] = a]
    /\ win' = [win EXCEPT ![a] = x]

\* Destroy handling begins with an effect: out of the registry at once.
Detach(a) ==
    /\ phase[a] = "registered"
    /\ phase' = [phase EXCEPT ![a] = "detached"]
    /\ owner' = Release(win[a], a)
    /\ UNCHANGED win

\* The surface is freed: at once when no effect runs, or when the DESTROY
\* effect of a detached surface completes.
Free(a) ==
    /\ phase[a] \in {"registered", "detached"}
    /\ phase' = [phase EXCEPT ![a] = "gone"]
    /\ owner' = Release(win[a], a)
    /\ UNCHANGED win

FreeDetached(a) == phase[a] = "detached" /\ Free(a)

LNext == \E a \in Actors : \/ \E x \in Xids : Register(a, x)
                           \/ Detach(a) \/ Free(a)

LSpec == LInit /\ [][LNext]_lvars

\* The effect layer calls effect_completed once for every effect it began,
\* so a detached surface is eventually freed.
LFairSpec == LSpec /\ \A a \in Actors : WF_lvars(FreeDetached(a))

=============================================================================
