--------------------------- MODULE CompositorClutter ---------------------------
(***************************************************************************)
(* The window bookkeeping of the Clutter compositor,                       *)
(* src/src/compositor/clutter/compositor-clutter.c, together with the      *)
(* parties that drive it: the X server, which reports window changes as    *)
(* events on the compositor's connection; the window manager, which calls  *)
(* its destroy/minimize/maximize/switch entry points; and the effect       *)
(* plugin, which accepts or declines each effect and later reports it      *)
(* finished through meta_compositor_clutter_window_effect_completed.       *)
(*                                                                         *)
(* Compositor state (MetaCompScreen and MetaCompWindowPrivate):            *)
(*   windows   info->windows, the stacking list, top first                 *)
(*   byXid     info->windows_by_xid                                        *)
(*   stage     the children of info->window_group, top (painted last) first*)
(*   docks     info->dock_windows                                          *)
(*   cw        one record per MetaCompWindow object ever constructed       *)
(*   switchWS  info->switch_workspace_in_progress                          *)
(*   fault     the undefined behaviour the compositor has run into, if any *)
(* Environment:                                                            *)
(*   xs, xstack  the X server's windows and the stacking order of the      *)
(*               root's children, top first                                *)
(*   queue       the X event queue of the compositor's connection          *)
(*   active      the window manager's active workspace                     *)
(*   pend, pendSwitch  effects the plugin accepted and has not completed   *)
(***************************************************************************)
EXTENDS Integers, Sequences, SequencesExt, FiniteSets

CONSTANTS
    Frames,      \* frame windows the WM creates for the windows it manages
    Overrides,   \* override-redirect windows (no MetaWindow)
    Clients,     \* client toplevels created on the root, later framed
    Workspaces,
    WsOf,        \* [Frames -> Workspaces \cup {AllWs}]
    AllWs,       \* a window on all workspaces (sticky)
    None,        \* the X id None
    MaxQueue,    \* bound on the length of the event queue
    MaxVer,      \* bound on content changes of one window
    MaxPix,      \* bound on backing pixmaps of one window (one per resize)
    MaxEff,      \* bound on effects of one kind pending on one actor
    Env          \* [Xids -> SUBSET tags]: the environment steps each window takes

Xids == Frames \cup Overrides \cup Clients

ASSUME /\ Frames \cap Overrides = {} /\ Frames \cap Clients = {}
       /\ Overrides \cap Clients = {}
       /\ WsOf \in [Frames -> Workspaces \cup {AllWs}]
       /\ None \notin Xids
       /\ MaxQueue \in Nat /\ MaxVer \in Nat /\ MaxPix \in Nat \ {0}
       /\ MaxEff \in Nat

\* One MetaCompWindow per CreateNotify and per reparent of a client back to
\* the root: the model never needs more objects than that.
Actors == 1 .. (Cardinality(Xids) + Cardinality(Clients))
NoActor == 0
NoPixmap == 0
BadPixmap == -1   \* the id XCompositeNameWindowPixmap returns for a dead window
Kinds == {"minimize", "map", "destroy", "unmaximize", "maximize"}
Sizes == {1, 2}

\* _NET_WM_WINDOW_OPACITY as the X server holds it, and the conversion
\* (guint8)((gfloat)value * 255.0 / (gfloat)0xffffffff) at those values:
\* 0 -> 0, 0x7fffffff -> 127, 0xffffffff -> 255.
CardVals == {"unset", "c0", "cHalf", "cFull"}
Opacity8 == [c0 |-> 0, cHalf |-> 127, cFull |-> 255]
Opacities == {0, 127, 255}

Event(t, x) == [type |-> t, win |-> x, above |-> None, size |-> 1,
                top |-> FALSE, toRoot |-> FALSE, shaped |-> FALSE,
                atom |-> "opacity"]

VARIABLES xs, xstack, active, queue,
          windows, byXid, stage, docks, cw, switchWS, fault,
          pend, pendSwitch

xvars == <<xs, xstack, active>>
cvars == <<windows, byXid, stage, docks, cw, switchWS, fault>>
pvars == <<pend, pendSwitch>>
vars  == <<xvars, queue, cvars, pvars>>

\* Undefined behaviour (a NULL dereference, a freed list link) ends the
\* compositor process: its handlers, entry points and effect callbacks stop;
\* the X server goes on.
Alive == fault = "none"

-----------------------------------------------------------------------------
(* Helpers on sequences used as stacking orders, top first.                *)

IndexOf(s, e) == SelectInSeq(s, LAMBDA v : v = e)
Listed == ToSet(windows)
\* clutter_actor_raise_top: paint a last, above all its siblings.
RaiseTop(s, a) == <<a>> \o Remove(s, a)
\* clutter_actor_raise (a, b): put a directly above b.
RaiseAbove(s, a, b) == LET r == Remove(s, a) IN InsertAt(r, IndexOf(r, b), a)
\* The sibling directly below x in the X stacking order, or None.
BelowX(s, x) == IF IndexOf(s, x) < Len(s) THEN s[IndexOf(s, x) + 1] ELSE None

-----------------------------------------------------------------------------
(* The X server, the window manager and the plugin.                        *)

XRec == [exists : BOOLEAN, created : BOOLEAN, onRoot : BOOLEAN,
         mapped : BOOLEAN, wm : BOOLEAN, returned : BOOLEAN, size : Sizes,
         pix : 0 .. MaxPix, ver : 0 .. MaxVer, shaped : BOOLEAN,
         shapeSel : BOOLEAN, opacity : CardVals, type : {"normal", "dock"}]

\* The fields of MetaCompWindowPrivate the model keeps.  needs_repair and
\* is_minimized are left out: they are written (process_damage, repair_win,
\* map_win, effect_completed, minimize_window) but nothing reads them.
CwRec == [st : {"unused", "live", "disposed"}, xwin : Xids, mw : BOOLEAN,
          type : {"override", "normal", "dock"}, viewable : BOOLEAN,
          visible : BOOLEAN, size : Sizes, pix : {BadPixmap} \cup 0 .. MaxPix,
          tex : 0 .. MaxVer, damaged : BOOLEAN, needsMap : BOOLEAN,
          needsUnmap : BOOLEAN, destroyPending : BOOLEAN, shaped : BOOLEAN,
          opacity : Opacities, ip : [Kinds -> 0 .. MaxEff]]

OnActive(x) == x \notin Frames \/ WsOf[x] \in {AllWs, active}
RootSiblings == {y \in Xids : xs[y].exists /\ xs[y].onRoot}

\* Append events to the queue, within its bound.
Push(evs) == /\ Len(queue) + Len(evs) =< MaxQueue
             /\ queue' = queue \o evs

\* With XDamageReportNonEmpty each damage object reports once, when its
\* region goes from empty to non-empty; the region lives in cw[a].damaged.
DamageTargets(x) == {a \in Actors : cw[a].st = "live" /\ cw[a].xwin = x
                                    /\ ~cw[a].damaged}
DamageEvents(x) == [i \in 1 .. Cardinality(DamageTargets(x)) |-> Event("Damage", x)]
MarkDamaged(x) == [a \in Actors |-> IF a \in DamageTargets(x)
                                    THEN [cw[a] EXCEPT !.damaged = TRUE]
                                    ELSE cw[a]]

XCreate(x) ==
    /\ "create" \in Env[x] /\ ~xs[x].created
    /\ Push(<<Event("Create", x)>>)
    /\ xs' = [xs EXCEPT ![x].created = TRUE, ![x].exists = TRUE,
                        ![x].onRoot = TRUE, ![x].wm = (x \in Frames)]
    /\ xstack' = <<x>> \o xstack
    /\ UNCHANGED <<active, cvars, pvars>>

\* A client maps an override-redirect window, or the WM shows a frame of a
\* managed window on the active workspace.  Composite gives the window a
\* new backing pixmap each time it is mapped.
XMap(x) ==
    /\ "map" \in Env[x] /\ x \notin Clients
    /\ xs[x].exists /\ xs[x].onRoot /\ ~xs[x].mapped
    /\ x \in Frames => xs[x].wm /\ OnActive(x)
    /\ xs[x].pix < MaxPix
    /\ Push(<<Event("Map", x)>>)
    /\ xs' = [xs EXCEPT ![x].mapped = TRUE, ![x].pix = @ + 1]
    /\ UNCHANGED <<xstack, active, cvars, pvars>>

XUnmap(x) ==
    /\ "map" \in Env[x] /\ xs[x].mapped
    /\ Push(<<Event("Unmap", x)>>)
    /\ xs' = [xs EXCEPT ![x].mapped = FALSE]
    /\ UNCHANGED <<xstack, active, cvars, pvars>>

\* XDestroyWindow unmaps a mapped window first.  The WM destroys a frame
\* only after it has unmanaged the window.
XDestroy(x) ==
    /\ "destroy" \in Env[x] /\ xs[x].exists
    /\ x \in Frames => ~xs[x].wm
    /\ Push(IF xs[x].mapped THEN <<Event("Unmap", x), Event("Destroy", x)>>
                            ELSE <<Event("Destroy", x)>>)
    /\ xs' = [xs EXCEPT ![x].exists = FALSE, ![x].mapped = FALSE]
    /\ xstack' = Remove(xstack, x)
    /\ UNCHANGED <<active, cvars, pvars>>

\* XConfigureWindow with a sibling and Above: x goes directly above `above`,
\* or to the bottom when there is no sibling; ConfigureNotify names the
\* window now directly below.
XRestack(x, above) ==
    LET r  == Remove(xstack, x)
        ns == IF above = None THEN Append(r, x)
              ELSE InsertAt(r, IndexOf(r, above), x)
    IN /\ "restack" \in Env[x] /\ x \in RootSiblings
       /\ above \in (RootSiblings \ {x}) \cup {None}
       /\ ns # xstack
       /\ Push(<<[Event("Configure", x) EXCEPT !.above = above,
                                              !.size = xs[x].size]>>)
       /\ xstack' = ns
       /\ UNCHANGED <<xs, active, cvars, pvars>>

\* A resize of a mapped window gives it a new backing pixmap with new contents, which
\* the server reports as damage after the ConfigureNotify.
XResize(x) ==
    LET ns == 3 - xs[x].size IN
    /\ "resize" \in Env[x] /\ x \in RootSiblings /\ xs[x].mapped
    /\ xs[x].pix < MaxPix /\ xs[x].ver < MaxVer
    /\ Push(<<[Event("Configure", x) EXCEPT !.above = BelowX(xstack, x),
                                           !.size = ns]>>
            \o DamageEvents(x))
    /\ xs' = [xs EXCEPT ![x].size = ns, ![x].pix = @ + 1, ![x].ver = @ + 1]
    /\ cw' = MarkDamaged(x)
    /\ UNCHANGED <<xstack, active, windows, byXid, stage, docks, switchWS,
                   fault, pvars>>

\* A client draws into a mapped window.
XDraw(x) ==
    /\ "damage" \in Env[x] /\ xs[x].exists /\ xs[x].mapped
    /\ xs[x].ver < MaxVer
    /\ Push(DamageEvents(x))
    /\ xs' = [xs EXCEPT ![x].ver = @ + 1]
    /\ cw' = MarkDamaged(x)
    /\ UNCHANGED <<xstack, active, windows, byXid, stage, docks, switchWS,
                   fault, pvars>>

\* XCirculateSubwindows raises (lowers) a mapped child that another covers.
XCirculate(x, top) ==
    /\ "circulate" \in Env[x] /\ x \in RootSiblings /\ xs[x].mapped
    /\ IF top THEN xstack[1] # x ELSE Last(xstack) # x
    /\ Push(<<[Event("Circulate", x) EXCEPT !.top = top]>>)
    /\ xstack' = IF top THEN RaiseTop(xstack, x) ELSE Append(Remove(xstack, x), x)
    /\ UNCHANGED <<xs, active, cvars, pvars>>

\* The WM reparents a client into its frame, and back to the root when it
\* stops managing it (once per client in the model).
XReparent(x) ==
    /\ "reparent" \in Env[x] /\ x \in Clients /\ xs[x].exists
    /\ ~xs[x].returned
    /\ Push(<<[Event("Reparent", x) EXCEPT !.toRoot = ~xs[x].onRoot]>>)
    /\ xs' = [xs EXCEPT ![x].onRoot = ~@, ![x].returned = ~xs[x].onRoot]
    /\ xstack' = IF xs[x].onRoot THEN Remove(xstack, x) ELSE <<x>> \o xstack
    /\ UNCHANGED <<active, cvars, pvars>>

\* ShapeNotify goes to every client that selected it on the window.
XShape(x) ==
    /\ "shape" \in Env[x] /\ xs[x].exists /\ xs[x].shapeSel
    /\ Push(<<[Event("Shape", x) EXCEPT !.shaped = ~xs[x].shaped]>>)
    /\ xs' = [xs EXCEPT ![x].shaped = ~@]
    /\ UNCHANGED <<xstack, active, cvars, pvars>>

XSetOpacity(x, v) ==
    /\ "opacity" \in Env[x] /\ x \in Overrides /\ xs[x].exists
    /\ v # xs[x].opacity
    /\ Push(<<[Event("Property", x) EXCEPT !.atom = "opacity"]>>)
    /\ xs' = [xs EXCEPT ![x].opacity = v]
    /\ UNCHANGED <<xstack, active, cvars, pvars>>

XSetType(x, t) ==
    /\ "type" \in Env[x] /\ x \in Clients /\ xs[x].exists
    /\ t # xs[x].type
    /\ Push(<<[Event("Property", x) EXCEPT !.atom = "type"]>>)
    /\ xs' = [xs EXCEPT ![x].type = t]
    /\ UNCHANGED <<xstack, active, cvars, pvars>>

-----------------------------------------------------------------------------
(* Operations of one MetaCompWindow, as functions of its record.           *)

\* Plugin answers to an effect request: accept or decline, and always
\* decline once MaxEff effects of that kind are pending on the actor.
Accepts(a, k) == IF pend[a][k] < MaxEff THEN BOOLEAN ELSE {FALSE}

\* meta_comp_window_query_window_type: override-redirect first, then the
\* type the WM gives a managed window, else the _NET_WM_WINDOW_TYPE atoms.
QueryType(x, mw) == IF x \in Overrides THEN "override"
                    ELSE IF mw THEN "normal" ELSE xs[x].type

\* meta_comp_window_detach: free the back pixmap.
Detach(r) == [r EXCEPT !.pix = NoPixmap]

\* Mutant: the texture is not refreshed from the newly bound pixmap.
RepairNoTexture(r, g) ==
    LET w     == xs[r.xwin]
        named == CASE r.pix # NoPixmap -> r.pix
                   [] w.exists         -> IF w.mapped THEN w.pix ELSE NoPixmap
                   [] OTHER            -> IF g THEN BadPixmap ELSE NoPixmap
    IN IF named = NoPixmap THEN r
       ELSE [r EXCEPT !.pix = named, !.damaged = FALSE]

\* repair_win.  A missing back pixmap is named only if the window is
\* viewable; on a window already destroyed XGetWindowAttributes fails and
\* leaves attr uninitialised, so g decides what its map_state reads as.
\* Once a pixmap is bound the damage is subtracted and the texture updated;
\* it shows the current contents only if that pixmap is still the window's.
Repair(r, g) ==
    LET w     == xs[r.xwin]
        named == CASE r.pix # NoPixmap -> r.pix
                   [] w.exists         -> IF w.mapped THEN w.pix ELSE NoPixmap
                   [] OTHER            -> IF g THEN BadPixmap ELSE NoPixmap
    IN IF named = NoPixmap THEN r
       ELSE [r EXCEPT !.pix = named, !.damaged = FALSE,
                      !.tex = IF w.exists /\ named = w.pix THEN w.ver ELSE @]

\* map_win, with sw the value of switch_workspace_in_progress and h the
\* plugin's answer to the MAP effect.
MapWin(r, sw, h, g) ==
    IF r.viewable THEN r
    ELSE LET r1 == Repair(Detach([r EXCEPT !.viewable = TRUE,
                                           !.needsMap = FALSE]), g)
         IN IF sw = 0 /\ h THEN [r1 EXCEPT !.ip.map = @ + 1]
            ELSE [r1 EXCEPT !.visible = TRUE]
MapStarts(r, sw, h) == ~r.viewable /\ sw = 0 /\ h

\* unmap_win.
UnmapWin(r, sw) ==
    CASE ~r.viewable /\ ~r.needsUnmap -> r
      [] sw > 0 -> [r EXCEPT !.needsUnmap = TRUE]
      [] OTHER  -> [r EXCEPT !.viewable = FALSE, !.needsUnmap = FALSE,
                             !.needsMap = FALSE,
                             !.visible = IF r.ip.minimize = 0 THEN FALSE ELSE @]

\* One window of meta_compositor_clutter_finish_workspace_switch's first pass.
FinishOne(r, h, g) ==
    LET r1 == IF r.needsMap /\ ~r.needsUnmap THEN MapWin(r, 0, h, g) ELSE r
    IN IF r1.needsUnmap THEN UnmapWin(r1, 0) ELSE r1
FinishStarts(r, h) == r.needsMap /\ ~r.needsUnmap /\ MapStarts(r, 0, h)

\* Its second pass: walking up from the last window, raise each window's
\* predecessor directly above it, and the first window to the top.
RECURSIVE FixStack(_, _)
FixStack(s, l) ==
    CASE Len(l) = 0 -> s
      [] Len(l) = 1 -> RaiseTop(s, l[1])
      [] OTHER -> FixStack(RaiseAbove(s, l[Len(l) - 1], l[Len(l)]), Front(l))

-----------------------------------------------------------------------------
(* Steps on the whole compositor state.                                    *)

\* Mutant: dispose leaves the hash entry behind.
DisposeKeepHash(a, r) ==
    IF r.st # "live"
    THEN /\ cw' = [cw EXCEPT ![a] = r]
         /\ UNCHANGED <<windows, byXid, stage, docks>>
    ELSE /\ cw' = [cw EXCEPT ![a] = [Detach(r) EXCEPT !.st = "disposed",
                                                    !.damaged = FALSE]]
         /\ docks' = IF r.type = "dock" THEN docks \ {a} ELSE docks
         /\ windows' = Remove(windows, a)
         /\ stage' = Remove(stage, a)
         /\ UNCHANGED byXid

\* clutter_actor_destroy, running meta_comp_window_dispose once: free the
\* pixmap and the damage object, leave the dock list if the type is DOCK
\* now, leave the stacking list, drop whatever the hash holds under the
\* xid, and leave the window group.  r is the record as the caller left it.
Dispose(a, r) ==
    IF r.st # "live"
    THEN /\ cw' = [cw EXCEPT ![a] = r]
         /\ UNCHANGED <<windows, byXid, stage, docks>>
    ELSE /\ cw' = [cw EXCEPT ![a] = [Detach(r) EXCEPT !.st = "disposed",
                                                    !.damaged = FALSE]]
         /\ docks' = IF r.type = "dock" THEN docks \ {a} ELSE docks
         /\ windows' = Remove(windows, a)
         /\ byXid' = [byXid EXCEPT ![r.xwin] = NoActor]
         /\ stage' = Remove(stage, a)

\* add_win: nothing if XGetWindowAttributes fails; otherwise construct an
\* actor (type, shape input selected, shape, damage object), add it hidden
\* on top of the window group, to the dock list if a dock, to the top of
\* the stacking list and the hash, and map it if the window is viewable.
\* There is no check that the xid is already in the hash.
AddWin(x, h, g) ==
    LET a  == CHOOSE b \in Actors : cw[b].st = "unused"
        mw == x \in Frames
        t  == QueryType(x, mw)
        r0 == [cw[a] EXCEPT !.st = "live", !.xwin = x, !.mw = mw, !.type = t,
                            !.shaped = xs[x].shaped, !.size = xs[x].size]
        r  == IF xs[x].mapped THEN MapWin(r0, switchWS, h, g) ELSE r0
    IN IF ~xs[x].exists
       THEN UNCHANGED <<xs, cw, windows, byXid, stage, docks, pend>>
       ELSE /\ cw' = [cw EXCEPT ![a] = r]
            /\ xs' = [xs EXCEPT ![x].shapeSel = TRUE]
            /\ stage' = <<a>> \o stage
            /\ docks' = IF t = "dock" THEN docks \cup {a} ELSE docks
            /\ windows' = <<a>> \o windows
            /\ byXid' = [byXid EXCEPT ![x] = a]
            /\ pend' = IF xs[x].mapped /\ MapStarts(r0, switchWS, h)
                       THEN [pend EXCEPT ![a].map = @ + 1] ELSE pend

\* Mutant: the window's old link is not deleted before it is reinserted.
RestackWinNoDelete(a, above) ==
    LET pos   == IndexOf(windows, a)
        prevA == IF pos < Len(windows) THEN cw[windows[pos + 1]].xwin ELSE None
        idx   == SelectInSeq(windows, LAMBDA b : cw[b].xwin = above)
    IN CASE above = None ->
              /\ windows' = Append(windows, a)
              /\ stage' = IF switchWS = 0 THEN RaiseTop(stage, a) ELSE stage
              /\ UNCHANGED fault
         [] prevA # above /\ idx # 0 /\ windows[idx] = a ->
              /\ fault' = "listCorrupt"
              /\ UNCHANGED <<windows, stage>>
         [] prevA # above /\ idx # 0 ->
              /\ windows' = InsertAt(windows, idx, a)
              /\ stage' = IF switchWS = 0
                          THEN RaiseAbove(stage, a, windows[idx]) ELSE stage
              /\ UNCHANGED fault
         [] OTHER -> UNCHANGED <<windows, stage, fault>>

\* restack_win (cw, above): the list position comes from a search by xid,
\* the visual order from clutter_actor_raise_top / clutter_actor_raise,
\* skipped while a workspace switch is in progress.  When the search finds
\* cw itself, g_list_insert_before is handed the link just freed by
\* g_list_delete_link.
RestackWin(a, above) ==
    LET pos   == IndexOf(windows, a)
        prevA == IF pos < Len(windows) THEN cw[windows[pos + 1]].xwin ELSE None
        rest  == Remove(windows, a)
        idx   == SelectInSeq(windows, LAMBDA b : cw[b].xwin = above)
    IN CASE above = None ->
              /\ windows' = Append(rest, a)
              /\ stage' = IF switchWS = 0 THEN RaiseTop(stage, a) ELSE stage
              /\ UNCHANGED fault
         [] prevA # above /\ idx # 0 /\ windows[idx] = a ->
              /\ fault' = "listCorrupt"
              /\ UNCHANGED <<windows, stage>>
         [] prevA # above /\ idx # 0 ->
              /\ windows' = InsertAt(rest, IndexOf(rest, windows[idx]), a)
              /\ stage' = IF switchWS = 0
                          THEN RaiseAbove(stage, a, windows[idx]) ELSE stage
              /\ UNCHANGED fault
         [] OTHER -> UNCHANGED <<windows, stage, fault>>

\* destroy_win: look the xid up and destroy the actor at once, whatever
\* effects are still running on it.
DestroyWin(x) ==
    IF byXid[x] = NoActor THEN UNCHANGED <<cw, windows, byXid, stage, docks>>
    ELSE Dispose(byXid[x], cw[byXid[x]])

\* resize_win: a change of size frees the back pixmap (the position, which
\* the model leaves out, is set unless an effect is running).
ResizeWin(r, size) == IF r.size # size THEN [Detach(r) EXCEPT !.size = size]
                      ELSE r

\* The first DestroyNotify for x still in the queue behind the current
\* event, as XCheckTypedWindowEvent finds it (0 if there is none).
QueuedDestroy(x) ==
    SelectInSeq(Tail(queue), LAMBDA v : v.type = "Destroy" /\ v.win = x)

-----------------------------------------------------------------------------
(* clutter_cmp_process_event: the compositor takes the event at the head   *)
(* of the queue and dispatches on its type.  The plugin's xevent_filter is *)
(* taken to pass every one of these events on.                             *)

Keep == UNCHANGED <<windows, byXid, stage, docks>>

\* process_create: add the window unless the hash already has it.
ProcessCreate ==
    LET e == Head(queue) IN
    /\ Alive /\ queue # <<>> /\ e.type = "Create"
    /\ queue' = Tail(queue)
    /\ IF byXid[e.win] = NoActor
       THEN \E h \in BOOLEAN : AddWin(e.win, h, FALSE)
       ELSE UNCHANGED <<xs, cw, windows, byXid, stage, docks, pend>>
    /\ UNCHANGED <<xstack, active, switchWS, fault, pendSwitch>>

\* Mutant: a window reparented away from the root is kept.
ProcessReparentNoDestroy ==
    LET e == Head(queue) IN
    /\ Alive /\ queue # <<>> /\ e.type = "Reparent"
    /\ queue' = Tail(queue)
    /\ IF e.toRoot
       THEN \E h \in BOOLEAN : AddWin(e.win, h, FALSE)
       ELSE UNCHANGED <<xs, cw, windows, byXid, stage, docks, pend>>
    /\ UNCHANGED <<xstack, active, switchWS, fault, pendSwitch>>

\* process_reparent: a window reparented to the root is added without a
\* lookup; one reparented elsewhere is destroyed.
ProcessReparent ==
    LET e == Head(queue) IN
    /\ Alive /\ queue # <<>> /\ e.type = "Reparent"
    /\ queue' = Tail(queue)
    /\ IF e.toRoot
       THEN \E h \in BOOLEAN : AddWin(e.win, h, FALSE)
       ELSE DestroyWin(e.win) /\ UNCHANGED <<xs, pend>>
    /\ UNCHANGED <<xstack, active, switchWS, fault, pendSwitch>>

\* process_destroy.
ProcessDestroy ==
    LET e == Head(queue) IN
    /\ Alive /\ queue # <<>> /\ e.type = "Destroy"
    /\ queue' = Tail(queue)
    /\ DestroyWin(e.win)
    /\ UNCHANGED <<xvars, switchWS, fault, pvars>>

\* process_damage: ignore the damage (setting the unread needs_repair)
\* while a destroy is pending or a (un)maximize effect runs; tear the window down at once if its DestroyNotify is
\* already queued; otherwise repair it.
ProcessDamage ==
    LET e == Head(queue)
        a == byXid[e.win]
    IN /\ Alive /\ queue # <<>> /\ e.type = "Damage"
       /\ IF a = NoActor
          THEN queue' = Tail(queue) /\ UNCHANGED cw /\ Keep
          ELSE IF cw[a].destroyPending \/ cw[a].ip.maximize > 0
                  \/ cw[a].ip.unmaximize > 0
          THEN queue' = Tail(queue) /\ UNCHANGED cw /\ Keep
          ELSE IF QueuedDestroy(e.win) # 0
          THEN /\ queue' = RemoveAt(Tail(queue), QueuedDestroy(e.win))
               /\ Dispose(a, [cw[a] EXCEPT !.destroyPending = TRUE])
          ELSE /\ queue' = Tail(queue) /\ Keep
               /\ \E g \in BOOLEAN : cw' = [cw EXCEPT ![a] = Repair(@, g)]
       /\ UNCHANGED <<xvars, switchWS, fault, pvars>>

\* process_shape: cw->priv is read before cw is tested against NULL, so a
\* ShapeNotify for a window the hash does not hold dereferences NULL.  For
\* a known window the shaped flag is taken from the event (update_shape
\* then refreshes the mask rectangles, see ShapedTexture).
ProcessShape ==
    LET e == Head(queue)
        a == byXid[e.win]
    IN /\ Alive /\ queue # <<>> /\ e.type = "Shape"
       /\ queue' = Tail(queue)
       /\ IF a = NoActor
          THEN fault' = "nullDeref" /\ UNCHANGED cw
          ELSE cw' = [cw EXCEPT ![a].shaped = e.shaped] /\ UNCHANGED fault
       /\ UNCHANGED <<xvars, windows, byXid, stage, docks, switchWS, pvars>>

\* process_configure_notify for a known window: restack_win, then resize_win.
ProcessConfigure ==
    LET e == Head(queue)
        a == byXid[e.win]
    IN /\ Alive /\ queue # <<>> /\ e.type = "Configure"
       /\ queue' = Tail(queue)
       /\ IF a = NoActor
          THEN UNCHANGED <<cw, windows, stage, fault>>
          ELSE RestackWin(a, e.above) /\ cw' = [cw EXCEPT ![a] = ResizeWin(@, e.size)]
       /\ UNCHANGED <<xvars, byXid, docks, switchWS, pvars>>

\* process_circulate_notify: PlaceOnTop restacks above the window at the
\* head of the stacking list, PlaceOnBottom restacks to the bottom.
ProcessCirculate ==
    LET e == Head(queue)
        a == byXid[e.win]
    IN /\ Alive /\ queue # <<>> /\ e.type = "Circulate"
       /\ queue' = Tail(queue)
       /\ IF a = NoActor
          THEN UNCHANGED <<windows, stage, fault>>
          ELSE RestackWin(a, IF e.top THEN cw[windows[1]].xwin ELSE None)
       /\ UNCHANGED <<xvars, cw, byXid, docks, switchWS, pvars>>

\* process_unmap: ignore an unknown, unmapped or dying window; tear down at
\* once if its DestroyNotify is queued; otherwise unmap_win.
ProcessUnmap ==
    LET e == Head(queue)
        a == byXid[e.win]
    IN /\ Alive /\ queue # <<>> /\ e.type = "Unmap"
       /\ IF a = NoActor \/ ~cw[a].viewable \/ cw[a].destroyPending
          THEN queue' = Tail(queue) /\ UNCHANGED cw /\ Keep
          ELSE IF QueuedDestroy(e.win) # 0
          THEN /\ queue' = RemoveAt(Tail(queue), QueuedDestroy(e.win))
               /\ Dispose(a, [cw[a] EXCEPT !.destroyPending = TRUE])
          ELSE /\ queue' = Tail(queue) /\ Keep
               /\ cw' = [cw EXCEPT ![a] = UnmapWin(@, switchWS)]
       /\ UNCHANGED <<xvars, switchWS, fault, pvars>>

\* process_map: map_win on a known window.
ProcessMap ==
    LET e == Head(queue)
        a == byXid[e.win]
    IN /\ Alive /\ queue # <<>> /\ e.type = "Map"
       /\ queue' = Tail(queue)
       /\ IF a = NoActor
          THEN UNCHANGED <<cw, pend>>
          ELSE \E h \in Accepts(a, "map"), g \in BOOLEAN :
                 /\ cw' = [cw EXCEPT ![a] = MapWin(@, switchWS, h, g)]
                 /\ pend' = IF MapStarts(cw[a], switchWS, h)
                            THEN [pend EXCEPT ![a].map = @ + 1] ELSE pend
       /\ UNCHANGED <<xvars, windows, byXid, stage, docks, switchWS, fault,
                      pendSwitch>>

\* process_property_notify.  Opacity: the value is applied only when
\* meta_prop_get_cardinal returns FALSE, i.e. when the property could not be
\* read and `value` was never written: any guint8 can result.  Window type:
\* query the type again (the dock list is left as it is).
ProcessProperty ==
    LET e == Head(queue)
        a == byXid[e.win]
    IN /\ Alive /\ queue # <<>> /\ e.type = "Property"
       /\ queue' = Tail(queue)
       /\ IF a = NoActor
          THEN UNCHANGED cw
          ELSE IF e.atom = "opacity"
          THEN IF xs[e.win].opacity # "unset"
               THEN UNCHANGED cw
               ELSE \E v \in Opacities : cw' = [cw EXCEPT ![a].opacity = v]
          ELSE cw' = [cw EXCEPT ![a].type = QueryType(e.win, cw[a].mw)]
       /\ UNCHANGED <<xvars, windows, byXid, stage, docks, switchWS, fault,
                      pvars>>

-----------------------------------------------------------------------------
(* Entry points the window manager calls.                                  *)

\* Mutant: the hash entry is left behind.
DestroyWindowKeepHash(x) ==
    LET a == byXid[x] IN
    IF a = NoActor THEN UNCHANGED <<cw, windows, byXid, stage, docks, pend>>
    ELSE \E h \in Accepts(a, "destroy") :
           IF h THEN /\ windows' = Remove(windows, a)
                     /\ cw' = [cw EXCEPT ![a].ip.destroy = @ + 1]
                     /\ pend' = [pend EXCEPT ![a].destroy = @ + 1]
                     /\ UNCHANGED <<stage, docks, byXid>>
           ELSE Dispose(a, cw[a]) /\ UNCHANGED pend

\* Mutant: destroy_in_progress is not decremented when the plugin declines.
DestroyWindowNoDecrement(x) ==
    LET a == byXid[x] IN
    IF a = NoActor THEN UNCHANGED <<cw, windows, byXid, stage, docks, pend>>
    ELSE \E h \in Accepts(a, "destroy") :
           IF h THEN /\ windows' = Remove(windows, a)
                     /\ byXid' = [byXid EXCEPT ![x] = NoActor]
                     /\ cw' = [cw EXCEPT ![a].ip.destroy = @ + 1]
                     /\ pend' = [pend EXCEPT ![a].destroy = @ + 1]
                     /\ UNCHANGED <<stage, docks>>
           ELSE Dispose(a, [cw[a] EXCEPT !.ip.destroy = @ + 1]) /\ UNCHANGED pend

\* clutter_cmp_destroy_window: take the window out of the list and the hash
\* so later events miss it, then run the DESTROY effect or, if the plugin
\* declines, destroy the actor at once.
DestroyWindow(x) ==
    LET a == byXid[x] IN
    IF a = NoActor THEN UNCHANGED <<cw, windows, byXid, stage, docks, pend>>
    ELSE \E h \in Accepts(a, "destroy") :
           IF h THEN /\ windows' = Remove(windows, a)
                     /\ byXid' = [byXid EXCEPT ![x] = NoActor]
                     /\ cw' = [cw EXCEPT ![a].ip.destroy = @ + 1]
                     /\ pend' = [pend EXCEPT ![a].destroy = @ + 1]
                     /\ UNCHANGED <<stage, docks>>
           ELSE Dispose(a, cw[a]) /\ UNCHANGED pend

\* Mutant: minimize_in_progress is not decremented when the plugin declines.
MinimizeWindowNoDecrement(x) ==
    LET a == byXid[x] IN
    IF a = NoActor THEN UNCHANGED <<cw, pend>>
    ELSE \E h \in Accepts(a, "minimize") :
           /\ cw' = [cw EXCEPT ![a].ip.minimize = @ + 1]
           /\ pend' = IF h THEN [pend EXCEPT ![a].minimize = @ + 1] ELSE pend

\* clutter_cmp_minimize_window: run the MINIMIZE effect, or move the window
\* off screen at once.
MinimizeWindow(x) ==
    LET a == byXid[x] IN
    IF a = NoActor THEN UNCHANGED <<cw, pend>>
    ELSE \E h \in Accepts(a, "minimize") :
           IF h THEN /\ cw' = [cw EXCEPT ![a].ip.minimize = @ + 1]
                     /\ pend' = [pend EXCEPT ![a].minimize = @ + 1]
           ELSE UNCHANGED <<cw, pend>>

\* clutter_cmp_maximize_window and clutter_cmp_unmaximize_window (k says
\* which): count the effect if the plugin runs it.
MaximizeWindow(x, k) ==
    LET a == byXid[x] IN
    IF a = NoActor THEN UNCHANGED <<cw, pend>>
    ELSE \E h \in Accepts(a, k) :
           IF h THEN /\ cw' = [cw EXCEPT ![a].ip[k] = @ + 1]
                     /\ pend' = [pend EXCEPT ![a][k] = @ + 1]
           ELSE UNCHANGED <<cw, pend>>

\* clutter_cmp_switch_workspace: every window of the list with a MetaWindow
\* that is not on all workspaces is flagged for unmap, or for map when it is
\* on the target workspace; then the SWITCH_WORKSPACE effect is counted if
\* the plugin runs it.  Nothing consumes the flags if the plugin declines.
SwitchWorkspace(to) ==
    LET Flag(r) == IF ~r.mw \/ WsOf[r.xwin] = AllWs THEN r
                   ELSE IF WsOf[r.xwin] # to THEN [r EXCEPT !.needsUnmap = TRUE]
                   ELSE [r EXCEPT !.needsMap = TRUE, !.needsUnmap = FALSE]
    IN /\ cw' = [a \in Actors |-> IF a \in Listed THEN Flag(cw[a]) ELSE cw[a]]
       /\ \E h \in IF pendSwitch < MaxEff THEN BOOLEAN ELSE {FALSE} :
            IF h THEN switchWS' = switchWS + 1 /\ pendSwitch' = pendSwitch + 1
            ELSE UNCHANGED <<switchWS, pendSwitch>>

\* The WM stops managing a frame's window (it then unmaps and destroys the
\* frame, see XUnmap and XDestroy).
WMUnmanage(x) ==
    /\ Alive
    /\ "wm" \in Env[x] /\ x \in Frames /\ xs[x].wm
    /\ xs' = [xs EXCEPT ![x].wm = FALSE]
    /\ DestroyWindow(x)
    /\ UNCHANGED <<xstack, active, queue, switchWS, fault, pendSwitch>>

WMMinimize(x) ==
    /\ Alive
    /\ "minimize" \in Env[x] /\ x \in Frames /\ xs[x].wm
    /\ MinimizeWindow(x)
    /\ UNCHANGED <<xvars, queue, windows, byXid, stage, docks, switchWS,
                   fault, pendSwitch>>

WMMaximize(x, k) ==
    /\ Alive
    /\ k \in Env[x] /\ x \in Frames /\ xs[x].wm
    /\ MaximizeWindow(x, k)
    /\ UNCHANGED <<xvars, queue, windows, byXid, stage, docks, switchWS,
                   fault, pendSwitch>>

WMSwitch(to) ==
    /\ Alive
    /\ \E x \in Frames : "workspace" \in Env[x]
    /\ to # active
    /\ active' = to
    /\ SwitchWorkspace(to)
    /\ UNCHANGED <<xs, xstack, queue, windows, byXid, stage, docks, fault, pend>>

-----------------------------------------------------------------------------
(* meta_compositor_clutter_window_effect_completed, called by the plugin.  *)

\* Mutant: a finished DESTROY effect does not destroy the actor.
EffectCompletedNoDispose(a, k, g) ==
    LET r == [cw[a] EXCEPT !.ip[k] = IF @ > 0 THEN @ - 1 ELSE 0] IN
    IF r.ip[k] > 0 \/ k \in {"minimize", "destroy"}
    THEN cw' = [cw EXCEPT ![a] = r] /\ Keep
    ELSE CASE k = "map" ->
                cw' = [cw EXCEPT ![a] = [r EXCEPT !.visible = TRUE]] /\ Keep
           [] OTHER -> cw' = [cw EXCEPT ![a] = Repair(Detach(r), g)] /\ Keep

\* A window effect: count it down (clamping at 0) and, when none of its
\* kind is left, finish it: MINIMIZE moves the window off screen, MAP shows
\* it, DESTROY destroys the actor, (UN)MAXIMIZE rebinds the pixmap.
EffectCompleted(a, k, g) ==
    LET r == [cw[a] EXCEPT !.ip[k] = IF @ > 0 THEN @ - 1 ELSE 0] IN
    IF r.ip[k] > 0 THEN cw' = [cw EXCEPT ![a] = r] /\ Keep
    ELSE CASE k = "minimize" -> cw' = [cw EXCEPT ![a] = r] /\ Keep
           [] k = "map" ->
                cw' = [cw EXCEPT ![a] = [r EXCEPT !.visible = TRUE]] /\ Keep
           [] k = "destroy" -> Dispose(a, r)
           [] OTHER -> cw' = [cw EXCEPT ![a] = Repair(Detach(r), g)] /\ Keep

\* Mutant: the second pass restoring the stacking order is left out.
SwitchCompletedNoRestack ==
    LET sw == IF switchWS > 0 THEN switchWS - 1 ELSE 0 IN
    /\ switchWS' = sw
    /\ IF sw > 0 THEN UNCHANGED <<cw, stage, pend>>
       ELSE \E h \in [Actors -> BOOLEAN], g \in [Actors -> BOOLEAN] :
              /\ \A a \in Actors : h[a] => pend[a].map < MaxEff
              /\ cw' = [a \in Actors |-> IF a \in Listed
                                         THEN FinishOne(cw[a], h[a], g[a])
                                         ELSE cw[a]]
              /\ pend' = [a \in Actors |->
                            IF a \in Listed /\ FinishStarts(cw[a], h[a])
                            THEN [pend[a] EXCEPT !.map = @ + 1] ELSE pend[a]]
              /\ UNCHANGED stage

\* SWITCH_WORKSPACE: count it down and, at 0, run
\* meta_compositor_clutter_finish_workspace_switch over the list.
SwitchCompleted ==
    LET sw == IF switchWS > 0 THEN switchWS - 1 ELSE 0 IN
    /\ switchWS' = sw
    /\ IF sw > 0 THEN UNCHANGED <<cw, stage, pend>>
       ELSE \E h \in [Actors -> BOOLEAN], g \in [Actors -> BOOLEAN] :
              /\ \A a \in Actors : h[a] => pend[a].map < MaxEff
              /\ cw' = [a \in Actors |-> IF a \in Listed
                                         THEN FinishOne(cw[a], h[a], g[a])
                                         ELSE cw[a]]
              /\ pend' = [a \in Actors |->
                            IF a \in Listed /\ FinishStarts(cw[a], h[a])
                            THEN [pend[a] EXCEPT !.map = @ + 1] ELSE pend[a]]
              /\ stage' = FixStack(stage, windows)

\* The plugin finishes one effect it accepted, on an actor that may have
\* been destroyed in the meantime.
PluginEffectDone(a, k) ==
    /\ Alive
    /\ pend[a][k] > 0
    /\ \E g \in BOOLEAN :
         /\ EffectCompleted(a, k, g)
         /\ pend' = [pend EXCEPT ![a][k] = @ - 1]
    /\ UNCHANGED <<xvars, queue, switchWS, fault, pendSwitch>>

PluginSwitchDone ==
    /\ Alive
    /\ pendSwitch > 0
    /\ pendSwitch' = pendSwitch - 1
    /\ SwitchCompleted
    /\ UNCHANGED <<xvars, queue, windows, byXid, docks, fault>>

-----------------------------------------------------------------------------

UnusedActor ==
    [st |-> "unused", xwin |-> CHOOSE x \in Xids : TRUE, mw |-> FALSE,
     type |-> "normal", viewable |-> FALSE, visible |-> FALSE, size |-> 1,
     pix |-> NoPixmap, tex |-> 0, damaged |-> FALSE, needsMap |-> FALSE,
     needsUnmap |-> FALSE, destroyPending |-> FALSE, shaped |-> FALSE,
     opacity |-> 255,
     ip |-> [k \in Kinds |-> 0]]

\* No window exists yet; a client may already have set the window type it
\* will create its window with.
Init ==
    /\ \E ty \in [Xids -> {"normal", "dock"}] :
         /\ \A x \in Xids \ Clients : ty[x] = "normal"
         /\ xs = [x \in Xids |->
                   [exists |-> FALSE, created |-> FALSE, onRoot |-> FALSE,
                    mapped |-> FALSE, wm |-> FALSE, returned |-> FALSE,
                    size |-> 1, pix |-> 0, ver |-> 0, shaped |-> FALSE,
                    shapeSel |-> FALSE, opacity |-> "unset", type |-> ty[x]]]
    /\ xstack = <<>>
    /\ active = CHOOSE w \in Workspaces : TRUE
    /\ queue = <<>>
    /\ windows = <<>> /\ byXid = [x \in Xids |-> NoActor] /\ stage = <<>>
    /\ docks = {} /\ cw = [a \in Actors |-> UnusedActor]
    /\ switchWS = 0 /\ fault = "none"
    /\ pend = [a \in Actors |-> [k \in Kinds |-> 0]] /\ pendSwitch = 0

Environment ==
    \/ \E x \in Xids : \/ XCreate(x) \/ XMap(x) \/ XUnmap(x) \/ XDestroy(x)
                       \/ XResize(x) \/ XDraw(x) \/ XReparent(x) \/ XShape(x)
                       \/ \E t \in BOOLEAN : XCirculate(x, t)
                       \/ \E y \in Xids \cup {None} : XRestack(x, y)
                       \/ \E v \in CardVals : XSetOpacity(x, v)
                       \/ \E t \in {"normal", "dock"} : XSetType(x, t)
    \/ \E x \in Frames : \/ WMUnmanage(x) \/ WMMinimize(x)
                         \/ \E k \in {"maximize", "unmaximize"} : WMMaximize(x, k)
    \/ \E w \in Workspaces : WMSwitch(w)

Compositor ==
    \/ ProcessCreate \/ ProcessReparent \/ ProcessDestroy \/ ProcessDamage
    \/ ProcessShape \/ ProcessConfigure \/ ProcessCirculate \/ ProcessUnmap
    \/ ProcessMap \/ ProcessProperty

Plugin ==
    \/ \E a \in Actors, k \in Kinds : PluginEffectDone(a, k)
    \/ PluginSwitchDone

Next == Environment \/ Compositor \/ Plugin

Spec == Init /\ [][Next]_vars

\* The compositor's main loop keeps dispatching queued events, and the
\* plugin reports every effect it accepted as completed; the X server, the
\* WM and the user owe nothing.
FairSpec ==
    /\ Spec
    /\ WF_vars(Compositor)
    /\ \A a \in Actors, k \in Kinds : WF_vars(PluginEffectDone(a, k))
    /\ WF_vars(PluginSwitchDone)

-----------------------------------------------------------------------------
(* Refinement of WindowLifecycle.  A MetaCompWindow not yet constructed is *)
(* "none", a disposed one "gone"; a live one is "registered" while it is   *)
(* in info->windows and "detached" once clutter_cmp_destroy_window has     *)
(* taken it out for its DESTROY effect.  The registry is windows_by_xid.   *)

LifecyclePhase ==
    [a \in Actors |-> CASE cw[a].st = "unused"   -> "none"
                        [] cw[a].st = "disposed" -> "gone"
                        [] a \in Listed          -> "registered"
                        [] OTHER                 -> "detached"]

Lifecycle == INSTANCE WindowLifecycle
                 WITH phase <- LifecyclePhase, owner <- byXid,
                      win <- [a \in Actors |-> cw[a].xwin]

-----------------------------------------------------------------------------
(* Properties.                                                             *)

TypeOK ==
    /\ xs \in [Xids -> XRec]
    /\ xstack \in Seq(Xids) /\ active \in Workspaces
    /\ queue \in Seq([type : {"Create", "Destroy", "Map", "Unmap", "Configure",
                              "Circulate", "Reparent", "Damage", "Shape",
                              "Property"},
                      win : Xids, above : Xids \cup {None}, size : Sizes,
                      top : BOOLEAN, toRoot : BOOLEAN, shaped : BOOLEAN,
                      atom : {"opacity", "type"}])
    /\ windows \in Seq(Actors) /\ stage \in Seq(Actors)
    /\ byXid \in [Xids -> Actors \cup {NoActor}] /\ docks \subseteq Actors
    /\ cw \in [Actors -> CwRec]
    /\ switchWS \in Nat /\ fault \in {"none", "nullDeref", "listCorrupt"}
    /\ pend \in [Actors -> [Kinds -> 0 .. MaxEff]] /\ pendSwitch \in 0 .. MaxEff

\* Every event has been handled and no workspace switch is running.
Quiescent == queue = <<>> /\ switchWS = 0 /\ pendSwitch = 0

\* The registry (windows_by_xid) and the stacking list (info->windows) agree:
\* the list holds each live window once, the hash finds exactly the listed
\* windows under their own xids.  add_win, dispose (which removes by xid)
\* and clutter_cmp_destroy_window all edit both.
RegistryConsistent ==
    /\ Len(windows) = Cardinality(Listed)
    /\ \A a \in Listed : cw[a].st = "live" /\ byXid[cw[a].xwin] = a
    /\ \A x \in Xids : byXid[x] # NoActor => byXid[x] \in Listed

\* Every effect counter (minimize/map/destroy/maximize/unmaximize_in_progress
\* and switch_workspace_in_progress) equals the number of effects of that
\* kind the plugin still runs: map_win, the WM entry points and
\* effect_completed count every effect up and down exactly once, so the
\* "Error in ... accounting" clamps never fire.
EffectAccounting ==
    /\ \A a \in Actors : cw[a].st # "unused" => cw[a].ip = pend[a]
    /\ switchWS = pendSwitch

\* Damage is never lost: once every event is handled, a window the hash
\* finds that is viewable in X and in the compositor, with no (un)maximize
\* effect deferring its repairs and no destroy pending, shows the contents
\* the X server holds (process_damage, repair_win, resize_win, map_win).
TextureCurrent ==
    queue = <<>> =>
      \A x \in Xids :
        LET a == byXid[x] IN
        (a # NoActor /\ xs[x].mapped /\ cw[a].viewable
         /\ cw[a].ip.maximize = 0 /\ cw[a].ip.unmaximize = 0
         /\ ~cw[a].destroyPending) => cw[a].tex = xs[x].ver

\* The visual order of the listed windows (the window group's children).
VisualOrder == SelectSeq(stage, LAMBDA a : a \in Listed)

\* finish_workspace_switch leaves the listed windows painted in stacking
\* list order, whatever restacks it skipped during the switch.
StackRestoredAfterSwitch ==
    [][switchWS > 0 /\ switchWS' = 0 => VisualOrder' = windows']_vars

\* Outside a workspace switch the windows are painted in the order of the
\* stacking list (restack_win, add_win, circulate).
VisualMatchesList == switchWS = 0 => VisualOrder = windows

\* restack_win never hands g_list_insert_before a freed link.
NoListCorruption == fault # "listCorrupt"

\* No event handler dereferences a NULL window (process_shape).
NoNullDeref == fault # "nullDeref"

\* Once every event is handled, no workspace switch runs and the WM has
\* hidden the frames of other workspaces, each window the hash finds is
\* viewable in the compositor exactly when X has it mapped (map_win,
\* unmap_win, the switch's deferred flags).
MapStateAgrees ==
    (Quiescent /\ \A x \in Frames : xs[x].mapped => OnActive(x)) =>
      \A x \in Xids : byXid[x] # NoActor =>
        (cw[byXid[x]].viewable <=> xs[x].mapped)

\* Once every event is handled, a window's opacity is the one its
\* _NET_WM_WINDOW_OPACITY property gives (opaque when unset), as converted by
\* process_property_notify.
OpacityFollowsProperty ==
    queue = <<>> =>
      \A x \in Overrides :
        byXid[x] # NoActor =>
          cw[byXid[x]].opacity = IF xs[x].opacity = "unset" THEN 255
                                 ELSE Opacity8[xs[x].opacity]

\* info->dock_windows only holds windows not yet destroyed (dispose).
DockListLive == \A a \in docks : cw[a].st = "live"

\* The spec's teardown rule: a window is torn down only after every effect
\* requested on it has finished, so effect_completed never reaches a
\* destroyed window (destroy_win, process_damage, process_unmap).
EffectsOutliveNoWindow ==
    \A a \in Actors : cw[a].st = "disposed" => \A k \in Kinds : pend[a][k] = 0

\* The compositor implements the lifecycle spec.md gives a window surface:
\* add_win registers a fresh actor under an xid the hash does not hold,
\* clutter_cmp_destroy_window detaches it from the list and the hash
\* together, dispose frees it and releases the xid only if the hash still
\* maps it to this actor, and no actor is ever registered twice.
LifecycleRefined == Lifecycle!LSpec

\* The same, with the promise that a detached window is eventually freed
\* (effect_completed for its DESTROY effect).
LifecycleFair == Lifecycle!LFairSpec

=============================================================================
