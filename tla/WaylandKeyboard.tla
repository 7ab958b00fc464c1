--------------------------- MODULE WaylandKeyboard ---------------------------
(***************************************************************************)
(* The compositor side of wl_keyboard, src/src/wayland/meta-wayland-       *)
(* keyboard.c: the focus surface and the focused client's keyboard         *)
(* resource with the destroy listeners that clear them, the array of       *)
(* pressed keys, the xkb state, the active grab, and the keymap that is    *)
(* compiled, written to an anonymous file and mapped for the clients.      *)
(*                                                                         *)
(*   res, surf       the clients' wl_keyboard resources (resource_list)    *)
(*                   and whether each client's surface is alive            *)
(*   entered         each client's view: it was sent enter and no leave    *)
(*   focusSurface, focusResource  keyboard->focus_surface, focus_resource  *)
(*   keys, xkbMods   keyboard->keys; the modifier keys the xkb_state holds *)
(*   grab            keyboard->grab: the default grab or another one       *)
(*   keymap, kmFd, kmSize, kmArea  xkb_info: keymap, keymap_fd (the keymap *)
(*                   whose text the file holds, or -1), keymap_size and    *)
(*                   keymap_area (NULL, MAP_FAILED or a mapping's length)  *)
(*   phys            the keys held down on the device (the environment)    *)
(*   ckeys, cmiss, dup  the clients' side: the keys each client was told   *)
(*                   are held (enter's array, then key events, emptied by  *)
(*                   leave); whether a key event went past it to another   *)
(*                   grab while it was focused; whether any client was     *)
(*                   sent a press of a key it already held                 *)
(* Each client has one surface, named after the client.  The seat calls    *)
(* meta_wayland_keyboard_update and then _handle_event for every key       *)
(* event, and the shell calls set_focus and the grab functions.           *)
(***************************************************************************)
EXTENDS Integers, Sequences, SequencesExt, FiniteSets

CONSTANTS
    Clients,     \* Wayland clients, each with one surface
    Keys,        \* evdev key codes
    Keymaps,     \* keymaps xkb_keymap_new_from_names may compile
    ModKeys,     \* [Keymaps -> SUBSET Keys]: the modifier keys of a keymap
    KmLen,       \* [Keymaps -> Nat]: strlen of the keymap's text plus one
    Outcomes,    \* the ways take_keymap can go (see TakeKeymap)
    InitKeymap,  \* the keymap of "evdev", "pc105", "us"
    Null         \* NULL

ASSUME /\ Null \notin Clients /\ InitKeymap \in Keymaps
       /\ ModKeys \in [Keymaps -> SUBSET Keys] /\ KmLen \in [Keymaps -> Nat \ {0}]
       /\ Outcomes \subseteq {"ok", "nullmap", "nostring", "nofile", "nommap"}

NoFd == -1
Unmapped == [len |-> 0]          \* keymap_area = NULL
MapFailed == [len |-> -1]        \* keymap_area = MAP_FAILED

VARIABLES res, surf, entered, focusSurface, focusResource,
          keys, xkbMods, grab, keymap, kmFd, kmSize, kmArea, phys, released,
          ckeys, cmiss, dup

kbvars == <<focusSurface, focusResource, keys, xkbMods, grab,
            keymap, kmFd, kmSize, kmArea, released>>
cvars == <<ckeys, cmiss, dup>>
vars == <<res, surf, entered, phys, kbvars, cvars>>

\* meta_wayland_keyboard_init: keymap_fd = -1, no focus, no keys, the
\* default grab, then set_keymap_names with the default names, which
\* compiles InitKeymap and maps its text.
Init ==
    /\ res = [c \in Clients |-> FALSE]
    /\ surf = [c \in Clients |-> TRUE]
    /\ entered = [c \in Clients |-> FALSE]
    /\ focusSurface = Null /\ focusResource = Null
    /\ keys = <<>> /\ phys = {}
    /\ xkbMods = {}
    /\ grab = "default"
    /\ keymap = InitKeymap
    /\ kmFd = InitKeymap /\ kmSize = KmLen[InitKeymap]
    /\ kmArea = [len |-> KmLen[InitKeymap]]
    /\ released = FALSE
    /\ ckeys = [c \in Clients |-> {}] /\ cmiss = [c \in Clients |-> FALSE]
    /\ dup = FALSE

-----------------------------------------------------------------------------
(* Operators for the code's helpers.                                       *)

\* update_pressed_keys adding a press without looking for the key.
UpdatePressedKeysNoDedup(ks, k, isPress) ==
    IF isPress THEN Append(ks, k)
    ELSE IF k \in ToSet(ks)
         THEN LET i == SelectInSeq(ks, LAMBDA e : e = k)
              IN SubSeq([ks EXCEPT ![i] = ks[Len(ks)]], 1, Len(ks) - 1)
         ELSE ks

\* update_pressed_keys moving the last key without shrinking the array.
UpdatePressedKeysNoShrink(ks, k, isPress) ==
    IF isPress THEN IF k \in ToSet(ks) THEN ks ELSE Append(ks, k)
    ELSE IF k \in ToSet(ks)
         THEN [ks EXCEPT ![SelectInSeq(ks, LAMBDA e : e = k)] = ks[Len(ks)]]
         ELSE ks

\* update_pressed_keys: a press is added unless the key is already in the
\* array; a release overwrites the key with the last element and shrinks
\* the array (an unknown release is only a warning).
UpdatePressedKeys(ks, k, isPress) ==
    IF isPress THEN IF k \in ToSet(ks) THEN ks ELSE Append(ks, k)
    ELSE IF k \in ToSet(ks)
         THEN LET i == SelectInSeq(ks, LAMBDA e : e = k)
              IN SubSeq([ks EXCEPT ![i] = ks[Len(ks)]], 1, Len(ks) - 1)
         ELSE ks

\* xkb_state_update_key on the modifier keys: a modifier key changes the
\* state; any other key leaves it as it is.
XkbUpdateKey(ms, k, isPress) ==
    IF k \notin ModKeys[keymap] THEN ms
    ELSE IF isPress THEN ms \cup {k} ELSE ms \ {k}

\* find_resource_for_surface: the keyboard resource of the surface's client.
FindResourceForSurface(s) == IF s # Null /\ res[s] THEN s ELSE Null

\* default_grab_key: the key event, with a fresh serial, to focus_resource
\* if there is one; the client adds a pressed key to the keys it holds and
\* drops a released one.  A press of a key the client holds is recorded
\* for a client that missed no event.
DefaultGrabKey(k, isPress) ==
    IF focusResource = Null THEN UNCHANGED <<ckeys, dup>>
    ELSE /\ dup' = (dup \/ (isPress /\ ~cmiss[focusResource]
                                 /\ k \in ckeys[focusResource]))
         /\ ckeys' = [ckeys EXCEPT ![focusResource] =
                         IF isPress THEN @ \cup {k} ELSE @ \ {k}]

\* Mutant: synthetic (autorepeat) events handed to the grab like the others.
HandleEventNoSyntheticCheck(k, kind) ==
    IF grab = "default" THEN DefaultGrabKey(k, kind # "release") /\ UNCHANGED cmiss
    ELSE /\ cmiss' = IF focusResource # Null
                     THEN [cmiss EXCEPT ![focusResource] = TRUE] ELSE cmiss
         /\ UNCHANGED <<ckeys, dup>>

\* meta_wayland_keyboard_handle_event: a synthetic (autorepeat) event is
\* ignored; any other goes to the grab's key handler.  A grab other than
\* the default one is not in this file: its key handler does not send
\* through default_grab_key, so the focused client misses the event.
HandleEvent(k, kind) ==
    IF kind = "repeat" THEN UNCHANGED cvars
    ELSE IF grab = "default" THEN DefaultGrabKey(k, kind = "press") /\ UNCHANGED cmiss
    ELSE /\ cmiss' = IF focusResource # Null
                     THEN [cmiss EXCEPT ![focusResource] = TRUE] ELSE cmiss
         /\ UNCHANGED <<ckeys, dup>>

-----------------------------------------------------------------------------
(* The clients.                                                            *)

\* A client binds wl_keyboard: its resource joins resource_list.
Bind(c) ==
    /\ ~released
    /\ ~res[c]
    /\ res' = [res EXCEPT ![c] = TRUE]
    /\ UNCHANGED <<surf, entered, phys, kbvars, cvars>>

\* A client destroys its keyboard resource; if it is focus_resource the
\* destroy signal runs keyboard_handle_focus_resource_destroy.
ResourceDestroy(c) ==
    /\ ~released
    /\ res[c]
    /\ res' = [res EXCEPT ![c] = FALSE]
    /\ entered' = [entered EXCEPT ![c] = FALSE]
    /\ focusResource' = IF focusResource = c THEN Null ELSE focusResource
    /\ ckeys' = [ckeys EXCEPT ![c] = {}] /\ cmiss' = [cmiss EXCEPT ![c] = FALSE]
    /\ UNCHANGED <<surf, phys, focusSurface, keys, xkbMods, grab,
                   keymap, kmFd, kmSize, kmArea, released, dup>>

\* The surface destroy handler leaving focus_resource set.
SurfaceDestroyKeepResource(c) ==
    /\ ~released
    /\ surf[c]
    /\ surf' = [surf EXCEPT ![c] = FALSE]
    /\ focusSurface' = IF focusSurface = c THEN Null ELSE focusSurface
    /\ UNCHANGED <<res, entered, phys, focusResource, keys, xkbMods, grab,
                   keymap, kmFd, kmSize, kmArea, released, cvars>>

\* A client destroys its surface; if it is focus_surface the destroy
\* signal runs keyboard_handle_focus_surface_destroy, which also drops
\* focus_resource and its listener.
SurfaceDestroy(c) ==
    /\ ~released
    /\ surf[c]
    /\ surf' = [surf EXCEPT ![c] = FALSE]
    /\ IF focusSurface = c
       THEN /\ focusSurface' = Null
            /\ focusResource' = Null
       ELSE UNCHANGED <<focusSurface, focusResource>>
    /\ UNCHANGED <<res, entered, phys, keys, xkbMods, grab,
                   keymap, kmFd, kmSize, kmArea, released, cvars>>

-----------------------------------------------------------------------------
(* The keyboard's entry points.                                            *)

\* set_focus sending no leave to the old focus resource.
SetFocusNoLeave(s) ==
    /\ ~released
    /\ ~(focusSurface = s /\ focusResource # Null)
    /\ focusSurface' = s
    /\ focusResource' = FindResourceForSurface(s)
    /\ entered' = IF FindResourceForSurface(s) # Null
                  THEN [entered EXCEPT ![s] = TRUE] ELSE entered
    /\ ckeys' = IF FindResourceForSurface(s) # Null
                THEN [ckeys EXCEPT ![s] = ToSet(keys)] ELSE ckeys
    /\ cmiss' = IF FindResourceForSurface(s) # Null
                THEN [cmiss EXCEPT ![s] = FALSE] ELSE cmiss
    /\ UNCHANGED <<res, surf, phys, keys, xkbMods, grab,
                   keymap, kmFd, kmSize, kmArea, released, dup>>

\* meta_wayland_keyboard_set_focus: nothing when the surface already has
\* focus with a resource; otherwise leave the old focus (a leave event if
\* it has a resource, and the listeners removed), then focus the new
\* surface and, if its client has a keyboard resource, send it modifiers
\* and enter with the pressed keys.
SetFocus(s) ==
    /\ ~released
    /\ ~(focusSurface = s /\ focusResource # Null)
    /\ LET r == FindResourceForSurface(s)
           left == IF focusSurface # Null /\ focusResource # Null
                   THEN [entered EXCEPT ![focusResource] = FALSE] ELSE entered
       IN /\ focusSurface' = s
          /\ focusResource' = r
          /\ entered' = IF r # Null THEN [left EXCEPT ![r] = TRUE] ELSE left
          /\ LET cleft == IF focusSurface # Null /\ focusResource # Null
                          THEN [ckeys EXCEPT ![focusResource] = {}] ELSE ckeys
             IN ckeys' = IF r # Null THEN [cleft EXCEPT ![r] = ToSet(keys)] ELSE cleft
          /\ cmiss' = IF r # Null THEN [cmiss EXCEPT ![r] = FALSE] ELSE cmiss
    /\ UNCHANGED <<res, surf, phys, keys, xkbMods, grab,
                   keymap, kmFd, kmSize, kmArea, released, dup>>

\* A key event from the device: the seat runs meta_wayland_keyboard_update
\* (update_pressed_keys with evdev_code, xkb_state_update_key, and the
\* grab's modifiers handler when the state changed), then
\* meta_wayland_keyboard_handle_event, which ignores synthetic (autorepeat)
\* events and hands the others to the grab's key handler; the default grab
\* sends the key to focus_resource, if any.  A repeat is a synthetic press
\* of a held key.
KeyEvent(k, kind) ==
    /\ ~released
    /\ CASE kind = "press"   -> k \notin phys
         [] kind = "release" -> k \in phys
         [] kind = "repeat"  -> k \in phys
    /\ phys' = IF kind = "release" THEN phys \ {k} ELSE phys \cup {k}
    /\ keys' = UpdatePressedKeys(keys, k, kind # "release")
    /\ xkbMods' = XkbUpdateKey(xkbMods, k, kind # "release")
    /\ HandleEvent(k, kind)
    /\ UNCHANGED <<res, surf, entered, focusSurface, focusResource, grab,
                   keymap, kmFd, kmSize, kmArea, released>>

\* meta_wayland_keyboard_start_grab and _end_grab.
StartGrab ==
    /\ ~released
    /\ grab' = "other"
    /\ UNCHANGED <<res, surf, entered, phys, focusSurface, focusResource,
                   keys, xkbMods, keymap, kmFd, kmSize, kmArea, released,
                   cvars>>

EndGrab ==
    /\ ~released
    /\ grab' = "default"
    /\ UNCHANGED <<res, surf, entered, phys, focusSurface, focusResource,
                   keys, xkbMods, keymap, kmFd, kmSize, kmArea, released,
                   cvars>>

\* meta_wayland_keyboard_take_keymap for the keymap km, which goes as o:
\*   "nullmap"   compilation failed: a warning, nothing changes;
\*   "nostring"  xkb_map_get_as_string failed after the keymap and a new
\*               xkb_state were installed: return;
\*   "nofile"    create_anonymous_file failed after keymap_size was set and
\*               the old fd closed: keymap_fd = -1, the old area is kept;
\*   "nommap"    the old area was unmapped with previous_size, mmap failed:
\*               keymap_area = MAP_FAILED, the new fd closed and set to -1;
\*   "ok"        the text is copied into the new mapping and every client's
\*               keyboard resource is sent the keymap.
TakeKeymap(km, o) ==
    IF o = "nullmap" THEN UNCHANGED <<keymap, xkbMods, kmFd, kmSize, kmArea>>
    ELSE /\ keymap' = km
         /\ xkbMods' = {}
         /\ IF o = "nostring" THEN UNCHANGED <<kmFd, kmSize, kmArea>>
            ELSE /\ kmSize' = KmLen[km]
                 /\ kmFd' = IF o = "ok" THEN km ELSE NoFd
                 /\ kmArea' = CASE o = "nofile" -> kmArea
                                [] o = "nommap" -> MapFailed
                                [] o = "ok"     -> [len |-> KmLen[km]]

\* meta_wayland_keyboard_set_keymap_names: compile a keymap from the names
\* and take it.
SetKeymapNames(km, o) ==
    /\ ~released
    /\ TakeKeymap(km, o)
    /\ UNCHANGED <<res, surf, entered, phys, focusSurface, focusResource,
                   keys, grab, released, cvars>>

\* meta_wayland_keyboard_release: meta_wayland_xkb_info_destroy (unref the
\* keymap and state, munmap keymap_area with keymap_size, close the fd),
\* unref the context, release the keys array.  The keyboard is gone.
Release ==
    /\ ~released
    /\ released' = TRUE
    /\ UNCHANGED <<res, surf, entered, phys, focusSurface, focusResource,
                   keys, xkbMods, grab, keymap, kmFd, kmSize, kmArea, cvars>>

\* Every step is taken while the keyboard exists: release frees it, and the
\* compositor then shuts down.
Next ==
    \/ \E c \in Clients : Bind(c) \/ ResourceDestroy(c) \/ SurfaceDestroy(c)
    \/ \E s \in {c \in Clients : surf[c]} \cup {Null} : SetFocus(s)
    \/ \E k \in Keys, kind \in {"press", "release", "repeat"} : KeyEvent(k, kind)
    \/ StartGrab \/ EndGrab
    \/ \E km \in Keymaps, o \in Outcomes : SetKeymapNames(km, o)
    \/ Release

Spec == Init /\ [][Next]_vars

-----------------------------------------------------------------------------
(* Properties.                                                             *)

TypeOK ==
    /\ res \in [Clients -> BOOLEAN] /\ surf \in [Clients -> BOOLEAN]
    /\ entered \in [Clients -> BOOLEAN]
    /\ focusSurface \in Clients \cup {Null}
    /\ focusResource \in Clients \cup {Null}
    /\ keys \in Seq(Keys) /\ Len(keys) =< Cardinality(Keys) /\ phys \subseteq Keys /\ xkbMods \subseteq Keys
    /\ grab \in {"default", "other"} /\ keymap \in Keymaps
    /\ kmFd \in Keymaps \cup {NoFd}
    /\ kmArea \in {Unmapped, MapFailed} \cup [len : Nat \ {0}]
    /\ ckeys \in [Clients -> SUBSET Keys] /\ cmiss \in [Clients -> BOOLEAN]
    /\ dup \in BOOLEAN

\* keyboard->keys, which enter sends to a newly focused client, lists
\* every key held on the device exactly once: update_pressed_keys skips a
\* repeated press and removes a release by moving the last key into its
\* place.
KeysAgree ==
    /\ Cardinality(ToSet(keys)) = Len(keys)
    /\ ToSet(keys) = phys

\* What the clients are told agrees with the device: no client whose key
\* events all came through the default grab since its enter is ever sent
\* a press of a key it already holds, and a live client with focus
\* in its view, whose key events all came through the default grab since
\* its enter, holds exactly the keys held on the device.  It takes
\* enter's keys array, the filter on synthetic repeats in handle_event,
\* default_grab_key's routing to focus_resource and leave on every focus
\* change together.
ClientKeysAgree ==
    /\ ~dup
    /\ \A c \in Clients : (entered[c] /\ surf[c] /\ res[c] /\ ~cmiss[c])
                            => ckeys[c] = phys

\* focus_surface and focus_resource never point to a destroyed object:
\* the destroy listeners clear them, and focus_resource always belongs to
\* the client of focus_surface.
FocusValid ==
    /\ focusSurface # Null => surf[focusSurface]
    /\ focusResource # Null => /\ res[focusResource]
                               /\ focusResource = focusSurface

\* A client whose surface lives holds keyboard focus in its own view
\* (enter sent, no leave since) exactly when its resource is
\* focus_resource: set_focus sends leave before it moves the focus, and
\* enter only to the resource it records.
EnterLeavePaired ==
    \A c \in Clients : (entered[c] /\ surf[c]) <=> (focusResource = c)

\* The xkb state holds exactly the modifier keys held on the device, so
\* the modifiers the focused client is sent are the ones the user holds.
XkbStateAgrees ==
    ~released => xkbMods = phys \cap ModKeys[keymap]

\* keymap_area, when it is a mapping, has the length keymap_size says:
\* the next take_keymap unmaps it with previous_size = keymap_size, and
\* xkb_info_destroy with keymap_size.
MappedLengthKnown ==
    kmArea.len > 0 => kmArea.len = kmSize

=============================================================================
