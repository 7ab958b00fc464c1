------------------------- MODULE MCCompositorClutter -------------------------
(* Instances of CompositorClutter for TLC.  Each cfg names the windows of  *)
(* its run as model values (frames f1, f2, an override-redirect window o1, *)
(* a client c1) and the environment steps each window takes.               *)
EXTENDS CompositorClutter

CONSTANTS f1, f2, o1, c1

\* Frame f1 lives on workspace 1, f2 on all workspaces.
MCWsOf == [x \in Frames |-> IF x = f2 THEN AllWs ELSE 1]

\* A window that is only created, mapped, unmapped and destroyed.
Plain == {"create", "map", "destroy"}

\* Lifecycle, damage and effects: f1 does everything of a managed window
\* but switching workspaces, o1 lives beside it.
EnvCore == [x \in Frames \cup Overrides |->
              IF x = f1 THEN Plain \cup {"damage", "wm", "maximize", "unmaximize",
                                         "minimize"}
              ELSE Plain]

\* Workspace switches and restacking: f1 on workspace 1 is restacked
\* against the sticky f2, which circulates, while switches run.
EnvStack == [x \in Frames |->
               IF x = f1 THEN {"create", "map", "restack", "workspace"}
               ELSE {"create", "map", "circulate"}]

\* The client and override-redirect paths: a client that is reparented
\* into a frame and back and changes its window type, an override window
\* that is shaped and given an opacity.
EnvClient == [x \in Overrides \cup Clients |->
                IF x = c1 THEN {"create", "reparent", "type", "destroy"}
                ELSE {"create", "shape", "opacity"}]

\* Destroy and minimize effects on a frame that is also resized, with the
\* plugin bound to finish what it accepted.
EnvDestroy == [x \in Frames |-> {"create", "map", "wm", "destroy", "minimize",
                                  "resize"}]

\* A frame restacked to the bottom of the X stack.
EnvRestack == [x \in Frames |-> {"create", "map", "restack"}]

\* A frame the WM unmanages while an override window above it circulates.
EnvCirculate == [x \in Frames \cup Overrides |->
                   IF x = f1 THEN {"create", "map", "wm"}
                   ELSE {"create", "map", "circulate"}]

\* A client that is framed and keeps changing its shape.
EnvShape == [x \in Clients |-> {"create", "reparent", "shape"}]

\* An override window unmapped and mapped again during a switch.
EnvRemap == [x \in Frames \cup Overrides |->
               IF x \in Frames THEN {"create", "workspace"} ELSE Plain]

\* An override window whose opacity property is set.
EnvOpacity == [x \in Overrides |-> {"create", "opacity"}]

\* A dock client that changes its type, then is destroyed.
EnvDock == [x \in Clients |-> {"create", "type", "destroy"}]

\* A frame unmanaged while a maximize effect runs on it.
EnvEffects == [x \in Frames |-> {"create", "map", "wm", "maximize"}]

\* A mapped window that is drawn into and resized.
EnvResize == [x \in Overrides |-> {"create", "map", "damage", "resize"}]

==============================================================================
