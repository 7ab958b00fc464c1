----------------------- MODULE ClutterBehaviourEllipse -----------------------
(***************************************************************************)
(* ClutterBehaviourEllipse, src/clutter/clutter-behaviour-ellipse.c: a     *)
(* behaviour that moves the actors it is applied to along an ellipse as    *)
(* the timeline's alpha goes from 0 to CLUTTER_ALPHA_MAX_ALPHA.            *)
(*   priv     ClutterBehaviourEllipsePrivate: the centre (cx, cy), the     *)
(*            half axes a and b, the angles begin, end and the tilts tx,   *)
(*            ty, tz, all stored as the ClutterAngle given minus 256 (a    *)
(*            quarter turn, so that angle 0 is 12 o'clock), and dir        *)
(*   applied  the actors the behaviour is applied to (clutter-behaviour.c) *)
(*   pos      each actor's position and depth                              *)
(*   step     what the last step was: a setter, an apply of an actor, or   *)
(*            an alpha notification with its alpha                         *)
(*   given    history, not program state: the value each field was last    *)
(*            given by a setter or the constructor (angles as the          *)
(*            ClutterAngle asked for), NotGiven for a tilt never set       *)
(* A ClutterAngle has 1024 units a turn.  clutter_sini, clutter_cosi, the  *)
(* 16.16 ClutterFixed macros and CLUTTER_ANGLE_FROM_DEG come from          *)
(* clutter-fixed, which is not part of this repository; they are given by  *)
(* their values at the angles the model's inputs produce.                  *)
(***************************************************************************)
EXTENDS Integers, TLC

CONSTANTS
    Actors,      \* the actors the behaviour may be applied to
    Coords,      \* centre coordinates the setters are given
    Sizes,       \* widths and heights the setters are given
    Angles,      \* ClutterAngle values given to the ..._x setters
    TiltAngles,  \* ClutterAngle values given to the tilt setters
    Degrees,     \* angles in degrees given to the degree setters
    Alphas,      \* alpha values the timeline notifies, 0 .. MaxAlpha
    MaxAlpha,    \* CLUTTER_ALPHA_MAX_ALPHA
    None         \* no actor

ASSUME MaxAlpha \in Nat \ {0} /\ Alphas \subseteq 0 .. MaxAlpha
ASSUME \A d \in Degrees : d % 90 = 0

CW == "cw"
CCW == "ccw"
Directions == {CW, CCW}
Axes == {"x", "y", "z"}
TiltField == [ax \in Axes |-> CASE ax = "x" -> "tx" [] ax = "y" -> "ty"
                                [] ax = "z" -> "tz"]
Knot(x, y, z) == [x |-> x, y |-> y, z |-> z]
NoStep == [kind |-> "set", alpha |-> 0, angle |-> 0, actor |-> None]

-----------------------------------------------------------------------------
(* The fixed-point library.                                                *)

\* CLUTTER_ANGLE_FROM_DEG: degrees to 1024 units a turn, exact at the
\* multiples of 90 degrees the model uses.
AngleFromDeg(d) == (d * 1024) \div 360

\* CLUTTER_ANGLE_TO_DEG: 1024 units a turn to degrees, a double, exact
\* at the multiples of 128 units the model uses.
AngleToDeg(t) == (t * 360) \div 1024

\* clutter_sini (and clutter_cosi, a quarter turn ahead): a 16.16 value,
\* periodic in the turn (the angle is masked with 0x3ff), looked up in a
\* table of clutter-fixed.  The model stands in for the table with its
\* values at the eighths of a turn, joined linearly; the properties use
\* only its period and those values.
SinEighths == <<0, 46341, 65536, 46341, 0, -46341, -65536, -46341>>
Sini(t) ==
    LET u == t % 1024
        k == u \div 128
        s0 == SinEighths[k + 1]
        s1 == SinEighths[((k + 1) % 8) + 1]
    IN s0 + ((s1 - s0) * (u % 128)) \div 128
Cosi(t) == Sini(t + 256)

\* CLUTTER_FIXED_INT: v >> 16, an arithmetic shift, so rounding down.
FixedInt(v) == v \div 65536

\* 2^32 = Q32 * MaxAlpha + R32, computed from 2^30 so that every value
\* stays within TLC's integers.
Q32 == 4 * ((2^30) \div MaxAlpha) + ((4 * ((2^30) % MaxAlpha)) \div MaxAlpha)
R32 == (4 * ((2^30) % MaxAlpha)) % MaxAlpha

\* n / CLUTTER_ALPHA_MAX_ALPHA for n the product of a gint32 angle and the
\* guint32 alpha: the usual conversions make the product and the division
\* unsigned, so a negative n is taken as 2^32 + n.
UDivAlpha(n) ==
    IF n >= 0 THEN n \div MaxAlpha ELSE Q32 + (R32 + n) \div MaxAlpha

-----------------------------------------------------------------------------
(* The path.                                                               *)

\* clutter_behaviour_ellipse_advance: the point at an angle, then the
\* tilts about z, x and y, each only when its angle is not 0, each one
\* rounding its products back to integers.
Advance(p, angle) ==
    LET x0 == FixedInt(p.a * Cosi(angle))
        y0 == FixedInt(p.b * Sini(angle))
        x1 == IF p.tz # 0 THEN FixedInt(x0 * Cosi(p.tz) - y0 * Sini(p.tz)) ELSE x0
        y1 == IF p.tz # 0 THEN FixedInt(y0 * Cosi(p.tz) + x0 * Sini(p.tz)) ELSE y0
        z2 == IF p.tx # 0 THEN FixedInt(-y1 * Sini(p.tx)) ELSE 0
        y2 == IF p.tx # 0 THEN FixedInt(y1 * Cosi(p.tx)) ELSE y1
        x3 == IF p.ty # 0 THEN FixedInt(x1 * Cosi(p.ty) - z2 * Sini(p.ty)) ELSE x1
        z3 == IF p.ty # 0 THEN FixedInt(z2 * Cosi(p.ty) + x1 * Sini(p.ty)) ELSE z2
    IN Knot(x3, y2, z3)

\* The point alpha_notify moves the actors to: advance plus the centre.
PointAt(p, angle) ==
    LET k == Advance(p, angle) IN Knot(k.x + p.cx, k.y + p.cy, k.z)

CcwArc(p) ==
    IF p.end > 1024
    THEN LET a1 == (p.end \div 1024) * 1024
             a2 == 1024 - (p.end - a1)
         IN a1 + a2 + p.begin
    ELSE 1024 - p.end + p.begin

\* The CW arc from begin to an end below it, the same way from begin.
CwArc(p) ==
    IF p.begin > 1024
    THEN LET a1 == (p.begin \div 1024) * 1024
             a2 == 1024 - (p.begin - a1)
         IN a1 + a2 + p.end
    ELSE 1024 - p.begin + p.end

\* The angle clutter_behaviour_ellipse_alpha_notify computes for alpha:
\* straight from begin to end when the direction agrees with their order,
\* around the other way otherwise; 0 if no branch applies.  The sums and
\* differences with begin are unsigned too, and the result, converted back
\* to a gint32, is their plain value, which is well within range.
ArcAngle(p, alpha) ==
    CASE (p.end >= p.begin /\ p.dir = CW) \/ (p.end < p.begin /\ p.dir = CCW) ->
             UDivAlpha((p.end - p.begin) * alpha) + p.begin
      [] p.end >= p.begin /\ p.dir = CCW ->
             p.begin - UDivAlpha(CcwArc(p) * alpha)
      [] p.end < p.begin /\ p.dir = CW ->
             p.begin + UDivAlpha(CwArc(p) * alpha)
      [] OTHER -> 0

-----------------------------------------------------------------------------
(* State.                                                                  *)

VARIABLES priv, applied, pos, step, given

vars == <<priv, applied, pos, step, given>>

\* No setter gives a negative angle (the ASSUME below), so -1 marks a tilt
\* never set.
NotGiven == -1
ASSUME Angles \cup TiltAngles \cup Degrees \subseteq Nat


\* width >> 1 and height >> 1 for the non-negative sizes the model uses.
Half(n) == n \div 2

\* clutter_behaviour_ellipse_new: clutter_behaviour_ellipse_init (a zeroed
\* private with direction CW), then g_object_new setting center, width,
\* height, direction, angle-begin and angle-end through set_property; the
\* tilts are not construction properties and stay 0.
New(x, y, w, h, d, b, e) ==
    [cx |-> x, cy |-> y, a |-> Half(w), b |-> Half(h),
     begin |-> AngleFromDeg(b) - 256, end |-> AngleFromDeg(e) - 256,
     tx |-> 0, ty |-> 0, tz |-> 0, dir |-> d]

Init ==
    /\ \E x, y \in Coords, w, h \in Sizes, d \in Directions, b, e \in Degrees :
           /\ priv = New(x, y, w, h, d, b, e)
           /\ given = [cx |-> x, cy |-> y, width |-> w, height |-> h, dir |-> d,
                       begin |-> AngleFromDeg(b), end |-> AngleFromDeg(e),
                       tx |-> NotGiven, ty |-> NotGiven, tz |-> NotGiven]
    /\ applied = {}
    /\ pos = [x \in Actors |-> Knot(0, 0, 0)]
    /\ step = NoStep

\* A setter: the private changes, nothing moves; g is what it was given.
Set(p, g) == /\ priv' = p
             /\ given' = g
             /\ step' = NoStep
             /\ UNCHANGED <<applied, pos>>

-----------------------------------------------------------------------------
(* The setters.  Each stores its value when it differs (and notifies the   *)
(* property, which the model leaves out).                                  *)

\* clutter_behaviour_ellipse_set_center.
SetCenter(x, y) == Set([priv EXCEPT !.cx = x, !.cy = y], [given EXCEPT !.cx = x, !.cy = y])

\* set_width storing the width without the shift.
SetWidthNoShift(w) == Set([priv EXCEPT !.a = w], [given EXCEPT !.width = w])

\* clutter_behaviour_ellipse_set_width and _set_height.
SetWidth(w) == Set([priv EXCEPT !.a = Half(w)], [given EXCEPT !.width = w])
SetHeight(h) == Set([priv EXCEPT !.b = Half(h)], [given EXCEPT !.height = h])

\* clutter_behaviour_ellipse_set_angle_beginx and _endx: the angle minus
\* a quarter turn.
SetAngleBeginx(t) == Set([priv EXCEPT !.begin = t - 256], [given EXCEPT !.begin = t])
SetAngleEndx(t) == Set([priv EXCEPT !.end = t - 256], [given EXCEPT !.end = t])

\* clutter_behaviour_ellipse_set_angle_begin and _end: the degrees
\* converted, then the ..._x setter.
SetAngleBegin(d) == SetAngleBeginx(AngleFromDeg(d))
SetAngleEnd(d) == SetAngleEndx(AngleFromDeg(d))

\* clutter_behaviour_ellipse_set_angle_tiltx: the axis's tilt, minus a
\* quarter turn like the other angles; an unknown axis changes nothing.
SetAngleTiltx(ax, t) ==
    Set([priv EXCEPT ![TiltField[ax]] = t - 256], [given EXCEPT ![TiltField[ax]] = t])
SetAngleTilt(ax, d) == SetAngleTiltx(ax, AngleFromDeg(d))

\* clutter_behaviour_ellipse_set_tiltx: all three tilts, each minus a
\* quarter turn, under one freeze of the notifications.
SetTiltx(x, y, z) == Set([priv EXCEPT !.tx = x - 256, !.ty = y - 256, !.tz = z - 256],
                         [given EXCEPT !.tx = x, !.ty = y, !.tz = z])
SetTilt(x, y, z) == SetTiltx(AngleFromDeg(x), AngleFromDeg(y), AngleFromDeg(z))

\* clutter_behaviour_ellipse_set_direction.
SetDirection(d) == Set([priv EXCEPT !.dir = d], [given EXCEPT !.dir = d])

AngleProps == {"angle-begin", "angle-end", "angle-tilt-x", "angle-tilt-y", "angle-tilt-z"}

\* The private field behind each angle property.
PropField == [prop \in AngleProps |->
                CASE prop = "angle-begin" -> "begin" [] prop = "angle-end" -> "end"
                  [] prop = "angle-tilt-x" -> "tx" [] prop = "angle-tilt-y" -> "ty"
                  [] prop = "angle-tilt-z" -> "tz"]

\* clutter_behaviour_ellipse_set_property: the angle properties in
\* degrees, converted and less a quarter turn; width and height halved;
\* center through set_center; direction stored.
SetProperty(prop, v) ==
    CASE prop \in AngleProps ->
             Set([priv EXCEPT ![PropField[prop]] = AngleFromDeg(v) - 256],
                 [given EXCEPT ![PropField[prop]] = AngleFromDeg(v)])
      [] prop = "width"  -> SetWidth(v)
      [] prop = "height" -> SetHeight(v)
      [] prop = "center" -> SetCenter(v.x, v.y)
      [] prop = "direction" -> SetDirection(v)


-----------------------------------------------------------------------------
(* The getters: what each reports of the private p.  They change nothing.  *)

\* clutter_behaviour_ellipse_get_center.
GetCenter(p) == <<p.cx, p.cy>>

\* clutter_behaviour_ellipse_get_width and _get_height: a << 1 and b << 1.
GetWidth(p) == p.a * 2
GetHeight(p) == p.b * 2

\* clutter_behaviour_ellipse_get_angle_begin and _end: the stored angle
\* plus the quarter turn, in degrees.
GetAngleBegin(p) == AngleToDeg(p.begin + 256)
GetAngleEnd(p) == AngleToDeg(p.end + 256)

\* clutter_behaviour_ellipse_get_angle_beginx and _endx: the stored angle
\* as it is, without the quarter turn the ..._x setters took off.
GetAngleBeginx(p) == p.begin
GetAngleEndx(p) == p.end

\* Mutant: the tilt read back without the quarter turn.
GetAngleTiltxNoOffset(p, ax) == p[TiltField[ax]]

\* clutter_behaviour_ellipse_get_angle_tiltx: the axis's tilt plus the
\* quarter turn; _get_angle_tilt the same in degrees.
GetAngleTiltx(p, ax) == p[TiltField[ax]] + 256
GetAngleTilt(p, ax) == AngleToDeg(GetAngleTiltx(p, ax))

\* clutter_behaviour_ellipse_get_tiltx and _get_tilt: the three tilts,
\* each plus the quarter turn, the second in degrees.
GetTiltx(p) == [ax \in Axes |-> p[TiltField[ax]] + 256]
GetTilt(p) == [ax \in Axes |-> AngleToDeg(p[TiltField[ax]] + 256)]

\* clutter_behaviour_ellipse_get_direction.
GetDirection(p) == p.dir

\* clutter_behaviour_ellipse_get_property: the angles plus the quarter
\* turn in degrees, width and height shifted back, center, direction.
GetProperty(p, prop) ==
    CASE prop \in AngleProps -> AngleToDeg(p[PropField[prop]] + 256)
      [] prop = "width"     -> p.a * 2
      [] prop = "height"    -> p.b * 2
      [] prop = "center"    -> <<p.cx, p.cy>>
      [] prop = "direction" -> p.dir

-----------------------------------------------------------------------------
(* Applying and running the behaviour.                                     *)

\* clutter_behaviour_apply (clutter-behaviour.c) adds an actor not yet
\* applied and calls clutter_behaviour_ellipse_applied, which puts it at
\* advance (angle_begin) with set_position and set_depth.
Apply(x) ==
    /\ x \notin applied
    /\ applied' = applied \cup {x}
    /\ pos' = [pos EXCEPT ![x] = Advance(priv, priv.begin)]
    /\ step' = [kind |-> "apply", alpha |-> 0, angle |-> priv.begin, actor |-> x]
    /\ UNCHANGED <<priv, given>>

\* clutter_behaviour_remove: the actor stays where it is.
Remove(x) ==
    /\ x \in applied
    /\ applied' = applied \ {x}
    /\ step' = NoStep
    /\ UNCHANGED <<priv, pos, given>>

\* clutter_behaviour_ellipse_alpha_notify: the angle for alpha, advance,
\* the centre added, and every applied actor moved there
\* (actor_apply_knot_foreach).  step records the angle it computed.
AlphaNotify(alpha) ==
    LET t == ArcAngle(priv, alpha)
        k == PointAt(priv, t)
    IN /\ pos' = [x \in Actors |-> IF x \in applied THEN k ELSE pos[x]]
       /\ step' = [kind |-> "alpha", alpha |-> alpha, angle |-> t, actor |-> None]
       /\ UNCHANGED <<priv, applied, given>>

Next ==
    \/ \E x, y \in Coords : SetCenter(x, y)
    \/ \E w \in Sizes : SetWidth(w)
    \/ \E h \in Sizes : SetHeight(h)
    \/ \E t \in Angles : SetAngleBeginx(t)
    \/ \E t \in Angles : SetAngleEndx(t)
    \/ \E d \in Degrees : SetAngleBegin(d)
    \/ \E d \in Degrees : SetAngleEnd(d)
    \/ \E ax \in Axes, t \in TiltAngles : SetAngleTiltx(ax, t)
    \/ \E ax \in Axes, d \in Degrees : SetAngleTilt(ax, d)
    \/ \E x, y, z \in TiltAngles : SetTiltx(x, y, z)
    \/ \E x, y, z \in Degrees : SetTilt(x, y, z)
    \/ \E d \in Directions : SetDirection(d)
    \/ \E prop \in AngleProps, d \in Degrees : SetProperty(prop, d)
    \/ \E prop \in {"width", "height"}, w \in Sizes : SetProperty(prop, w)
    \/ \E x, y \in Coords : SetProperty("center", [x |-> x, y |-> y])
    \/ \E d \in Directions : SetProperty("direction", d)
    \/ \E x \in Actors : Apply(x)
    \/ \E x \in Actors : Remove(x)
    \/ \E alpha \in Alphas : AlphaNotify(alpha)

Spec == Init /\ [][Next]_vars

-----------------------------------------------------------------------------
(* Properties.                                                             *)

Knots == [x : Int, y : Int, z : Int]

TypeOK ==
    /\ priv.cx \in Coords /\ priv.cy \in Coords
    /\ priv.a \in {Half(w) : w \in Sizes} /\ priv.b \in {Half(h) : h \in Sizes}
    /\ priv.dir \in Directions
    /\ applied \subseteq Actors
    /\ pos \in [Actors -> Knots]
    /\ step.kind \in {"set", "apply", "alpha"} /\ step.alpha \in 0 .. MaxAlpha

\* The angle t names the point of angle u: they are the same modulo a
\* turn, which is all clutter_sini and clutter_cosi read of an angle.
SameTurnAngle(t, u) == (t - u) % 1024 = 0

ArriveAtEnd ==
    step.kind = "alpha" /\ step.alpha = MaxAlpha => SameTurnAngle(step.angle, priv.end)

\* The file's own note: "on applying an ellipse behaviour to an actor its
\* position will be set to what is dictated by the ellipses initial
\* position", the point alpha_notify puts it at for alpha 0.
AppliedAtStart ==
    step.kind = "apply" => pos[step.actor] = PointAt(priv, ArcAngle(priv, 0))

\* An angle modulo a turn, as a signed turn in -511 .. 512.
Signed(t) == IF (t % 1024) > 512 THEN (t % 1024) - 1024 ELSE t % 1024

\* The direction is the direction of rotation: for an alpha small enough
\* that the move is under half a turn, alpha_notify's angle has moved from
\* angle_begin clockwise (up) for CW and counter-clockwise for CCW.
DirectionFollowed ==
    \A al \in Alphas :
        al > 0 /\ al =< MaxAlpha \div 8 =>
            LET s == Signed(ArcAngle(priv, al) - priv.begin)
            IN IF priv.dir = CW THEN s >= 0 ELSE s =< 0

\* Whatever mix of setters wrote a field last (the degree and the
\* ClutterAngle setters, set_tilt for all three tilts, set_property), the
\* degree getters, get_property and get_angle_tiltx / get_tiltx read back
\* the value it was given: each adds back the quarter turn its setter
\* took off.  Widths and heights are even here (see the README).
ReadBack ==
    /\ GetCenter(priv) = <<given.cx, given.cy>>
    /\ GetWidth(priv) = given.width /\ GetHeight(priv) = given.height
    /\ GetProperty(priv, "center") = <<given.cx, given.cy>>
    /\ GetProperty(priv, "width") = given.width
    /\ GetProperty(priv, "height") = given.height
    /\ GetDirection(priv) = given.dir /\ GetProperty(priv, "direction") = given.dir
    /\ GetAngleBegin(priv) = AngleToDeg(given.begin)
    /\ GetAngleEnd(priv) = AngleToDeg(given.end)
    /\ \A prop \in AngleProps : given[PropField[prop]] # NotGiven =>
           GetProperty(priv, prop) = AngleToDeg(given[PropField[prop]])
    /\ \A ax \in Axes : given[TiltField[ax]] # NotGiven =>
           /\ GetAngleTiltx(priv, ax) = given[TiltField[ax]]
           /\ GetTiltx(priv)[ax] = given[TiltField[ax]]
           /\ GetAngleTilt(priv, ax) = AngleToDeg(given[TiltField[ax]])
           /\ GetTilt(priv)[ax] = AngleToDeg(given[TiltField[ax]])

\* The ClutterAngle getters read back what the ClutterAngle setters were
\* given, as get_angle_tiltx does for set_angle_tiltx: "Gets the angle at
\* which movements begins" (and ends).
AngleXReadBack ==
    /\ GetAngleBeginx(priv) = given.begin
    /\ GetAngleEndx(priv) = given.end

\* A tilt of 0 degrees on every axis, as the tilt getters report it
\* (clutter_behaviour_ellipse_get_tiltx), leaves the ellipse untilted:
\* advance gives the points it gives with no tilt stored.
TiltNeutralAtZero ==
    (\A ax \in Axes : priv[TiltField[ax]] + 256 = 0) =>
        \A al \in Alphas :
            Advance(priv, ArcAngle(priv, al))
                = Advance([priv EXCEPT !.tx = 0, !.ty = 0, !.tz = 0],
                          ArcAngle(priv, al))

=============================================================================
