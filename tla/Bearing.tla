------------------------------ MODULE Bearing ------------------------------
(***************************************************************************)
(* check() of simulator/simulator.py: is the other car behind?  calcBearing *)
(* (trigonometry) is abstracted to the bearing it returns, in whole        *)
(* degrees 0..359, and the heading is the third element of myInfo.         *)
(***************************************************************************)
EXTENDS Integers

VARIABLES heading, bearing, called, res

vars == <<heading, bearing, called, res>>

Degrees == 0..359
Tolerance == 10

\* relativeBearing after the two corrections.
HalfTurn(d) == IF d > 180 THEN d - 180 ELSE d          \* seeded fault
Normalise(d) ==
  LET wrapped == IF d < -180 THEN 360 + d ELSE d
  IN  IF wrapped > 180 THEN 360 - wrapped ELSE wrapped

InWindow(d) == d >= 180 - Tolerance /\ d <= 180 + Tolerance

check(own, toOther) == InWindow(Normalise(toOther - own))

(***************************************************************************)
(* The reference: the direction to the other car is opposite to the        *)
(* heading, up to the tolerance, on the circle of 360 degrees.             *)
(***************************************************************************)
TrulyBehind(own, toOther) ==
  \E k \in {-1, 0, 1} :
    LET d == toOther - own - 180 + 360 * k IN -Tolerance <= d /\ d <= Tolerance

Init ==
  /\ heading \in Degrees
  /\ bearing \in Degrees
  /\ called = FALSE
  /\ res = FALSE

Call ==
  /\ ~called
  /\ called' = TRUE
  /\ res' = check(heading, bearing)
  /\ UNCHANGED <<heading, bearing>>

Next == Call

Spec == Init /\ [][Next]_vars

-----------------------------------------------------------------------------
(***************************************************************************)
(* check never takes a car for one behind that is not, for any heading.    *)
(***************************************************************************)
CheckIsSound == res => TrulyBehind(heading, bearing)

(***************************************************************************)
(* For the heading 90 the simulator puts into every CAM, and all others    *)
(* below 170, check finds every car behind.                                *)
(***************************************************************************)
CheckIsComplete ==
  called /\ heading < 180 - Tolerance /\ TrulyBehind(heading, bearing) => res
=============================================================================
