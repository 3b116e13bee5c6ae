----------------------------- MODULE MCPlatoon -----------------------------
(***************************************************************************)
(* Values for the constants of Platoon.  The periods and speeds of the     *)
(* configurations are scaled down and keep their order: a check every 2    *)
(* iterations instead of 10, and every 3 or 4 in a group instead of 300.   *)
(***************************************************************************)
EXTENDS Platoon

NoPairs == {}

\* Routes.
OneSegment == <<3>>
TwoSegments == <<2, 2>>
LongerRoute == <<2, 3>>

\* Every car drives to the end of the route (none is longer than this).
NobodyParks == [i \in OBU |-> 20]
\* Station 0 drives; station 1 stops after one move and keeps listening.
Station1Parks == [i \in OBU |-> IF i = 1 THEN 1 ELSE 20]
\* Station 0 drives; station 2 stops after one move, station 3 before it.
OnlyStation0Drives == [i \in OBU |-> IF i = 0 THEN 20 ELSE IF i = 2 THEN 1 ELSE 0]

\* Station 0 hears station 2 ...
From2To0 == {<<0, 2>>}
\* ... and station 2 hears station 0 once the block is lifted.
From0To2 == {<<2, 0>>}
\* The radio link from station 2 to station 0, as a pair <<sender, receiver>>.
Link2To0 == {<<2, 0>>}
=============================================================================
