----------------------------- MODULE Membership -----------------------------
(***************************************************************************)
(* What the platooning protocol promises of groups, whatever the messages, *)
(* the threads and the failures: who leads never changes back, a station   *)
(* follows only a station that leads, and no station has a group before    *)
(* somebody leads.                                                         *)
(***************************************************************************)
EXTENDS Integers

CONSTANT Station

VARIABLES
  leaders,    \* the stations that have declared themselves leader
  member      \* the station whose group a station is in, or None

vars == <<leaders, member>>

None == -1

Init ==
  /\ leaders = {}
  /\ member = [i \in Station |-> None]

\* A station declares itself leader, once.
Elect(i) ==
  /\ i \notin leaders
  /\ leaders' = leaders \cup {i}
  /\ UNCHANGED member

\* A station enters the group of another station that leads.
Follow(i, l) ==
  /\ l \in leaders \ {i}
  /\ member' = [member EXCEPT ![i] = l]
  /\ UNCHANGED leaders

\* A station takes itself for the head of a group.
Claim(i) ==
  /\ leaders # {}
  /\ member' = [member EXCEPT ![i] = i]
  /\ UNCHANGED leaders

Next ==
  \/ \E i \in Station : Elect(i)
  \/ \E i, l \in Station : Follow(i, l)
  \/ \E i \in Station : Claim(i)

Spec == Init /\ [][Next]_vars
=============================================================================
