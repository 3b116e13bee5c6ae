----------------------------- MODULE Contention -----------------------------
(***************************************************************************)
(* What the contention buffer promises its router, without timers, bytes   *)
(* and lifetimes: packets enter, and each of them leaves once, either      *)
(* silently (dropped, overheard, outlived) or handed over for transmission.*)
(***************************************************************************)
CONSTANT Ids

VARIABLES contending,   \* the packets in the buffer
          handed        \* the packets handed over in the last step

vars == <<contending, handed>>

Init == contending = {} /\ handed = {}

\* A packet enters; others may have to make room for it.
Enter(id) ==
  /\ \E out \in SUBSET contending : contending' = (contending \ out) \cup {id}
  /\ handed' = {}

\* Some packets leave, those in sent to be transmitted.
Leave(out, sent) ==
  /\ out \subseteq contending
  /\ sent \subseteq out
  /\ contending' = contending \ out
  /\ handed' = sent

Next ==
  \/ \E id \in Ids : Enter(id)
  \/ \E out \in SUBSET contending : \E sent \in SUBSET out : Leave(out, sent)

Spec == Init /\ [][Next]_vars
=============================================================================
