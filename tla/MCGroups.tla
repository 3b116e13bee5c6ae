------------------------------ MODULE MCGroups ------------------------------
(***************************************************************************)
(* Three pairs of stations, chosen by the initial state: the rear pair, 2  *)
(* and 3, whose constants are those of the module; stations 0 and 2, which *)
(* are blocked from each other until an operator lifts a block, on a road  *)
(* with bends and with messages lost; and stations 1 and 2, whose blocks   *)
(* failed.                                                                 *)
(***************************************************************************)
EXTENDS MCPlatoon

VARIABLE scenario

\* Station 2 stops after one move: it listens, asks to join and to merge.
Merging == INSTANCE Platoon WITH
  OBU <- {0, 2}, SyncCheck <- 3, RepeatEvery <- 1, Fast <- 1, Bends <- TRUE,
  Distances <- OneSegment, Unblockable <- {<<0, 2>>, <<2, 0>>},
  Lossy <- {<<0, 2>>, <<2, 0>>}, ParkAt <- [i \in {0, 2} |-> IF i = 2 THEN 1 ELSE 20]

\* Both drive: station 1 cannot answer the requests of station 2.
Unable == INSTANCE Platoon WITH
  OBU <- {1, 2}, SyncCheck <- 3, RepeatEvery <- 1, Fast <- 1,
  Distances <- OneSegment, FailedBlocks <- {<<1, 2>>, <<2, 1>>},
  ParkAt <- [i \in {1, 2} |-> 20]

GroupsInit ==
  /\ scenario \in {"rear", "merging", "unable"}
  /\ CASE scenario = "rear" -> Init
       [] scenario = "merging" -> Merging!Init
       [] scenario = "unable" -> Unable!Init

GroupsNext ==
  \/ scenario = "rear" /\ Next /\ UNCHANGED scenario
  \/ scenario = "merging" /\ Merging!Next /\ UNCHANGED scenario
  \/ scenario = "unable" /\ Unable!Next /\ UNCHANGED scenario

GroupsSpec == GroupsInit /\ [][GroupsNext]_<<vars, scenario>>

-----------------------------------------------------------------------------
(***************************************************************************)
(* Each pair implements the abstract membership of four stations, of       *)
(* which two never start.                                                  *)
(***************************************************************************)
Four == INSTANCE Membership WITH
          Station <- 0..3,
          leaders <- {i \in DOMAIN currentGroup : Leads(i)},
          member <- [i \in 0..3 |-> IF i \in DOMAIN groupID THEN groupID[i] ELSE NoGroup]
PairsImplementMembership == Four!Spec
=============================================================================
