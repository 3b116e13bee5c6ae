----------------------------- MODULE MCProgress -----------------------------
(***************************************************************************)
(* Two scenarios of the front pair under fairness, chosen by the initial   *)
(* state: station 1 stops after one move and listens (the constants of the *)
(* module), or both drive to the end of a shorter route.                   *)
(***************************************************************************)
EXTENDS MCPlatoon

VARIABLE scenario

Driving == INSTANCE Platoon WITH SyncCheck <- 2, Distances <- OneSegment, ParkAt <- NobodyParks

ProgressInit == scenario \in {"joining", "driving"} /\ Init

ProgressNext ==
  \/ scenario = "joining" /\ Next /\ UNCHANGED scenario
  \/ scenario = "driving" /\ Driving!Next /\ UNCHANGED scenario

\* The fairness of Platoon in each scenario.
ProgressSpec ==
  /\ ProgressInit /\ [][ProgressNext]_<<vars, scenario>>
  /\ \A i \in OBU :
       WF_vars(\/ scenario = "joining" /\ startSimul(i)
               \/ scenario = "driving" /\ Driving!startSimul(i))
  /\ \A r \in OBU : WF_vars(on_connect(r))
  /\ \A s, r \in OBU :
       WF_vars(\/ scenario = "joining" /\ on_message(s, r)
               \/ scenario = "driving" /\ Driving!on_message(s, r))

-----------------------------------------------------------------------------
(***************************************************************************)
(* Terminates of Platoon: every process ends, with or without an           *)
(* exception, when both drive.                                             *)
(***************************************************************************)
DrivingTerminates == scenario = "driving" => Driving!Terminates

(***************************************************************************)
(* EveryListenerGetsAGroup of Platoon: a station that has stopped and      *)
(* listens gets a group.                                                   *)
(***************************************************************************)
ListenerGetsAGroup == scenario = "joining" => EveryListenerGetsAGroup
=============================================================================
