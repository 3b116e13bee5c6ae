---------------------------- MODULE MCEventually ----------------------------
(***************************************************************************)
(* What must happen in the end, under the fairness of each component, on   *)
(* instances that are mostly smaller than those of the safety properties,  *)
(* and what holds of the contention buffer at all times.  The initial      *)
(* state chooses a scenario, in which one component runs while the others  *)
(* rest.  CbfPacketBuffer is extended, the others are instances.           *)
(***************************************************************************)
EXTENDS CbfPacketBuffer, TLC

CONSTANTS r1, r2, r3, p1, p2, p3, pk1, pk2, pk3, car1

VARIABLES
  scenario,
  local, air, requested, up, down,                             \* Router
  now, fc, interval, log, dropped,                   \* FlowControl
  loads, state, substate, current, odd,                        \* DccStates
  published, inbox, connected, restarts, moments, job, polls, markers   \* Dashboard

routerVars == <<local, air, requested, up, down>>
cbfVars    == vars
flowVars   == <<now, fc, interval, log, dropped>>
dccVars    == <<loads, state, substate, current, odd>>
boardVars  == <<published, inbox, connected, restarts, moments, job, polls, markers>>
allVars    == <<scenario, routerVars, cbfVars, flowVars, dccVars, boardVars>>

-----------------------------------------------------------------------------
Road     == {r1, r2, r3}
ToCentre == (r1 :> 30) @@ (r2 :> 20) @@ (r3 :> 0)

(***************************************************************************)
(* r1 floods one packet by contention: all hear each other, and r2 and r3  *)
(* are in the area.                                                        *)
(***************************************************************************)
Flood == INSTANCE Router WITH
  Routers <- Road, HeardBy <- [r \in Road |-> Road \ {r}], Dist <- ToCentre, Inside <- {r2, r3},
  Accurate <- Road, Packets <- {p1}, Source <- p1 :> r1, SingleHop <- {}, Carried <- {},
  HopLimit <- 3, AreaAlgorithm <- "CBF", NonAreaAlgorithm <- "CBF", Sector <- {},
  DPLLength <- 1, MemoryCapacity <- 0, CbfMaxCounter <- 1,
  Beaconing <- {}, Lossy <- FALSE, Forgetful <- FALSE, RateLimited <- FALSE

(***************************************************************************)
(* r1 sends one packet along a chain to the area r3 is in, greedily and    *)
(* with store-carry-forward; nobody knows a neighbour yet.                 *)
(***************************************************************************)
Chain == INSTANCE Router WITH
  Routers <- Road, HeardBy <- (r1 :> {r2}) @@ (r2 :> {r1, r3}) @@ (r3 :> {r2}), Dist <- ToCentre,
  Inside <- {r3}, Accurate <- Road, Packets <- {p1}, Source <- p1 :> r1, SingleHop <- {},
  Carried <- {p1}, HopLimit <- 3, AreaAlgorithm <- "SIMPLE", NonAreaAlgorithm <- "Greedy",
  Sector <- {}, DPLLength <- 1, MemoryCapacity <- 0, CbfMaxCounter <- 1,
  Beaconing <- Road, Lossy <- FALSE, Forgetful <- FALSE, RateLimited <- FALSE

(***************************************************************************)
(* The contention buffer of the constants: three packets, of which p2 and  *)
(* p3 just fit together and all three do not, and a runtime that is        *)
(* triggered up to a tick late.  A tick is 20 ms, so that a lifetime of    *)
(* 50 ms (byte 4) is outlived by three ticks and rounded by one or two;    *)
(* byte 26 is the default lifetime of 60 s.                                *)
(***************************************************************************)
LengthOfPackets == (p1 :> 1) @@ (p2 :> 2) @@ (p3 :> 2)

(***************************************************************************)
(* Requests stop at 3: by MaxTime everything queued is due, so the bound   *)
(* on the time takes nothing away from what fairness asks for.             *)
(***************************************************************************)
Flow == INSTANCE FlowControl WITH
  Packets <- {pk1, pk2, pk3}, Profile <- (pk1 :> 1) @@ (pk2 :> 1) @@ (pk3 :> 2),
  Lifetime <- (pk1 :> 9) @@ (pk2 :> 2) @@ (pk3 :> 4), Bursty <- FALSE, Intervals <- {1, 3},
  QueueLength <- 0, BurstMessages <- 2, BurstDuration <- 2, BurstPeriod <- 4,
  Punctual <- TRUE, Rescheduling <- FALSE, LastRequest <- 3, MaxTime <- 13

Dcc == INSTANCE DccStates WITH
  Loads <- {0, 19, 30, 45, 60}, N_samples_up <- 2, N_samples_down <- 4,
  Limits <- <<0, 30, 40, 50, 60>>

\* The dashboard: one station, a browser with two connections, and a restart.
Page == INSTANCE Dashboard WITH
  Stations <- {car1}, Queried <- <<car1>>, Connections <- {1, 2}, MaxMessages <- 3, MaxRestarts <- 1,
  up <- connected

ASSUME
  /\ Flood!RouterAssumption /\ Chain!RouterAssumption /\ BufferAssumption
  /\ Flow!FlowControlAssumption /\ Dcc!DccStatesAssumption /\ Page!DashboardAssumption

-----------------------------------------------------------------------------
EventuallyInit ==
  /\ scenario \in {"flood", "chain", "cbf", "flow", "dcc", "dashboard"}
  /\ Flood!Init
  /\ Init
  /\ Flow!Init /\ (scenario # "flow" => interval = 1)
  /\ Dcc!Init
  /\ Page!Init

\* The flood may end, and the time of flow control is bounded.
AtRest == scenario \in {"flood", "flow"} /\ UNCHANGED allVars

EventuallyNext ==
  \/ scenario = "flood" /\ Flood!Next /\ UNCHANGED <<scenario, cbfVars, flowVars, dccVars, boardVars>>
  \/ scenario = "chain" /\ Chain!Next /\ UNCHANGED <<scenario, cbfVars, flowVars, dccVars, boardVars>>
  \/ scenario = "cbf" /\ Next /\ UNCHANGED <<scenario, routerVars, flowVars, dccVars, boardVars>>
  \/ scenario = "flow" /\ Flow!Next /\ UNCHANGED <<scenario, routerVars, cbfVars, dccVars, boardVars>>
  \/ scenario = "dcc" /\ Dcc!Next /\ UNCHANGED <<scenario, routerVars, cbfVars, flowVars, boardVars>>
  \/ scenario = "dashboard" /\ Page!Next /\ UNCHANGED <<scenario, routerVars, cbfVars, flowVars, dccVars>>
  \/ AtRest

\* What the runtime of a router and the radio must do.
BeaconTimer(r) == scenario = "chain" /\ Chain!on_beacon_timer_expired(r)
CbfTimer(r) == scenario = "flood" /\ \E it \in local[r].cbf : Flood!CbfTimeout(r, it)
Arrival(r, n, k) ==
  \E f \in air :
    /\ f.to = r /\ f.from = n /\ f.p = k
    /\ IF scenario = "flood" THEN Flood!Receive(f) ELSE Chain!Receive(f)

EventuallySpec ==
  /\ EventuallyInit /\ [][EventuallyNext]_allVars
  /\ \A r \in Road : WF_routerVars(BeaconTimer(r)) /\ WF_routerVars(CbfTimer(r))
  /\ \A r, n \in Road : \A k \in {p1, Chain!Beacon} : WF_routerVars(Arrival(r, n, k))
  /\ WF_cbfVars(scenario = "cbf" /\ Trigger)
  /\ WF_flowVars(scenario = "flow" /\ Flow!Tick)
  /\ WF_flowVars(scenario = "flow" /\ Flow!trigger)
  /\ WF_dccVars(scenario = "dcc" /\ Dcc!Next)
  /\ WF_boardVars(scenario = "dashboard" /\ Page!connect)
  /\ WF_boardVars(scenario = "dashboard" /\ Page!message)
  /\ WF_boardVars(scenario = "dashboard" /\ (Page!Query \/ Page!Return))
  /\ WF_boardVars(scenario = "dashboard" /\ \E k \in {1, 2} : Page!Called(k))
  /\ \A k \in {1, 2} : /\ WF_boardVars(scenario = "dashboard" /\ Page!Poll(k))
                       /\ WF_boardVars(scenario = "dashboard" /\ (Page!Refused(k) \/ Page!Settle(k)))

-----------------------------------------------------------------------------
(***************************************************************************)
(* Router: a flood by contention ends.                                     *)
(***************************************************************************)
FloodEnds == scenario = "flood" => Flood!FloodEnds

(***************************************************************************)
(* Router: a packet gets to the area over routers that have to learn their *)
(* neighbours from beacons first.                                          *)
(***************************************************************************)
Delivered == scenario = "chain" => Chain!Delivered

(***************************************************************************)
(* CbfPacketBuffer: no packet stays in the buffer.                         *)
(***************************************************************************)
ContentionEnds == scenario = "cbf" => EveryPacketLeaves

(***************************************************************************)
(* FlowControl: what is queued is transmitted or dropped.                  *)
(***************************************************************************)
QueuesDrain == scenario = "flow" => Flow!EveryPacketLeaves

(***************************************************************************)
(* DccStates: under a constant load both machines settle at the interval   *)
(* it demands.                                                             *)
(***************************************************************************)
IntervalSettles == scenario = "dcc" => Dcc!Settles

(***************************************************************************)
(* Dashboard: in the end the page shows the last positions and the last    *)
(* leader.                                                                 *)
(***************************************************************************)
PageConverges == scenario = "dashboard" => Page!Converges
=============================================================================
