----------------------------- MODULE MCStation -----------------------------
(***************************************************************************)
(* What is around the routers, on small instances: the event loop of a     *)
(* station, flow control, the DCC state machines, the exchange of          *)
(* certificates, the lifetime of the packets, check() of the simulator and *)
(* the dashboard.  They are explored one at a time: the initial state      *)
(* chooses a scenario, in which one of them runs while the others rest.    *)
(* Lifetime is extended, the others are instances.                         *)
(***************************************************************************)
EXTENDS Lifetime, TLC

CONSTANTS io, pk1, pk2, pk3, pk4, pk5, car1, car2, aa1, aa2

VARIABLES
  scenario,
  clock, rt, stack, requests,                                  \* Runtime
  now, fc, interval, log, dropped,                   \* FlowControl
  loads, state, substate, current, odd,                        \* DccStates
  own, policy, cache, quiet, air, missed, known, last,         \* Certificates
  heading, bearing, called, res,                               \* Bearing
  published, inbox, up, restarts, moments, job, polls, markers \* Dashboard

packetVars  == vars
runtimeVars == <<clock, rt, stack, requests>>
flowVars    == <<now, fc, interval, log, dropped>>
dccVars     == <<loads, state, substate, current, odd>>
certVars    == <<own, policy, cache, quiet, air, missed, known, last>>
checkVars   == <<heading, bearing, called, res>>
boardVars   == <<published, inbox, up, restarts, moments, job, polls, markers>>
allVars     == <<scenario, packetVars, runtimeVars, flowVars, dccVars, certVars, checkVars, boardVars>>

\* Queueing times around the ties and thresholds of the bases, one negative.
StaysAround == {-100, 0, 1, 24, 25, 26, 50, 75, 149, 150, 499, 500, 501, 1000,
                4999, 5000, 5001, 49999, 50000, 50001, 60000, 630000}

-----------------------------------------------------------------------------
(***************************************************************************)
(* The event loop, in seconds: with CAMs, and with packets that need a     *)
(* position fix, jitter and resets.  Requests are repeated several times,  *)
(* twice and a half, or with an interval below the minimum.                *)
(***************************************************************************)
SomeRepetitions == {[interval |-> 1, maximum |-> 3], [interval |-> 2, maximum |-> 5], [interval |-> 0, maximum |-> 4]}

Loop == INSTANCE RuntimeProofs WITH
  Threads <- {io}, Io <- io, PositionPeriod <- 2, BeaconPeriod <- 3, Jitters <- {0},
  CamInterval <- 2, Repetitions <- SomeRepetitions, MinInterval <- 1, Beaconing <- TRUE,
  RequireFix <- FALSE, Accuracies <- {TRUE}, Resets <- FALSE, MaxRequests <- 1, MaxClock <- 6

FixLoop == INSTANCE RuntimeProofs WITH
  Threads <- {io}, Io <- io, PositionPeriod <- 2, BeaconPeriod <- 3, Jitters <- {0, 1},
  CamInterval <- 0, Repetitions <- SomeRepetitions, MinInterval <- 1, Beaconing <- TRUE,
  RequireFix <- TRUE, Accuracies <- BOOLEAN, Resets <- TRUE, MaxRequests <- 1, MaxClock <- 6

(***************************************************************************)
(* Congestion control.  FlowControl: a packet with bursts, three of one    *)
(* profile and one below, queues of two packets, late triggers.            *)
(* DccStates: loads at and around the thresholds of the state machines.    *)
(***************************************************************************)
Dcc == INSTANCE DccProofs WITH
  Packets <- {pk1, pk2, pk3, pk4, pk5},
  Profile <- (pk1 :> 1) @@ (pk2 :> 1) @@ (pk3 :> 1) @@ (pk4 :> 0) @@ (pk5 :> 2),
  Lifetime <- (pk1 :> 9) @@ (pk2 :> 2) @@ (pk3 :> 4) @@ (pk4 :> 1) @@ (pk5 :> 4),
  Bursty <- TRUE, Intervals <- {1, 3}, QueueLength <- 2,
  BurstMessages <- 2, BurstDuration <- 2, BurstPeriod <- 4,
  Punctual <- FALSE, Rescheduling <- TRUE, LastRequest <- 2, MaxTime <- 5,
  Loads <- {0, 18, 19, 30, 50, 59, 60}, N_samples_up <- 2, N_samples_down <- 4,
  Limits <- <<0, 30, 40, 50, 60>>

(***************************************************************************)
(* Two stations with tickets of different authorities, and messages under  *)
(* way for longer than a CAM may be old.  Times are in half seconds; the   *)
(* hour an authority is cached is scaled down to just more than a ticket.  *)
(***************************************************************************)
Certs == INSTANCE CertificatesProofs WITH
  Stations <- {car1, car2}, Authorities <- {aa1, aa2}, Authority <- (car1 :> aa1) @@ (car2 :> aa2),
  CertificatePeriod <- 2, TicketLife <- 4, AuthorityLife <- 5, MaxAge <- 4, CamPeriod <- 2,
  MaxMissed <- 0, MaxDelay <- 5, Others <- {car1}, Renewals <- (car1 :> 0) @@ (car2 :> 0)

\* check() of the simulator, for every heading and every bearing.
Check == INSTANCE Bearing

\* The dashboard: two stations, and a browser with two connections.
Page == INSTANCE DashboardProofs WITH
  Stations <- {car1, car2}, Queried <- <<car1, car2>>, Connections <- {1, 2}, MaxMessages <- 3, MaxRestarts <- 1

ASSUME StationAssumption ==
  /\ Loop!RuntimeAssumption /\ FixLoop!RuntimeAssumption /\ Dcc!FlowControlAssumption
  /\ Dcc!States!DccStatesAssumption /\ Certs!CertificatesAssumption /\ Page!DashboardAssumption

-----------------------------------------------------------------------------
StationInit ==
  /\ scenario \in {"lifetime", "loop", "fix", "flow", "dcc", "certificates", "check", "dashboard"}
  /\ IF scenario = "lifetime" THEN Init ELSE raw = 0 /\ stay = 0
  /\ IF scenario = "fix" THEN FixLoop!Init ELSE Loop!Init
  /\ Dcc!Init /\ (scenario # "flow" => interval = 1)
  /\ Dcc!States!Init
  /\ Certs!Init
  /\ IF scenario = "check" THEN Check!Init ELSE heading = 90 /\ bearing = 0 /\ called = FALSE /\ res = FALSE
  /\ Page!Init

\* A packet whose lifetime is over stays as it is.
Outlived == Decode(raw) = 0 /\ UNCHANGED packetVars
\* check() has returned.
Returned == called /\ UNCHANGED checkVars

StationNext ==
  \/ scenario = "lifetime" /\ (Next \/ Outlived) /\ UNCHANGED <<scenario, runtimeVars, flowVars, dccVars, certVars, checkVars, boardVars>>
  \/ scenario = "loop" /\ Loop!Next /\ UNCHANGED <<scenario, packetVars, flowVars, dccVars, certVars, checkVars, boardVars>>
  \/ scenario = "fix" /\ FixLoop!Next /\ UNCHANGED <<scenario, packetVars, flowVars, dccVars, certVars, checkVars, boardVars>>
  \/ scenario = "flow" /\ Dcc!Next /\ UNCHANGED <<scenario, packetVars, runtimeVars, dccVars, certVars, checkVars, boardVars>>
  \/ scenario = "dcc" /\ Dcc!States!Next /\ UNCHANGED <<scenario, packetVars, runtimeVars, flowVars, certVars, checkVars, boardVars>>
  \/ scenario = "certificates" /\ Certs!Next /\ UNCHANGED <<scenario, packetVars, runtimeVars, flowVars, dccVars, checkVars, boardVars>>
  \/ scenario = "check" /\ (Check!Next \/ Returned) /\ UNCHANGED <<scenario, packetVars, runtimeVars, flowVars, dccVars, certVars, boardVars>>
  \/ scenario = "dashboard" /\ Page!Next
     /\ UNCHANGED <<scenario, packetVars, runtimeVars, flowVars, dccVars, certVars, checkVars>>

StationSpec == StationInit /\ [][StationNext]_allVars

-----------------------------------------------------------------------------
(***************************************************************************)
(* Runtime: while callbacks run inside each other the beacon timer is      *)
(* neither lost nor doubled, exactly one CAM and one position update are   *)
(* scheduled, and the Repeater schedules nothing beyond the maximum of a   *)
(* request; while the io thread waits, its timer is set for the first      *)
(* callback or earlier.                                                    *)
(***************************************************************************)
TimersAreKept ==
  /\ scenario = "loop" => /\ Loop!TypeOK /\ Loop!OneBeacon /\ Loop!TimersKept
                          /\ Loop!RepetitionWithinMaximum /\ Loop!ArmedInTime
  /\ scenario = "fix" => /\ FixLoop!TypeOK /\ FixLoop!OneBeacon /\ FixLoop!TimersKept
                         /\ FixLoop!RepetitionWithinMaximum

(***************************************************************************)
(* FlowControl: while a packet is queued a trigger is scheduled, and a     *)
(* packet is queued, transmitted once or dropped.                          *)
(***************************************************************************)
NothingIsStuck == scenario = "flow" => Dcc!TypeOK /\ Dcc!NoStall /\ Dcc!OnePlace

(***************************************************************************)
(* FlowControl: as long as a packet is queued nothing of its profile that  *)
(* came later is transmitted or put before it, and no queued packet is     *)
(* transmitted after its lifetime.                                         *)
(***************************************************************************)
InOrderAndInTime == Dcc!InOrder /\ Dcc!NeverTooLate

(***************************************************************************)
(* DccStates: the fully meshed machine answers a load that lasts, and its  *)
(* interval gets shorter only after a quiet long window; the gradual       *)
(* machine moves by one state towards its target.                          *)
(***************************************************************************)
LoadDecides ==
  /\ [](scenario = "dcc" => Dcc!States!TypeOK /\ Dcc!States!LoadIsAnswered)
  /\ Dcc!States!ShorterOnlyAfterQuiet
  /\ Dcc!States!OneStepTowards

(***************************************************************************)
(* Certificates: a ticket is cached only if a message signed with it was   *)
(* accepted, however late messages arrive.                                 *)
(***************************************************************************)
CachedIsAccepted == scenario = "certificates" => Certs!TypeOK /\ Certs!CachedIsAccepted

(***************************************************************************)
(* Bearing: check() never takes a car for one behind that is not, and for  *)
(* headings below 170 it finds every car behind.                           *)
(***************************************************************************)
CheckIsRight == scenario = "check" => Check!CheckIsSound /\ Check!CheckIsComplete

(***************************************************************************)
(* Dashboard: the positions and the leader on the page were in the         *)
(* database together, and an answer of getLocations is not older than what *)
(* the page showed when it asked.                                          *)
(***************************************************************************)
PageIsConsistent == Page!PageIsConsistent
=============================================================================
