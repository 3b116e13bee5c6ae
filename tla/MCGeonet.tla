----------------------------- MODULE MCGeonet ------------------------------
(***************************************************************************)
(* GeoNetworking on small instances: what a router keeps (the location     *)
(* table, the store-carry-forward buffer and the contention buffer), and   *)
(* three routers that flood packets.  They are explored one at a time: the *)
(* initial state chooses a scenario, in which one of them runs while the   *)
(* others rest.  LocationTable is extended, the others are instances; what *)
(* is proved of the two buffers comes with theirs.                         *)
(***************************************************************************)
EXTENDS LocationTable, TLC

CONSTANTS p1, p2, p3, p4, r1, r2, r3

VARIABLES
  scenario,
  nodes, scfBytes, arrived, sent,                                  \* PacketBuffer
  packets, timers, life, cbfBytes, count, fade, wake, handed,      \* CbfPacketBuffer
  local, air, requested, up, down                                  \* Router

tableVars      == vars
scfVars        == <<nodes, scfBytes, arrived, sent>>
contentionVars == <<packets, timers, life, cbfBytes, count, fade, wake, handed>>
routerVars     == <<local, air, requested, up, down>>
allVars        == <<scenario, tableVars, scfVars, contentionVars, routerVars>>

-----------------------------------------------------------------------------
(***************************************************************************)
(* The contention buffer with counters that fade, of a router that         *)
(* forwards below two copies; a tick is 20 ms.  MCEventually has the one   *)
(* whose counters contend.  And the store-carry-forward buffer: p3 alone   *)
(* is larger than it, p1 and p2 with p4 do not fit together.  Lifetime     *)
(* byte 4 is 50 ms, 8 is 100 ms.                                           *)
(***************************************************************************)
Buffers == INSTANCE BufferProofs WITH
  Ids <- {p1, p2}, Length <- (p1 :> 1) @@ (p2 :> 2), Capacity <- 2,
  Timeouts <- {1, 3}, Lifetimes <- {26}, TickMs <- 20, MaxStep <- 2,
  Fading <- TRUE, FadeTicks <- 12, MaxCounter <- 3, MaxCount <- 4, stored <- cbfBytes,
  ScfIds <- {p1, p2, p3, p4}, ScfLength <- (p1 :> 1) @@ (p2 :> 2) @@ (p3 :> 5) @@ (p4 :> 2), ScfCapacity <- 4,
  ScfLifetimes <- {4, 8}, ScfTickMs <- 25, AgeCap <- 5

(***************************************************************************)
(* Routers r1, r2, r3 on a road into the area, which r2 and r3 are in: a   *)
(* chain, in which each hears the next ones, or close together.            *)
(***************************************************************************)
Road     == {r1, r2, r3}
MeshOf   == [r \in Road |-> Road \ {r}]
ToCentre == (r1 :> 30) @@ (r2 :> 20) @@ (r3 :> 0)

\* Simple and greedy forwarding of a GeoBroadcast of r1 and a single hop
\* broadcast of r2 along a chain.
Chain == INSTANCE Router WITH
  Routers <- Road, HeardBy <- (r1 :> {r2}) @@ (r2 :> {r1, r3}) @@ (r3 :> {r2}), Dist <- ToCentre,
  Inside <- {r2, r3}, Accurate <- Road, Packets <- {p1, p2}, Source <- (p1 :> r1) @@ (p2 :> r2),
  SingleHop <- {p2}, Carried <- {p1, p2}, HopLimit <- 3, AreaAlgorithm <- "SIMPLE",
  NonAreaAlgorithm <- "Greedy", Sector <- {}, DPLLength <- 1, MemoryCapacity <- 0, CbfMaxCounter <- 1,
  Beaconing <- Road, Lossy <- TRUE, Forgetful <- FALSE, RateLimited <- TRUE

\* Contention based forwarding; entries of the location table expire.
Contending == INSTANCE Router WITH
  Routers <- Road, HeardBy <- MeshOf, Dist <- ToCentre, Inside <- {r2, r3}, Accurate <- Road,
  Packets <- {p1}, Source <- p1 :> r1, SingleHop <- {}, Carried <- {},
  HopLimit <- 3, AreaAlgorithm <- "CBF", NonAreaAlgorithm <- "CBF", Sector <- {},
  DPLLength <- 1, MemoryCapacity <- 1, CbfMaxCounter <- 1,
  Beaconing <- {r3}, Lossy <- TRUE, Forgetful <- TRUE, RateLimited <- FALSE

\* Advanced forwarding with two copies to be heard and sectors seen from r1.
Advanced == INSTANCE Router WITH
  Routers <- Road, HeardBy <- MeshOf, Dist <- ToCentre, Inside <- {r2, r3}, Accurate <- Road,
  Packets <- {p1}, Source <- p1 :> r1, SingleHop <- {}, Carried <- {},
  HopLimit <- 3, AreaAlgorithm <- "Advanced", NonAreaAlgorithm <- "Greedy",
  Sector <- {<<r1, r3, r2>>, <<r1, r2, r3>>},
  DPLLength <- 1, MemoryCapacity <- 1, CbfMaxCounter <- 2,
  Beaconing <- {r3}, Lossy <- TRUE, Forgetful <- FALSE, RateLimited <- FALSE

ASSUME GeonetAssumption ==
  /\ Buffers!Scf!PacketBufferAssumption /\ Buffers!BufferAssumption
  /\ Chain!RouterAssumption /\ Contending!RouterAssumption /\ Advanced!RouterAssumption

-----------------------------------------------------------------------------
GeonetInit ==
  /\ scenario \in {"table", "scf", "fading", "chain", "contending", "advanced"}
  /\ Init
  /\ Buffers!Scf!Init
  /\ Buffers!Init
  /\ IF scenario = "chain" THEN Chain!Init ELSE Contending!Init

GeonetNext ==
  \/ scenario = "table" /\ Next /\ UNCHANGED <<scenario, scfVars, contentionVars, routerVars>>
  \/ scenario = "scf" /\ Buffers!Scf!Next /\ UNCHANGED <<scenario, tableVars, contentionVars, routerVars>>
  \/ scenario = "fading" /\ Buffers!Next /\ UNCHANGED <<scenario, tableVars, scfVars, routerVars>>
  \/ scenario = "chain" /\ Chain!Next /\ UNCHANGED <<scenario, tableVars, scfVars, contentionVars>>
  \/ scenario = "contending" /\ Contending!Next /\ UNCHANGED <<scenario, tableVars, scfVars, contentionVars>>
  \/ scenario = "advanced" /\ Advanced!Next /\ UNCHANGED <<scenario, tableVars, scfVars, contentionVars>>

GeonetSpec == GeonetInit /\ [][GeonetNext]_allVars

-----------------------------------------------------------------------------
(***************************************************************************)
(* PacketBuffer: the byte count follows every push, drop, expiry and re-   *)
(* entrant push of a flush, within the capacity; a packet that is put back *)
(* is in one place only and stays ahead of those that arrive later.        *)
(* CbfPacketBuffer with fading counters: list, timers and byte count agree *)
(* after add, update, remove, fetch and flush, and no counter fades while  *)
(* its packet contends.                                                    *)
(***************************************************************************)
BuffersAreSound ==
  /\ scenario = "scf" => /\ Buffers!Scf!TypeOK /\ Buffers!Scf!Accounting
                         /\ Buffers!Scf!AtMostOnce /\ Buffers!Scf!OldestFirst
  /\ scenario = "fading" => /\ Buffers!TypeOK /\ Buffers!Accounting /\ Buffers!CapacityKept
                            /\ Buffers!ContendingIsCounted

(***************************************************************************)
(* PacketBuffer: head drop throws out no more than the new packet needs.   *)
(***************************************************************************)
LeastDropped == Buffers!Scf!LeastDropped

(***************************************************************************)
(* Router: each algorithm keeps a packet within its hop limit and passes   *)
(* it up at most once, by duplicate detection in the chain and by the      *)
(* memory of decide_pass_up under contention; where duplicates are         *)
(* detected each router sends it once.                                     *)
(***************************************************************************)
FloodIsBounded ==
  CASE scenario = "chain"      -> Chain!TypeOK /\ Chain!ReachBounded /\ Chain!PassedUpOnce /\ Chain!SentOnce
    [] scenario = "contending" -> Contending!TypeOK /\ Contending!ReachBounded /\ Contending!PassedUpOnce
    [] scenario = "advanced"   -> Advanced!TypeOK /\ Advanced!ReachBounded /\ Advanced!PassedUpOnce
    [] OTHER                   -> TRUE
=============================================================================
