---------------------------- MODULE LocationTable ----------------------------
(***************************************************************************)
(* The location table of a router (geonet/location_table.cpp), the map     *)
(* with expiring entries below it (soft_state_map.hpp), the duplicate      *)
(* packet list kept in its entries (duplicate_packet_list.cpp) and the     *)
(* circular order of timestamps (timestamp.cpp), driven by what the router *)
(* does to them when it indicates a packet (router.cpp, process_extended). *)
(*                                                                         *)
(* Sources stamp packets with a common clock that wraps around; a packet   *)
(* may arrive late, twice or out of order.                                 *)
(***************************************************************************)
EXTENDS Integers, Sequences, SequencesExt, FiniteSets

CONSTANTS
  Stations,         \* link layer addresses of the sources
  Modulus,          \* number of timestamps (2^32 in the code)
  Life,             \* itsGnLifetimeLocTE, in ticks
  NbrExpiry,        \* vanetzaNeighbourFlagExpiry, 0: the flag does not expire
  DPLLength,        \* itsGnDPLLength
  SNs,              \* sequence numbers of GeoBroadcast packets
  MaxDelay,         \* bound: ticks a packet may be under way
  MaxAccepted       \* bound: GeoBroadcasts accepted during the life of an entry

ASSUME LocationTableAssumption ==
  /\ Modulus \in Nat /\ Modulus % 2 = 0
  /\ Life \in Nat /\ NbrExpiry \in Nat /\ MaxDelay \in Nat /\ MaxAccepted \in Nat
  /\ DPLLength \in Nat \ {0}
  /\ 2 * (Life + MaxDelay + 1) < Modulus

VARIABLES
  table,            \* m_table: per station its entry, here or not
  clock,            \* the time now, as a timestamp
  heard,            \* history: ticks since the last packet from the station itself
  newest,           \* history: age of the newest timestamp since the entry exists
  since             \* history: sequence numbers accepted since the entry exists

vars == <<table, clock, heard, newest, since>>

-----------------------------------------------------------------------------
(***************************************************************************)
(* Timestamps, Modulus - 1 being the greatest value of the type.           *)
(***************************************************************************)
Half == (Modulus - 1) \div 2

is_greater(l, r) == (l > r /\ l - r <= Half) \/ (r > l /\ r - l > Half)
PlainBefore(l, r) == l < r                                 \* seeded fault
Before(l, r) == ~is_greater(l, r) /\ l # r

-----------------------------------------------------------------------------
(***************************************************************************)
(* Entries.  left: ticks to the expiry, expired below 0; pv: the timestamp *)
(* of the position vector, if there is one; nbr: ticks to the end of the   *)
(* neighbour flag; dpl: the duplicate packet list.                         *)
(***************************************************************************)
Forever == 1000000                                   \* time_point::max()
ASSUME ForeverAssumption == NbrExpiry < Forever

Absent == [here |-> FALSE, left |-> 0, pv |-> {}, nbr |-> 0, dpl |-> <<>>]
Created == [here |-> TRUE, left |-> Life, pv |-> {}, nbr |-> 0, dpl |-> <<>>]

is_expired(e) == e.left < 0
has_value(e) == e.here /\ ~is_expired(e)
\* ... of an expired entry, too, until it is dropped.
is_neighbour(e) == e.nbr > 0

drop_expired(e) == IF e.here /\ is_expired(e) THEN Absent ELSE e

refresh(e) == IF e.here THEN [e EXCEPT !.left = Life] ELSE Created

get_value(e) ==
  IF ~e.here THEN Created ELSE IF is_expired(e) THEN [e EXCEPT !.left = Life] ELSE e

\* Does the position vector pass the checks of update_position_vector?
Passes(e, ts, valid) == valid /\ \A t \in e.pv : Before(t, ts)

update_position_vector(e, ts, valid) ==
  IF Passes(e, ts, valid) THEN [e EXCEPT !.pv = {ts}] ELSE e

update(e, ts, valid) ==
  IF has_value(e) /\ e.pv # {} /\ ~Passes(e, ts, valid) THEN e
  ELSE update_position_vector(refresh(e), ts, valid)

set_neighbour(e, flag) ==
  [e EXCEPT !.nbr = IF ~flag THEN 0 ELSE IF NbrExpiry > 0 THEN NbrExpiry ELSE Forever]

\* DuplicatePacketList::check on a circular buffer of DPLLength elements.
ShortList(dpl, sn) ==                                      \* seeded fault
  IF Len(dpl) + 1 < DPLLength THEN Append(dpl, sn) ELSE <<sn>>
PushBack(dpl, sn) == IF Len(dpl) < DPLLength THEN Append(dpl, sn) ELSE Append(Tail(dpl), sn)

-----------------------------------------------------------------------------
Init ==
  /\ table = [s \in Stations |-> Absent]
  /\ clock = 0
  /\ heard = [s \in Stations |-> Forever]
  /\ newest = [s \in Stations |-> {}]
  /\ since = [s \in Stations |-> <<>>]

Stamp(delay) == (clock - delay) % Modulus
Cleaned == [s \in Stations |-> drop_expired(table[s])]

\* What is known of the timestamps after one of the given age from s.
Seen(s, age, valid) ==
  [r \in Stations |->
     LET old == IF Cleaned[r].here THEN newest[r] ELSE {}
     IN  IF r = s /\ valid /\ \A a \in old : age < a THEN {age} ELSE old]

Forgotten == [s \in Stations |-> IF Cleaned[s].here THEN since[s] ELSE <<>>]

(***************************************************************************)
(* A beacon or a single-hop broadcast of s, stamped delay ticks ago.       *)
(***************************************************************************)
SingleHopPacket(s, delay, valid) ==
  /\ table' = [Cleaned EXCEPT ![s] = set_neighbour(update(@, Stamp(delay), valid), TRUE)]
  /\ heard' = [heard EXCEPT ![s] = 0]
  /\ newest' = Seen(s, delay, valid)
  /\ since' = Forgotten
  /\ UNCHANGED clock

(***************************************************************************)
(* A GeoBroadcast that s sent, from whichever forwarder.  Where duplicate  *)
(* packets are detected (simple and greedy forwarding), this creates the   *)
(* entry, and a duplicate leaves it at that.  An entry that did not exist  *)
(* before is not one of a neighbour.                                       *)
(***************************************************************************)
FlagKept(e, existed) == IF existed THEN e ELSE set_neighbour(e, TRUE)   \* seeded fault
NewIsNoNeighbour(e, existed) == IF existed THEN e ELSE set_neighbour(e, FALSE)

Accept(s, e, delay, valid) ==
  /\ table' = [Cleaned EXCEPT ![s] =
                 NewIsNoNeighbour(update(e, Stamp(delay), valid), has_value(Cleaned[s]))]
  /\ newest' = Seen(s, delay, valid)
  /\ UNCHANGED <<clock, heard>>

\* detect_duplicate_packet finds the number in the list.
Duplicate(s, sn) ==
  LET e == get_value(Cleaned[s]) IN
  /\ sn \in ToSet(e.dpl)
  /\ table' = [Cleaned EXCEPT ![s] = e]
  /\ newest' = Seen(s, 0, FALSE)
  /\ since' = Forgotten
  /\ UNCHANGED <<clock, heard>>

\* detect_duplicate_packet has not seen the number and lists it.
FirstCopy(s, delay, valid, sn) ==
  LET e == get_value(Cleaned[s]) IN
  /\ sn \notin ToSet(e.dpl)
  /\ Len(Forgotten[s]) < MaxAccepted
  /\ Accept(s, [e EXCEPT !.dpl = PushBack(@, sn)], delay, valid)
  /\ since' = [Forgotten EXCEPT ![s] = Append(@, sn)]

\* Contention based and advanced forwarding do without the list.
Undetected(s, delay, valid) ==
  /\ Accept(s, Cleaned[s], delay, valid)
  /\ since' = Forgotten

Tick ==
  /\ clock' = (clock + 1) % Modulus
  /\ table' = [s \in Stations |->
                 [table[s] EXCEPT !.left = IF table[s].here /\ @ >= 0 THEN @ - 1 ELSE @,
                                  !.nbr = IF @ = Forever \/ @ = 0 THEN @ ELSE @ - 1]]
  /\ heard' = [s \in Stations |-> IF heard[s] > Life + NbrExpiry THEN Forever ELSE heard[s] + 1]
  /\ newest' = [s \in Stations |-> IF table[s].here /\ table[s].left >= 0
                                   THEN {a + 1 : a \in newest[s]} ELSE newest[s]]
  /\ UNCHANGED since

Next ==
  \/ \E s \in Stations, d \in 0..MaxDelay, v \in BOOLEAN : SingleHopPacket(s, d, v)
  \/ \E s \in Stations, sn \in SNs : Duplicate(s, sn)
  \/ \E s \in Stations, d \in 0..MaxDelay, v \in BOOLEAN, sn \in SNs : FirstCopy(s, d, v, sn)
  \/ \E s \in Stations, d \in 0..MaxDelay, v \in BOOLEAN : Undetected(s, d, v)
  \/ Tick

Spec == Init /\ [][Next]_vars

-----------------------------------------------------------------------------
TypeOK ==
  /\ \A s \in Stations :
       /\ table[s].here \in BOOLEAN /\ table[s].left \in -1..Life
       /\ table[s].pv \subseteq 0..(Modulus - 1) /\ Cardinality(table[s].pv) <= 1
       /\ table[s].nbr \in 0..NbrExpiry \cup {Forever}
       /\ Len(table[s].dpl) <= DPLLength
  /\ clock \in 0..(Modulus - 1)

(***************************************************************************)
(* Late packets, wrapped timestamps and positions that are not valid do    *)
(* not matter: an entry that has not expired holds the newest position     *)
(* received since it was created.                                          *)
(***************************************************************************)
NewestPositionKept ==
  \A s \in Stations : has_value(table[s]) => table[s].pv = {Stamp(a) : a \in newest[s]}

(***************************************************************************)
(* A neighbour has been heard itself, not through a forwarder, within the  *)
(* time of its flag.                                                       *)
(***************************************************************************)
NeighbourIsNear ==
  NbrExpiry > 0 => \A s \in Stations : is_neighbour(table[s]) => heard[s] < NbrExpiry

(***************************************************************************)
(* While its entry lives, a source's packet is accepted again only after   *)
(* DPLLength other ones.                                                   *)
(***************************************************************************)
DuplicateWindow ==
  \A s \in Stations : \A i, j \in DOMAIN since[s] :
    i < j /\ since[s][i] = since[s][j] =>
      Cardinality({since[s][k] : k \in (i + 1)..(j - 1)}) >= DPLLength

(***************************************************************************)
(* An entry outlives its newest position by no more than the time a packet *)
(* may be under way: nothing refreshes it but newer positions.             *)
(***************************************************************************)
PositionIsRecent ==
  \A s \in Stations : has_value(table[s]) => \A a \in newest[s] : a <= Life + MaxDelay

(***************************************************************************)
(* Together, with the types of the table: a copy is recognised while it is *)
(* among the last DPLLength packets of an entry that lives on, and the     *)
(* position vector that is kept is recent.                                 *)
(***************************************************************************)
TableIsSound == TypeOK /\ DuplicateWindow /\ PositionIsRecent
=============================================================================
