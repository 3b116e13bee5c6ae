------------------------------ MODULE Lifetime ------------------------------
(***************************************************************************)
(* The lifetime of a GeoNetworking packet (geonet/lifetime.cpp): one byte,  *)
(* a multiplier of six bits over a base of two, and what a stay in a       *)
(* packet buffer does to it (geonet/pending_packet.hpp, reduce_lifetime).  *)
(* Time is in whole milliseconds.  The behaviour is that of a packet that  *)
(* goes from buffer to buffer.                                             *)
(***************************************************************************)
EXTENDS Integers

CONSTANT Stays          \* the queueing times examined, in milliseconds

ASSUME StaysAssumption == Stays \subseteq Int

VARIABLES raw,          \* the byte in the basic header
          stay          \* the queueing time of the last buffer

vars == <<raw, stay>>

Byte == 0..255
Zero == 0                                \* Lifetime::zero()

Unit(base) ==
  IF base = 0 THEN 50 ELSE IF base = 1 THEN 1000 ELSE IF base = 2 THEN 10000 ELSE 100000

\* raw = multiplier << 2 | base; BitNumber masks the multiplier to six bits.
Set(base, multiplier) == (multiplier % 64) * 4 + base

Decode(r) == (r \div 4) * Unit(r % 4)

BaseEarly(ms) ==                                       \* seeded fault
  IF ms >= 630000 THEN 3 ELSE IF ms >= 6300 THEN 2 ELSE IF ms >= 3150 THEN 1 ELSE 0
BaseFor(ms) ==
  IF ms >= 630000 THEN 3 ELSE IF ms >= 63000 THEN 2 ELSE IF ms >= 3150 THEN 1 ELSE 0

(***************************************************************************)
(* std::lround of ms divided by the base.  The quotient by 0.050 is not    *)
(* exact in binary, so that a tie between two multiples of 50 ms goes      *)
(* either way; the ties of the other bases are exact and go up.            *)
(***************************************************************************)
RoundUp(ms, base) == {(ms + Unit(base) - 1) \div Unit(base)}   \* seeded fault
Round(ms, base) ==
  {(ms + Unit(base) \div 2) \div Unit(base)}
    \cup (IF base = 0 /\ ms % 50 = 25 THEN {ms \div 50} ELSE {})

\* The bytes Lifetime::encode may store.
Encode(ms) == {Set(BaseFor(ms), m) : m \in Round(ms, BaseFor(ms))}

(***************************************************************************)
(* PendingPacket::reduce_lifetime: the bytes after a stay of q ms.         *)
(***************************************************************************)
ReduceLifetime(r, q) ==
  IF q <= 0 THEN {r}
  ELSE IF q < Decode(r) THEN Encode(Decode(r) - q)
  ELSE {Zero}

-----------------------------------------------------------------------------
Init == raw \in Byte /\ stay = 0

\* A packet that is still alive is buffered once more.
Buffered ==
  /\ Decode(raw) > 0
  /\ stay' \in Stays
  /\ raw' \in ReduceLifetime(raw, stay')

Next == Buffered

Spec == Init /\ [][Next]_vars

-----------------------------------------------------------------------------
(***************************************************************************)
(* The byte is one of 256.                                                 *)
(***************************************************************************)
TypeOK == raw \in Byte

(***************************************************************************)
(* Rounding never gives lifetime back: however the remaining time is       *)
(* rounded into the coarser steps, no stay makes a packet live longer.     *)
(***************************************************************************)
LifetimeNeverGrows == [][Decode(raw') <= Decode(raw)]_vars

(***************************************************************************)
(* What a stay takes away is the queueing time up to half a step of the    *)
(* base the rest is stored in; a packet that stayed for its lifetime or    *)
(* longer has none left.                                                   *)
(***************************************************************************)
AgesWithinRounding ==
  [][LET rest == Decode(raw) - stay'
         half == Unit(raw' % 4) \div 2
     IN  stay' > 0 =>
           IF rest > 0 THEN Decode(raw') - rest <= half /\ rest - Decode(raw') <= half
           ELSE Decode(raw') = 0]_vars
=============================================================================
