---------------------------- MODULE StationProofs ---------------------------
(***************************************************************************)
(* What is around the routers.  First the arithmetic of packet lifetimes,  *)
(* for all 256 bytes and for every queueing time, and that of check(), for *)
(* every heading and every bearing.  Then the station of MCStation: it     *)
(* does what its components do, so that what is proved about each of them, *)
(* for every value of its constants, holds of the station.                 *)
(***************************************************************************)
EXTENDS MCStation, TLAPS

-----------------------------------------------------------------------------
Bases == 0..3

(***************************************************************************)
(* The four units of Lifetime::decode.                                     *)
(***************************************************************************)
LEMMA Units ==
  /\ Unit(0) = 50 /\ Unit(1) = 1000 /\ Unit(2) = 10000 /\ Unit(3) = 100000
  /\ \A b \in Bases : b = 0 \/ b = 1 \/ b = 2 \/ b = 3
  BY SMT DEF Unit, Bases

(***************************************************************************)
(* A byte composed by Lifetime::set is taken apart again by decode, as     *)
(* long as the multiplier fits its six bits.                               *)
(***************************************************************************)
LEMMA SetDecode ==
  ASSUME NEW b \in Bases, NEW m \in 0..63
  PROVE  /\ Set(b, m) \in Byte
         /\ Set(b, m) % 4 = b
         /\ Decode(Set(b, m)) = m * Unit(b)
  <1>1. Set(b, m) = m * 4 + b
    BY SMT DEF Set, Bases
  <1>2. Set(b, m) % 4 = b /\ Set(b, m) \div 4 = m /\ Set(b, m) \in Byte
    BY SMT, <1>1 DEF Bases, Byte
  <1> QED
    BY SMT, <1>2 DEF Decode

(***************************************************************************)
(* encode rounds to the nearest multiple of the base it selects, and the   *)
(* multiplier fits for every duration below the largest lifetime.          *)
(***************************************************************************)
LEMMA RoundNearest ==
  ASSUME NEW ms \in Int, 0 < ms, ms < 6300000, NEW m \in Round(ms, BaseFor(ms))
  PROVE  /\ BaseFor(ms) \in Bases
         /\ m \in 0..63
         /\ 2 * (m * Unit(BaseFor(ms)) - ms) <= Unit(BaseFor(ms))
         /\ 2 * (ms - m * Unit(BaseFor(ms))) <= Unit(BaseFor(ms))
  <1>1. CASE ms >= 630000
    <2>1. BaseFor(ms) = 3
      BY SMT, <1>1 DEF BaseFor
    <2>2. m = (ms + 50000) \div 100000
      BY SMT, <2>1, Units DEF Round
    <2> QED
      BY SMT, <1>1, <2>1, <2>2, Units DEF Bases
  <1>2. CASE ms >= 63000 /\ ms < 630000
    <2>1. BaseFor(ms) = 2
      BY SMT, <1>2 DEF BaseFor
    <2>2. m = (ms + 5000) \div 10000
      BY SMT, <2>1, Units DEF Round
    <2> QED
      BY SMT, <1>2, <2>1, <2>2, Units DEF Bases
  <1>3. CASE ms >= 3150 /\ ms < 63000
    <2>1. BaseFor(ms) = 1
      BY SMT, <1>3 DEF BaseFor
    <2>2. m = (ms + 500) \div 1000
      BY SMT, <2>1, Units DEF Round
    <2> QED
      BY SMT, <1>3, <2>1, <2>2, Units DEF Bases
  <1>4. CASE ms < 3150
    <2>1. BaseFor(ms) = 0
      BY SMT, <1>4 DEF BaseFor
    <2>2. m = (ms + 25) \div 50 \/ (ms % 50 = 25 /\ m = ms \div 50)
      BY SMT, <2>1, Units DEF Round
    <2> QED
      BY SMT, <1>4, <2>1, <2>2, Units DEF Bases
  <1> QED
    BY SMT, <1>1, <1>2, <1>3, <1>4

(***************************************************************************)
(* What a byte stands for: at most 63 units of its base.                   *)
(***************************************************************************)
LEMMA DecodeRange ==
  ASSUME NEW r \in Byte
  PROVE  /\ r % 4 \in Bases
         /\ r \div 4 \in 0..63
         /\ Decode(r) = (r \div 4) * Unit(r % 4)
         /\ Decode(r) \in Nat /\ Decode(r) <= 6300000
  <1>1. r % 4 \in Bases /\ r \div 4 \in 0..63
    BY SMT DEF Byte, Bases
  <1>2. Decode(r) = (r \div 4) * Unit(r % 4)
    BY SMT DEF Decode
  <1> QED
    BY SMT, <1>1, <1>2, Units

(***************************************************************************)
(* The rest of a lifetime, rounded, is not longer than the lifetime: the   *)
(* base of the rest is never coarser than the base of the lifetime, so     *)
(* that the lifetime itself is one of the multiples rounded to.            *)
(***************************************************************************)
LEMMA RoundNotAbove ==
  ASSUME NEW r \in Byte, NEW ms \in Int, 0 < ms, ms < 6300000, ms < Decode(r),
         NEW m \in Round(ms, BaseFor(ms))
  PROVE  m * Unit(BaseFor(ms)) <= Decode(r)
  <1> DEFINE k == r \div 4
             U == Unit(BaseFor(ms))
  <1>1. /\ r % 4 \in Bases /\ k \in 0..63 /\ Decode(r) = k * Unit(r % 4)
        /\ Decode(r) \in Nat /\ Decode(r) <= 6300000
    BY SMT, DecodeRange
  <1>2. BaseFor(ms) \in Bases /\ m \in 0..63 /\ 2 * (m * U - ms) <= U
    BY SMT, RoundNearest
  <1>3. BaseFor(ms) <= r % 4
    BY SMT, <1>1, Units DEF BaseFor, Bases
  <1>4. CASE BaseFor(ms) = 0
    BY SMT, <1>1, <1>2, <1>4, Units
  <1>5. CASE BaseFor(ms) = 1
    BY SMT, <1>1, <1>2, <1>3, <1>5, Units
  <1>6. CASE BaseFor(ms) = 2
    BY SMT, <1>1, <1>2, <1>3, <1>6, Units
  <1>7. CASE BaseFor(ms) = 3
    BY SMT, <1>1, <1>2, <1>3, <1>7, Units
  <1> QED
    BY SMT, <1>2, <1>4, <1>5, <1>6, <1>7 DEF Bases

(***************************************************************************)
(* One stay in a buffer: the byte stays a byte, the lifetime does not      *)
(* grow, and what is lost is the queueing time up to half a step.          *)
(***************************************************************************)
LEMMA OneStay ==
  ASSUME NEW r \in Byte, NEW q \in Int, NEW s \in ReduceLifetime(r, q)
  PROVE  /\ s \in Byte
         /\ Decode(s) <= Decode(r)
         /\ q > 0 /\ Decode(r) - q > 0 =>
              /\ Decode(s) - (Decode(r) - q) <= Unit(s % 4) \div 2
              /\ (Decode(r) - q) - Decode(s) <= Unit(s % 4) \div 2
         /\ q > 0 /\ ~(Decode(r) - q > 0) => Decode(s) = 0
  <1>1. Decode(r) \in Nat /\ Decode(r) <= 6300000
    BY SMT, DecodeRange
  <1>2. CASE q <= 0
    <2>1. s = r
      BY SMT, <1>2 DEF ReduceLifetime
    <2> QED
      BY SMT, <1>1, <1>2, <2>1
  <1>3. CASE q > 0 /\ q < Decode(r)
    <2> DEFINE ms == Decode(r) - q
    <2>1. ms \in Int /\ 0 < ms /\ ms < 6300000 /\ ms < Decode(r)
      BY SMT, <1>1, <1>3
    <2>2. PICK m \in Round(ms, BaseFor(ms)) : s = Set(BaseFor(ms), m)
      BY SMT, <1>1, <1>3 DEF ReduceLifetime, Encode
    <2>3. /\ BaseFor(ms) \in Bases /\ m \in 0..63
          /\ 2 * (m * Unit(BaseFor(ms)) - ms) <= Unit(BaseFor(ms))
          /\ 2 * (ms - m * Unit(BaseFor(ms))) <= Unit(BaseFor(ms))
      BY SMT, <2>1, RoundNearest
    <2>4. s \in Byte /\ s % 4 = BaseFor(ms) /\ Decode(s) = m * Unit(BaseFor(ms))
      BY SMT, <2>2, <2>3, SetDecode
    <2>5. Decode(s) <= Decode(r)
      BY SMT, <2>1, <2>4, RoundNotAbove
    <2>6. Decode(s) - ms <= Unit(s % 4) \div 2 /\ ms - Decode(s) <= Unit(s % 4) \div 2
      <3> HIDE DEF ms
      <3>1. ms \in Int /\ m \in Int
        BY SMT, <2>1, <2>3
      <3> QED
        BY SMT, <2>3, <2>4, <3>1, Units
    <2> QED
      BY SMT, <1>1, <1>3, <2>1, <2>4, <2>5, <2>6
  <1>4. CASE q > 0 /\ ~(q < Decode(r))
    <2>1. s = 0
      BY SMT, <1>1, <1>4 DEF ReduceLifetime, Zero
    <2>2. Decode(s) = 0 /\ s \in Byte
      BY SMT, <2>1, Units DEF Decode, Byte
    <2> QED
      BY SMT, <1>1, <1>4, <2>2
  <1> QED
    BY SMT, <1>2, <1>3, <1>4

(***************************************************************************)
(* The header always holds a byte.                                         *)
(***************************************************************************)
THEOREM LifetimeType == Spec => []TypeOK
  <1>1. Init => TypeOK
    BY SMT DEF Init, TypeOK
  <1>2. TypeOK /\ [Next]_vars => TypeOK'
    <2> SUFFICES ASSUME TypeOK, [Next]_vars PROVE TypeOK'
      OBVIOUS
    <2>1. CASE Buffered
      BY SMT, <2>1, StaysAssumption, OneStay DEF Buffered, TypeOK
    <2>2. CASE UNCHANGED vars
      BY SMT, <2>2 DEF vars, TypeOK
    <2> QED
      BY SMT, <2>1, <2>2 DEF Next
  <1> QED
    BY <1>1, <1>2, PTL DEF Spec

(***************************************************************************)
(* No chain of buffers ever makes a packet live longer.                    *)
(***************************************************************************)
THEOREM NeverGrows == Spec => LifetimeNeverGrows
  <1>1. TypeOK /\ [Next]_vars => [Decode(raw') <= Decode(raw)]_vars
    <2> SUFFICES ASSUME TypeOK, Buffered PROVE Decode(raw') <= Decode(raw)
      BY DEF Next
    <2>1. raw \in Byte /\ stay' \in Int /\ raw' \in ReduceLifetime(raw, stay')
      BY SMT, StaysAssumption DEF TypeOK, Buffered
    <2> QED
      BY SMT, <2>1, OneStay
  <1> QED
    BY <1>1, LifetimeType, PTL DEF Spec, LifetimeNeverGrows

(***************************************************************************)
(* Every stay is charged to the packet up to half a step of its base.      *)
(***************************************************************************)
THEOREM AgesCorrectly == Spec => AgesWithinRounding
  <1> DEFINE A == LET rest == Decode(raw) - stay'
                      half == Unit(raw' % 4) \div 2
                  IN  stay' > 0 =>
                        IF rest > 0
                        THEN Decode(raw') - rest <= half /\ rest - Decode(raw') <= half
                        ELSE Decode(raw') = 0
  <1>1. TypeOK /\ [Next]_vars => [A]_vars
    <2> SUFFICES ASSUME TypeOK, Buffered PROVE A
      BY SMT DEF Next
    <2>1. raw \in Byte /\ stay' \in Int /\ raw' \in ReduceLifetime(raw, stay')
      BY SMT, StaysAssumption DEF TypeOK, Buffered
    <2> QED
      BY SMT, <2>1, OneStay
  <1>2. [][A]_vars => AgesWithinRounding
    BY SMT DEF AgesWithinRounding
  <1> HIDE DEF A
  <1> QED
    BY <1>1, <1>2, LifetimeType, PTL DEF Spec

-----------------------------------------------------------------------------
(***************************************************************************)
(* check() accepts a direction only if it is opposite to the heading, up   *)
(* to the tolerance, on the circle.                                        *)
(***************************************************************************)
LEMMA SoundArithmetic ==
  ASSUME NEW h \in Check!Degrees, NEW b \in Check!Degrees, Check!check(h, b)
  PROVE  Check!TrulyBehind(h, b)
  BY DEF Check!check, Check!InWindow, Check!Normalise, Check!Tolerance, Check!TrulyBehind, Check!Degrees

(***************************************************************************)
(* For headings below 170, check() accepts every such direction: the       *)
(* relative bearing stays above -170, where one correction is enough.      *)
(***************************************************************************)
LEMMA CompleteArithmetic ==
  ASSUME NEW h \in Check!Degrees, NEW b \in Check!Degrees,
         h < 180 - Check!Tolerance, Check!TrulyBehind(h, b)
  PROVE  Check!check(h, b)
  BY DEF Check!check, Check!InWindow, Check!Normalise, Check!Tolerance, Check!TrulyBehind, Check!Degrees

\* The result is that of check() for the inputs of the call.
Answered ==
  /\ heading \in Check!Degrees
  /\ bearing \in Check!Degrees
  /\ called \in BOOLEAN
  /\ res \in BOOLEAN
  /\ res <=> (called /\ Check!check(heading, bearing))

(***************************************************************************)
(* The result variable always holds what check() returned.                 *)
(***************************************************************************)
LEMMA AnsweredInvariant == Check!Spec => []Answered
  <1>1. Check!Init => Answered
    BY DEF Check!Init, Answered, Check!Degrees
  <1>2. Answered /\ [Check!Next]_(Check!vars) => Answered'
    <2> SUFFICES ASSUME Answered, [Check!Next]_(Check!vars) PROVE Answered'
      OBVIOUS
    <2>1. CASE Check!Call
      BY <2>1 DEF Answered, Check!Call, Check!check, Check!InWindow
    <2>2. CASE UNCHANGED Check!vars
      BY <2>2 DEF Answered, Check!vars, Check!check
    <2> QED
      BY <2>1, <2>2 DEF Check!Next
  <1> QED
    BY <1>1, <1>2, PTL DEF Check!Spec

(***************************************************************************)
(* check() never takes a car for one behind that is not.                   *)
(***************************************************************************)
THEOREM CheckSound == Check!Spec => []Check!CheckIsSound
  <1>1. Answered => Check!CheckIsSound
    BY SoundArithmetic DEF Answered, Check!CheckIsSound
  <1> QED
    BY <1>1, AnsweredInvariant, PTL

(***************************************************************************)
(* check() finds every car behind for headings below 170.                  *)
(***************************************************************************)
THEOREM CheckComplete == Check!Spec => []Check!CheckIsComplete
  <1>1. Answered => Check!CheckIsComplete
    BY CompleteArithmetic DEF Answered, Check!CheckIsComplete
  <1> QED
    BY <1>1, AnsweredInvariant, PTL

-----------------------------------------------------------------------------
(***************************************************************************)
(* The station.  A component that is not the one of the scenario rests, so *)
(* that every behaviour of the station is one of each component.           *)
(***************************************************************************)
LEMMA Constants ==
  /\ Dcc!FlowControlAssumption /\ Dcc!States!DccStatesAssumption
  /\ Certs!CertificatesAssumption /\ Page!DashboardAssumption
  /\ Loop!RuntimeAssumption /\ FixLoop!RuntimeAssumption
  BY StationAssumption

LEMMA FlowRuns == StationSpec => Dcc!Spec
  <1>1. StationInit => Dcc!Init
    BY DEF StationInit
  <1>2. [StationNext]_allVars => [Dcc!Next]_(Dcc!vars)
    BY DEF StationNext, allVars, flowVars, Dcc!vars
  <1> QED
    BY <1>1, <1>2, PTL DEF StationSpec, Dcc!Spec

LEMMA DccRuns == StationSpec => Dcc!States!Spec
  <1>1. StationInit => Dcc!States!Init
    BY DEF StationInit
  <1>2. [StationNext]_allVars => [Dcc!States!Next]_(Dcc!States!vars)
    BY DEF StationNext, allVars, dccVars, Dcc!States!vars
  <1> QED
    BY <1>1, <1>2, PTL DEF StationSpec, Dcc!States!Spec

LEMMA CertsRun == StationSpec => Certs!Spec
  <1>1. StationInit => Certs!Init
    BY DEF StationInit
  <1>2. [StationNext]_allVars => [Certs!Next]_(Certs!vars)
    BY DEF StationNext, allVars, certVars, Certs!vars
  <1> QED
    BY <1>1, <1>2, PTL DEF StationSpec, Certs!Spec

LEMMA PageRuns == StationSpec => Page!Spec
  <1>1. StationInit => Page!Init
    BY DEF StationInit
  <1>2. [StationNext]_allVars => [Page!Next]_(Page!vars)
    BY DEF StationNext, allVars, boardVars, Page!backend, Page!page, Page!vars
  <1> QED
    BY <1>1, <1>2, PTL DEF StationSpec, Page!Spec

LEMMA CheckRuns == StationSpec => Check!Spec
  <1>1. StationInit => Check!Init
    BY DEF StationInit, Check!Init, Check!Degrees
  <1>2. [StationNext]_allVars => [Check!Next]_(Check!vars)
    BY DEF StationNext, Returned, allVars, checkVars, Check!vars
  <1> QED
    BY <1>1, <1>2, PTL DEF StationSpec, Check!Spec

LEMMA PacketsRun == StationSpec => Spec
  <1>1. StationInit => Init
    BY DEF StationInit, Init, Byte
  <1>2. [StationNext]_allVars => [Next]_vars
    BY DEF StationNext, Outlived, allVars, packetVars, vars
  <1> QED
    BY <1>1, <1>2, PTL DEF StationSpec, Spec

(***************************************************************************)
(* The two event loops share their variables, so that each of them runs in *)
(* its own scenario, which never changes.                                  *)
(***************************************************************************)
LEMMA Scenarios ==
  ASSUME [StationNext]_allVars
  PROVE  /\ scenario = "loop" <=> scenario' = "loop"
         /\ scenario = "fix" <=> scenario' = "fix"
  BY DEF StationNext, allVars

LEMMA LoopRuns == StationSpec /\ scenario = "loop" => Loop!Spec /\ [](scenario = "loop")
  <1>1. StationInit /\ scenario = "loop" => Loop!Init
    BY DEF StationInit
  <1>2. scenario = "loop" /\ [StationNext]_allVars => [Loop!Next]_(Loop!vars) /\ (scenario = "loop")'
    BY Scenarios DEF StationNext, allVars, runtimeVars, Loop!vars
  <1> QED
    BY <1>1, <1>2, PTL DEF StationSpec, Loop!Spec

LEMMA FixLoopRuns == StationSpec /\ scenario = "fix" => FixLoop!Spec /\ [](scenario = "fix")
  <1>1. StationInit /\ scenario = "fix" => FixLoop!Init
    BY DEF StationInit
  <1>2. scenario = "fix" /\ [StationNext]_allVars => [FixLoop!Next]_(FixLoop!vars) /\ (scenario = "fix")'
    BY Scenarios DEF StationNext, allVars, runtimeVars, FixLoop!vars
  <1> QED
    BY <1>1, <1>2, PTL DEF StationSpec, FixLoop!Spec

(***************************************************************************)
(* Runtime: the timers are kept while callbacks run inside each other, and *)
(* while the io thread waits its timer is set for the first callback or    *)
(* earlier.                                                                *)
(***************************************************************************)
THEOREM KeptTimers == StationSpec => []TimersAreKept
  <1>1. Loop!Prompt
    BY DEF Loop!Prompt
  <1>2. Loop!Spec => /\ [](Loop!TypeOK /\ Loop!OneBeacon /\ Loop!TimersKept /\ Loop!RepetitionWithinMaximum)
                     /\ []Loop!ArmedInTime
    BY <1>1, Constants, Loop!TimersHold, Loop!IoTimerArmed
  <1>3. FixLoop!Spec
          => [](FixLoop!TypeOK /\ FixLoop!OneBeacon /\ FixLoop!TimersKept /\ FixLoop!RepetitionWithinMaximum)
    BY Constants, FixLoop!TimersHold
  <1>4. ASSUME Loop!TypeOK /\ Loop!OneBeacon /\ Loop!TimersKept /\ Loop!RepetitionWithinMaximum,
               Loop!ArmedInTime, scenario = "loop"
        PROVE  TimersAreKept
    BY <1>4 DEF TimersAreKept
  <1>5. ASSUME FixLoop!TypeOK /\ FixLoop!OneBeacon /\ FixLoop!TimersKept /\ FixLoop!RepetitionWithinMaximum,
               scenario = "fix"
        PROVE  TimersAreKept
    BY <1>5 DEF TimersAreKept
  <1>6. ~(scenario = "loop") /\ ~(scenario = "fix") => TimersAreKept
    BY DEF TimersAreKept
  <1>7. StationSpec /\ ~(scenario = "loop") /\ ~(scenario = "fix") => [](~(scenario = "loop") /\ ~(scenario = "fix"))
    <2>1. ~(scenario = "loop") /\ ~(scenario = "fix") /\ [StationNext]_allVars
            => (~(scenario = "loop") /\ ~(scenario = "fix"))'
      BY Scenarios
    <2> QED
      BY <2>1, PTL DEF StationSpec
  <1> QED
    BY <1>2, <1>3, <1>4, <1>5, <1>6, <1>7, LoopRuns, FixLoopRuns, PTL

(***************************************************************************)
(* FlowControl: while a packet is queued a trigger is scheduled, and a     *)
(* packet is queued, transmitted once or dropped.                          *)
(***************************************************************************)
THEOREM NothingStuck == StationSpec => []NothingIsStuck
  <1>1. Dcc!Spec => []Dcc!TypeOK /\ []Dcc!NoStall /\ []Dcc!OnePlace
    BY Constants, Dcc!TypeHolds, Dcc!NeverStalls, Dcc!PlacesHold
  <1>2. Dcc!TypeOK /\ Dcc!NoStall /\ Dcc!OnePlace => NothingIsStuck
    BY DEF NothingIsStuck
  <1> QED
    BY <1>1, <1>2, FlowRuns, PTL

(***************************************************************************)
(* FlowControl: what is transmitted at once overtakes nothing of its       *)
(* profile, and nothing that is queued is transmitted after its lifetime.  *)
(***************************************************************************)
THEOREM OrderAndTime == StationSpec => InOrderAndInTime
  <1>1. Dcc!Spec => Dcc!InOrder /\ Dcc!NeverTooLate
    BY Constants, Dcc!OrderHolds, Dcc!LifetimesHold
  <1> QED
    BY <1>1, FlowRuns, PTL DEF InOrderAndInTime

(***************************************************************************)
(* DccStates: both state machines answer the measured channel load.        *)
(***************************************************************************)
THEOREM LoadsDecide == StationSpec => LoadDecides
  <1>1. Dcc!States!Spec => []Dcc!States!TypeOK /\ []Dcc!States!LoadIsAnswered /\ Dcc!States!ShorterOnlyAfterQuiet /\ Dcc!States!OneStepTowards
    BY Constants, Dcc!TypeCorrect, Dcc!LoadAnswered, Dcc!ShorterAfterQuiet, Dcc!StepsTowards
  <1>2. Dcc!States!TypeOK /\ Dcc!States!LoadIsAnswered => (scenario = "dcc" => Dcc!States!TypeOK /\ Dcc!States!LoadIsAnswered)
    OBVIOUS
  <1> QED
    BY <1>1, <1>2, DccRuns, PTL DEF LoadDecides

(***************************************************************************)
(* Certificates: a ticket is cached only if a message signed with it was   *)
(* accepted, however late messages arrive.                                 *)
(***************************************************************************)
THEOREM AcceptedIsCached == StationSpec => []CachedIsAccepted
  <1>1. Certs!Spec => []Certs!TypeOK /\ []Certs!CachedIsAccepted
    BY Constants, Certs!TypeCorrect, Certs!OnlyAcceptedCached
  <1>2. Certs!TypeOK /\ Certs!CachedIsAccepted => CachedIsAccepted
    BY DEF CachedIsAccepted
  <1> QED
    BY <1>1, <1>2, CertsRun, PTL

(***************************************************************************)
(* Bearing: check() takes a car for one behind only if it is, and finds    *)
(* every car behind for headings below 170.                                *)
(***************************************************************************)
THEOREM CheckRight == StationSpec => []CheckIsRight
  <1>1. Check!CheckIsSound /\ Check!CheckIsComplete => CheckIsRight
    BY DEF CheckIsRight
  <1> QED
    BY <1>1, CheckRuns, CheckSound, CheckComplete, PTL

(***************************************************************************)
(* Dashboard: the page shows positions and a leader that were in the       *)
(* database together, and never an answer older than what it showed when   *)
(* it asked.                                                               *)
(***************************************************************************)
THEOREM PageConsistent == StationSpec => PageIsConsistent
  <1>1. Page!Spec => Page!PageIsConsistent
    BY Constants, Page!PageConsistent
  <1> QED
    BY <1>1, PageRuns, PTL DEF PageIsConsistent

(***************************************************************************)
(* Lifetime: what is true of every packet is true of those of the station. *)
(***************************************************************************)
THEOREM PacketsAge == StationSpec => LifetimeNeverGrows /\ AgesWithinRounding
  BY PacketsRun, NeverGrows, AgesCorrectly, PTL
=============================================================================
