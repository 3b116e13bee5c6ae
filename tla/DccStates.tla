----------------------------- MODULE DccStates ------------------------------
(***************************************************************************)
(* The state machines that turn measurements of the channel load (in       *)
(* percent) into transmission intervals: the fully meshed one, which looks *)
(* back over a short window to ramp up and over a long one to cool down,   *)
(* and the gradual one, which moves one state per measurement.  Both get   *)
(* the same measurements here.                                             *)
(***************************************************************************)
EXTENDS Integers, Sequences, SequencesExt, FiniteSets, FiniteSetsExt

CONSTANTS
  Loads,            \* the channel loads that are measured
  N_samples_up,     \* samples in the window for ramping up
  N_samples_down,   \* samples in the window for cooling down
  Limits            \* lower limits of the gradual state machine, ascending

DccStatesAssumption ==
  /\ Loads \subseteq 0..100
  /\ N_samples_up \in Nat \ {0} /\ N_samples_down \in Nat \ {0} /\ N_samples_up < N_samples_down
  /\ Limits \in Seq(Nat) /\ Limits # <<>>
  /\ \A i, j \in DOMAIN Limits : i < j => Limits[i] < Limits[j]

VARIABLES
  loads,            \* m_channel_loads, latest first
  state,            \* "relaxed", "active" or "restrictive"
  substate,         \* m_substate of the active state
  current,          \* index of the gradual machine's state
  odd               \* history: has there been an odd number of measurements?

vars == <<loads, state, substate, current, odd>>

-----------------------------------------------------------------------------
(***************************************************************************)
(* FullyMeshedStateMachine.                                                *)
(***************************************************************************)
NDL_minChannelLoad == 19
NDL_maxChannelLoad == 59
channel_loads == <<27, 35, 43, 51, 59>>

Recent(w, n) == {w[i] : i \in 1..(IF Len(w) < n THEN Len(w) ELSE n)}
min_channel_load(w) == IF w = <<>> THEN 0 ELSE Min(Recent(w, N_samples_up))
MaxOfUp(w) == Max(Recent(w, N_samples_up) \cup {0})          \* seeded fault
max_channel_load(w) == Max(Recent(w, N_samples_down) \cup {0})

upper_bound(load) == Cardinality({i \in DOMAIN channel_loads : channel_loads[i] <= load})
ActiveUpdate(min, max) == Min({Max({upper_bound(min), upper_bound(max)}), Len(channel_loads) - 1})

transmission_interval(st, sub) ==
  CASE st = "relaxed" -> 60 [] st = "active" -> <<100, 180, 260, 340, 420>>[sub + 1] [] st = "restrictive" -> 460

StaysRestrictive(min, max) ==                                \* seeded fault
  CASE state = "relaxed"     -> IF min >= NDL_minChannelLoad THEN "active" ELSE "relaxed"
    [] state = "restrictive" -> IF max < NDL_minChannelLoad THEN "active" ELSE "restrictive"
    [] state = "active"      -> IF max < NDL_minChannelLoad THEN "relaxed"
                                ELSE IF min >= NDL_maxChannelLoad THEN "restrictive" ELSE "active"
Successor(min, max) ==
  CASE state = "relaxed"     -> IF min >= NDL_minChannelLoad THEN "active" ELSE "relaxed"
    [] state = "restrictive" -> IF max < NDL_maxChannelLoad THEN "active" ELSE "restrictive"
    [] state = "active"      -> IF max < NDL_minChannelLoad THEN "relaxed"
                                ELSE IF min >= NDL_maxChannelLoad THEN "restrictive" ELSE "active"

FullyMeshedUpdate(load) ==
  LET w   == SubSeq(<<load>> \o loads, 1, Min({Len(loads) + 1, N_samples_down}))
      min == min_channel_load(w)
      max == max_channel_load(w)
  IN  /\ loads' = w /\ state' = Successor(min, max)
      /\ substate' = IF state' = "active" THEN ActiveUpdate(min, max) ELSE substate

-----------------------------------------------------------------------------
(***************************************************************************)
(* GradualStateMachine.                                                    *)
(***************************************************************************)
GradualUpdate(load) ==
  IF load < Limits[current] THEN IF current > 1 THEN current - 1 ELSE current
  ELSE IF current < Len(Limits) /\ load >= Limits[current + 1] THEN current + 1 ELSE current

-----------------------------------------------------------------------------
Init == loads = <<>> /\ state = "relaxed" /\ substate = 0 /\ current = 1 /\ odd = FALSE

update(load) == FullyMeshedUpdate(load) /\ current' = GradualUpdate(load) /\ odd' = ~odd

Next == \E load \in Loads : update(load)
Spec == Init /\ [][Next]_vars
\* Measurements go on; odd tells one from the next even if it changes nothing.
FairSpec == Spec /\ WF_vars(Next)

-----------------------------------------------------------------------------
interval == transmission_interval(state, substate)
TypeOK ==
  /\ loads \in BoundedSeq(Loads, N_samples_down) /\ state \in {"relaxed", "active", "restrictive"}
  /\ odd \in BOOLEAN /\ substate \in 0..4 /\ current \in DOMAIN Limits

\* The load at which a state begins, and the interval for a constant load.
Begin(st, sub) == CASE st = "relaxed" -> 0 [] st = "restrictive" -> 59 [] st = "active" -> <<19, 27, 35, 43, 51>>[sub + 1]
Demanded(load) ==
  CASE load < 19  -> 60
    [] load >= 59 -> 460
    [] OTHER      -> transmission_interval("active", Cardinality({l \in {27, 35, 43, 51} : l <= load}))

(***************************************************************************)
(* "State transitions are deferred internally for ramping up and cooling   *)
(* down over time": the interval gets shorter only when every load         *)
(* measured over the whole long window is below where the old state        *)
(* begins.                                                                 *)
(***************************************************************************)
ShorterOnlyAfterQuiet ==
  [][transmission_interval(state', substate') < interval => \A i \in DOMAIN loads' : loads'[i] < Begin(state, substate)]_vars

(***************************************************************************)
(* A load that lasts is answered: once the short window and one further    *)
(* measurement (the relaxed state can only be left for the active one) are *)
(* above a load, the interval is at least the one for that load.           *)
(***************************************************************************)
LoadIsAnswered == Len(loads) > N_samples_up => interval >= Demanded(Min(Recent(loads, N_samples_up + 1)))

(***************************************************************************)
(* The gradual machine moves towards the state of the load it is told      *)
(* about by one state, and stays when it is there: it never overshoots.    *)
(***************************************************************************)
Target(load) == Max({i \in DOMAIN Limits : Limits[i] <= load} \cup {1})
OneStepTowards ==
  [][loads' # <<>> => LET t == Target(Head(loads')) IN
     current' = IF current < t THEN current + 1 ELSE IF current > t THEN current - 1 ELSE current]_vars

(***************************************************************************)
(* Under a constant load both machines settle at the interval the load     *)
(* demands, whatever was measured before.                                  *)
(***************************************************************************)
Constantly(load) == loads # <<>> /\ Head(loads) = load
Settles ==
  \A load \in Loads : <>[]Constantly(load) => <>[](interval = Demanded(load) /\ current = Target(load))
=============================================================================
