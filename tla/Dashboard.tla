----------------------------- MODULE Dashboard ------------------------------
(***************************************************************************)
(* The dashboard: the backend (web-app/backend/app/api.py) stores what the *)
(* simulator publishes under "cams" and "leaders" in InfluxDB and answers  *)
(* the polls of the map page (Maps_Page.js), which asks again every 200 ms *)
(* whether or not the last answer has come.                                *)
(*                                                                         *)
(* The handlers of the backend are coroutines without an await: the event  *)
(* loop runs one of them to its end before the next, but the eight queries *)
(* of getLocations are steps of their own here, for a restart to hit.      *)
(***************************************************************************)
EXTENDS Naturals, Sequences, SequencesExt, FiniteSets

CONSTANTS
  Stations,         \* the stations that send CAMs
  Queried,          \* the stations getLocations asks for, in this order
  Connections,      \* connections of the browser, one outstanding poll each
  MaxMessages,      \* bound on the messages published
  MaxRestarts       \* bound on the restarts of the backend

DashboardAssumption ==
  /\ Queried \in Seq(Stations) /\ MaxMessages \in Nat /\ MaxRestarts \in Nat

VARIABLES
  published,        \* number of messages published so far
  inbox,            \* messages on their way to the backend
  up,               \* is the backend running and subscribed?
  restarts,         \* number of restarts so far
  moments,          \* the contents of the database after each point written; the last is current
  job,              \* getLocations while it runs, at most one
  polls,            \* connection -> its poll
  markers           \* what the page shows

backend == <<inbox, up, restarts, moments, job>>
page == <<polls, markers>>
vars == <<published, backend, page>>

\* last point of each station, last leader, and the number of the moment
Nothing == [cams |-> [s \in Stations |-> {}], leader |-> {}]
db == Last(moments)
Shown(content, at) == [cams |-> content.cams, leader |-> content.leader, at |-> at]

Free == [stage |-> "free"]
Asked(since) == [stage |-> "asked", since |-> since]
Failed(poll) == [stage |-> "failed", since |-> poll.since]
Answered(poll, answer) == [stage |-> "answered", since |-> poll.since, answer |-> answer]

Init ==
  /\ published = 0 /\ inbox = <<>> /\ up = FALSE /\ restarts = 0
  /\ moments = <<Nothing>> /\ job = {}
  /\ polls = [c \in Connections |-> Free] /\ markers = Shown(Nothing, 1)

-----------------------------------------------------------------------------
(***************************************************************************)
(* The simulator publishes a position or a leader; without a subscriber    *)
(* the message is gone.                                                    *)
(***************************************************************************)
Publish(topic, s) ==
  /\ published < MaxMessages /\ published' = published + 1
  /\ inbox' = IF up THEN Append(inbox, [topic |-> topic, station |-> s, value |-> published']) ELSE inbox
  /\ UNCHANGED <<up, restarts, moments, job, page>>

connect ==
  /\ ~up /\ up' = TRUE
  /\ UNCHANGED <<published, inbox, restarts, moments, job, page>>

RestartEmpty ==                                              \* seeded fault
  /\ up /\ restarts < MaxRestarts /\ restarts' = restarts + 1 /\ up' = FALSE
  /\ inbox' = <<>> /\ job' = {} /\ moments' = Append(moments, Nothing)
  /\ polls' = [c \in Connections |-> IF polls[c].stage = "asked" THEN Failed(polls[c]) ELSE polls[c]]
  /\ UNCHANGED <<published, markers>>
\* The backend is reloaded: what was running or on its way is lost, the
\* connections of unanswered polls break, the database stays.
Restart ==
  /\ up /\ restarts < MaxRestarts /\ restarts' = restarts + 1 /\ up' = FALSE
  /\ inbox' = <<>> /\ job' = {}
  /\ polls' = [c \in Connections |-> IF polls[c].stage = "asked" THEN Failed(polls[c]) ELSE polls[c]]
  /\ UNCHANGED <<published, moments, markers>>

\* write_points; LAST finds this point from now on
Written(m) == CASE m.topic = "cams"    -> [db EXCEPT !.cams[m.station] = {m.value}]
                [] m.topic = "leaders" -> [db EXCEPT !.leader = {m.station}]

message ==
  /\ up /\ job = {} /\ inbox # <<>> /\ inbox' = Tail(inbox)
  /\ \/ moments' = Append(moments, Written(Head(inbox)))
     \/ UNCHANGED moments                                    \* write_points raises
  /\ UNCHANGED <<published, up, restarts, job, page>>

-----------------------------------------------------------------------------
(***************************************************************************)
(* getLocations.                                                           *)
(***************************************************************************)
Called(c) ==
  /\ up /\ job = {} /\ polls[c].stage = "asked"
  /\ job' = {[poll |-> c, left |-> Queried, data |-> Nothing.cams]}
  /\ UNCHANGED <<published, inbox, up, restarts, moments, page>>

QueryFirst ==                                                \* seeded fault
  \E j \in job :
    /\ j.left # <<>>
    /\ LET s     == Head(j.left)
           known == {i \in DOMAIN moments : moments[i].cams[s] # {}}
           first == {i \in known : \A k \in known : i <= k}
       IN  job' = {[j EXCEPT !.left = Tail(@), !.data[s] = UNION {moments[i].cams[s] : i \in first}]}
    /\ UNCHANGED <<published, inbox, up, restarts, moments, page>>
Query ==
  \E j \in job :
    /\ j.left # <<>>
    /\ job' = {[j EXCEPT !.left = Tail(@), !.data[Head(j.left)] = db.cams[Head(j.left)]]}
    /\ UNCHANGED <<published, inbox, up, restarts, moments, page>>

\* The leader is the first of a list that is empty until one was announced.
Answer(j) ==
  IF db.leader = {} THEN Failed(polls[j.poll])
  ELSE Answered(polls[j.poll], Shown([cams |-> j.data, leader |-> db.leader], Len(moments)))
Return ==
  \E j \in job :
    /\ j.left = <<>> /\ job' = {}
    /\ polls' = [polls EXCEPT ![j.poll] = Answer(j)]
    /\ UNCHANGED <<published, inbox, up, restarts, moments, markers>>

-----------------------------------------------------------------------------
(***************************************************************************)
(* The page.                                                               *)
(***************************************************************************)
Poll(c) ==
  /\ polls[c].stage = "free"
  /\ polls' = [polls EXCEPT ![c] = Asked(markers.at)]
  /\ UNCHANGED <<published, backend, markers>>

\* While the backend is down a fetch is refused.
Refused(c) ==
  /\ ~up /\ polls[c].stage = "asked"
  /\ polls' = [polls EXCEPT ![c] = Failed(@)]
  /\ UNCHANGED <<published, backend, markers>>

\* setMarkers, or a rejected promise that nobody handles
Settle(c) ==
  /\ polls[c].stage \in {"answered", "failed"}
  /\ markers' = IF polls[c].stage = "answered" THEN polls[c].answer ELSE markers
  /\ polls' = [polls EXCEPT ![c] = Free]
  /\ UNCHANGED <<published, backend>>

Next ==
  \/ \E topic \in {"cams", "leaders"}, s \in Stations : Publish(topic, s)
  \/ connect \/ Restart \/ message \/ Query \/ Return
  \/ \E c \in Connections : Called(c) \/ Poll(c) \/ Refused(c) \/ Settle(c)

Spec == Init /\ [][Next]_vars
\* The interval fires, the backend connects and its event loop goes on, and
\* every answer arrives.
FairSpec ==
  /\ Spec /\ WF_vars(connect) /\ WF_vars(message) /\ WF_vars(Query \/ Return)
  /\ WF_vars(\E c \in Connections : Called(c))
  /\ \A c \in Connections : WF_vars(Poll(c)) /\ WF_vars(Refused(c) \/ Settle(c))

-----------------------------------------------------------------------------
Contents == [cams : [Stations -> SUBSET (1..MaxMessages)], leader : SUBSET Stations]
TypeOK ==
  /\ published \in 0..MaxMessages /\ Len(inbox) <= published /\ up \in BOOLEAN /\ restarts \in 0..MaxRestarts
  /\ Len(moments) \in 1..published + 1 /\ \A i \in DOMAIN moments : moments[i] \in Contents
  /\ Cardinality(job) <= 1 /\ (job # {} => up)
  /\ \A c \in Connections : polls[c].stage = "answered" => polls[c].answer.leader # {}

(***************************************************************************)
(* The page shows one moment: all positions and the leader it shows were   *)
(* in the database together, although getLocations collects them with one  *)
(* query after the other.                                                  *)
(***************************************************************************)
OneMoment ==
  LET seen == ToSet(Queried) then == moments[markers.at] IN
  markers.leader # {} =>
    markers.leader = then.leader /\ \A s \in Stations : markers.cams[s] = IF s \in seen THEN then.cams[s] ELSE {}

(***************************************************************************)
(* Polls overlap, so an older answer may replace a newer one; but never by *)
(* one that is older than what the page showed when it asked, not even     *)
(* across a restart of the backend.                                        *)
(***************************************************************************)
NoOlderThanWhenAsked ==
  [][markers' # markers => \E c \in Connections :
       /\ polls[c].stage = "answered" /\ markers' = polls[c].answer
       /\ markers'.at >= polls[c].since
       /\ \A s \in Stations : moments[polls[c].since].cams[s] # {} /\ s \in ToSet(Queried) => markers'.cams[s] # {}]_vars

(***************************************************************************)
(* What the page shows is one moment, and never goes back to before a      *)
(* question (getLocations and the polls of the map page).                  *)
(***************************************************************************)
PageIsConsistent == [](TypeOK /\ OneMoment) /\ NoOlderThanWhenAsked

(***************************************************************************)
(* When nothing is published any more the page shows the last positions    *)
(* and the last leader for good, provided one was ever announced.          *)
(***************************************************************************)
Current == [cams |-> [s \in Stations |-> IF s \in ToSet(Queried) THEN db.cams[s] ELSE {}], leader |-> db.leader]
Converges == <>[](db.leader # {} => markers.cams = Current.cams /\ markers.leader = Current.leader)
=============================================================================
