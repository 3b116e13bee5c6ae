-------------------------- MODULE DashboardProofs ---------------------------
(***************************************************************************)
(* What the map page shows, for every set of stations and of connections,  *)
(* every list of queried stations, and any number of messages and          *)
(* restarts.                                                               *)
(*                                                                         *)
(* A page is right about the moment it names (Faithful).  The invariant    *)
(* follows a picture from the queries of getLocations over the answers to  *)
(* the markers: what has been queried agrees with the database, since no   *)
(* message is handled meanwhile (Working), and moments once past never     *)
(* change, so that answers stay right however long they are under way.     *)
(***************************************************************************)
EXTENDS Dashboard, FiniteSetTheorems, SequenceTheorems, TLAPS

Values == 1..MaxMessages
Positions == [Stations -> SUBSET Values]
Messages == [topic : {"cams", "leaders"}, station : Stations, value : Values]
Pictures == [cams : Positions, leader : SUBSET Stations, at : Nat]
Polls ==
  [stage : {"free"}] \cup [stage : {"asked", "failed"}, since : Nat]
    \cup [stage : {"answered"}, since : Nat, answer : Pictures]
Jobs == [poll : Connections, left : Seq(Stations), data : Positions]

\* What getLocations can show of a content of the database.
Visible(content, s) == IF s \in ToSet(Queried) THEN content.cams[s] ELSE {}

\* Picture a shows the moment of m that it names, if it shows a leader.
Faithful(a, m) ==
  /\ a \in Pictures /\ a.at \in 1..Len(m)
  /\ a.leader # {} => /\ a.leader = m[a.at].leader
                      /\ \A s \in Stations : a.cams[s] = Visible(m[a.at], s)

\* A poll began at a moment; its answer is not older.
Timely(p, m) ==
  /\ p \in Polls
  /\ p.stage # "free" => p.since \in 1..Len(m)
  /\ p.stage = "answered" => Faithful(p.answer, m) /\ p.answer.leader # {} /\ p.since <= p.answer.at

\* getLocations has the current positions of the stations it has asked for.
Working(j, m) ==
  LET n == Len(Queried) - Len(j.left) IN
  /\ j \in Jobs /\ n \in Nat
  /\ \A i \in 1..Len(j.left) : j.left[i] = Queried[n + i]
  /\ \A s \in Stations : j.data[s] = IF \E i \in 1..n : Queried[i] = s THEN m[Len(m)].cams[s] ELSE {}

\* Contents of the database; a station never loses its last position.
History(m) ==
  /\ m \in Seq(Contents) /\ Len(m) > 0
  /\ \A i, k \in 1..Len(m) : \A s \in Stations : i <= k /\ m[i].cams[s] # {} => m[k].cams[s] # {}

BoardInv ==
  /\ published \in 0..MaxMessages /\ restarts \in 0..MaxRestarts /\ up \in BOOLEAN
  /\ inbox \in Seq(Messages) /\ Len(inbox) + Len(moments) <= published + 1
  /\ History(moments)
  /\ \A i, j \in job : i = j
  /\ \A j \in job : up /\ Working(j, moments) /\ polls[j.poll].stage = "asked"
  /\ DOMAIN polls = Connections /\ \A c \in Connections : Timely(polls[c], moments)
  /\ Faithful(markers, moments)

-----------------------------------------------------------------------------
LEMMA Constants ==
  ASSUME DashboardAssumption
  PROVE  /\ Queried \in Seq(Stations) /\ MaxMessages \in Nat /\ MaxRestarts \in Nat
         /\ Len(Queried) \in Nat /\ \A i \in 1..Len(Queried) : Queried[i] \in Stations
  <1>1. Queried \in Seq(Stations) /\ MaxMessages \in Nat /\ MaxRestarts \in Nat
    BY DEF DashboardAssumption
  <1>2. Len(Queried) \in Nat /\ \A i \in 1..Len(Queried) : Queried[i] \in Stations
    BY <1>1, LenProperties, ElementOfSeq
  <1> QED
    BY <1>1, <1>2

\* Who is asked for is in the list.
LEMMA Asks ==
  ASSUME DashboardAssumption
  PROVE  \A s : s \in ToSet(Queried) <=> \E i \in 1..Len(Queried) : Queried[i] = s
  BY Constants DEF ToSet

LEMMA LastIs ==
  ASSUME NEW m \in Seq(Contents), Len(m) > 0
  PROVE  Last(m) = m[Len(m)] /\ Last(m) \in Contents /\ Len(m) \in 1..Len(m)
  BY DEF Last

\* m is continued by w.
Continues(w, m) == w \in Seq(Contents) /\ Len(m) <= Len(w) /\ \A i \in 1..Len(m) : w[i] = m[i]

(***************************************************************************)
(* A picture or an answer stays right when the database goes on.           *)
(***************************************************************************)
LEMMA StaysFaithful ==
  ASSUME NEW m \in Seq(Contents), NEW w, Continues(w, m), NEW a, Faithful(a, m)
  PROVE  Faithful(a, w)
  <1>1. Len(m) \in Nat /\ Len(w) \in Nat /\ Len(m) <= Len(w)
    BY DEF Continues
  <1>2. a.at \in 1..Len(m) /\ w[a.at] = m[a.at]
    BY DEF Faithful, Continues
  <1>3. a.at \in 1..Len(w)
    BY <1>1, <1>2
  <1> QED
    BY <1>2, <1>3 DEF Faithful

LEMMA StaysTimely ==
  ASSUME NEW m \in Seq(Contents), NEW w, Continues(w, m), NEW p, Timely(p, m)
  PROVE  Timely(p, w)
  <1>1. Len(m) \in Nat /\ Len(w) \in Nat /\ Len(m) <= Len(w)
    BY DEF Continues
  <1>2. p.stage # "free" => p.since \in 1..Len(w)
    BY <1>1 DEF Timely
  <1>3. p.stage = "answered" => Faithful(p.answer, w)
    BY StaysFaithful DEF Timely
  <1> QED
    BY <1>2, <1>3 DEF Timely

(***************************************************************************)
(* Writing a point continues the history: it adds to what is known of a    *)
(* station, or changes the leader.                                         *)
(***************************************************************************)
LEMMA WrittenContinues ==
  ASSUME History(moments), NEW g \in Messages
  PROVE  /\ History(Append(moments, Written(g)))
         /\ Continues(Append(moments, Written(g)), moments)
  <1> DEFINE m == moments
             l == Len(m)
             w == Append(m, Written(g))
  <1>1. m \in Seq(Contents) /\ l \in Nat /\ l > 0 /\ db = m[l] /\ db \in Contents
    BY LastIs DEF History, db
  <1>2. g.topic \in {"cams", "leaders"} /\ g.station \in Stations /\ g.value \in Values
    BY DEF Messages
  <1>3. /\ Written(g) \in Contents
        /\ \A s \in Stations : db.cams[s] # {} => Written(g).cams[s] # {}
    <2>1. /\ db.cams \in [Stations -> SUBSET (1..MaxMessages)] /\ db.leader \in SUBSET Stations
          /\ db = [cams |-> db.cams, leader |-> db.leader]
      BY <1>1 DEF Contents
    <2>2. CASE g.topic = "cams"
      <3>1. Written(g) = [db EXCEPT !.cams[g.station] = {g.value}]
        BY <2>2 DEF Written
      <3>2. Written(g) = [cams |-> [db.cams EXCEPT ![g.station] = {g.value}], leader |-> db.leader]
        BY <2>1, <3>1
      <3> QED
        BY <1>2, <2>1, <3>2 DEF Contents, Values
    <2>3. CASE g.topic = "leaders"
      <3>1. Written(g) = [db EXCEPT !.leader = {g.station}]
        BY <2>3 DEF Written
      <3>2. Written(g) = [cams |-> db.cams, leader |-> {g.station}]
        BY <2>1, <3>1
      <3> QED
        BY <1>2, <2>1, <3>2 DEF Contents
    <2> QED
      BY <1>2, <2>2, <2>3
  <1>4. /\ w \in Seq(Contents) /\ Len(w) = l + 1 /\ w[l + 1] = Written(g)
        /\ \A i \in 1..l : w[i] = m[i]
    <2> HIDE DEF l
    <2> QED
      BY <1>1, <1>3 DEF l
  <1>5. Continues(w, m)
    <2> HIDE DEF w
    <2> QED
      BY <1>1, <1>4 DEF Continues
  <1>6. ASSUME NEW i \in 1..(l + 1), NEW k \in 1..(l + 1), NEW s \in Stations,
               i <= k, w[i].cams[s] # {}
        PROVE  w[k].cams[s] # {}
    <2> HIDE DEF w
    <2>1. CASE k \in 1..l
      <3>1. i \in 1..l
        BY <1>1, <1>6, <2>1
      <3> QED
        BY <1>4, <1>6, <2>1, <3>1 DEF History
    <2>2. CASE k = l + 1 /\ i \in 1..l
      <3>1. l \in 1..l /\ i <= l
        BY <1>1, <2>2
      <3>2. m[l].cams[s] # {}
        BY <1>4, <1>6, <2>2, <3>1 DEF History
      <3> QED
        BY <1>1, <1>3, <1>4, <2>2, <3>2
    <2>3. CASE k = l + 1 /\ i = l + 1
      BY <1>6, <2>3
    <2> QED
      BY <1>1, <2>1, <2>2, <2>3
  <1> HIDE DEF w, l
  <1>7. \A i, k \in 1..Len(w) : \A s \in Stations : i <= k /\ w[i].cams[s] # {} => w[k].cams[s] # {}
    BY <1>4, <1>6
  <1>8. Len(w) > 0
    BY <1>1, <1>4
  <1> QED
    BY <1>4, <1>5, <1>7, <1>8 DEF History, w

(***************************************************************************)
(* The polls and the job in their steps.                                   *)
(***************************************************************************)
LEMMA Stages ==
  ASSUME NEW p \in Polls, NEW n \in Nat
  PROVE  /\ Free \in Polls /\ Free.stage = "free"
         /\ Asked(n) \in Polls /\ Asked(n).stage = "asked" /\ Asked(n).since = n
         /\ p.stage \in {"asked", "failed", "answered"} => p.since \in Nat
         /\ p.stage = "asked" =>
              Failed(p) \in Polls /\ Failed(p).stage = "failed" /\ Failed(p).since = p.since
  <1>1. p.stage \in {"asked", "failed", "answered"} => p.since \in Nat
    BY DEF Polls
  <1> QED
    BY <1>1 DEF Polls, Free, Asked, Failed

LEMMA Breaks ==
  ASSUME NEW m, NEW p, Timely(p, m), p.stage = "asked"
  PROVE  Timely(Failed(p), m) /\ Failed(p).stage = "failed"
  <1>1. p \in Polls /\ p.since \in 1..Len(m)
    BY DEF Timely
  <1> QED
    BY <1>1, Stages DEF Timely

(***************************************************************************)
(* What getLocations has collected when all queries are through shows the  *)
(* last moment.                                                            *)
(***************************************************************************)
LEMMA AnswerIsTimely ==
  ASSUME DashboardAssumption, History(moments), NEW j, Working(j, moments), j.left = <<>>,
         Timely(polls[j.poll], moments), polls[j.poll].stage = "asked"
  PROVE  Timely(Answer(j), moments) /\ Answer(j).stage # "asked"
  <1> DEFINE p == polls[j.poll]
             l == Len(moments)
  <1>1. moments \in Seq(Contents) /\ l \in Nat /\ l > 0 /\ l \in 1..l /\ db = moments[l] /\ db \in Contents
    BY LastIs DEF History, db
  <1>2. p \in Polls /\ p.since \in 1..l /\ p.since \in Nat /\ p.since <= l
    BY <1>1 DEF Timely
  <1>3. CASE db.leader = {}
    BY <1>3, Breaks DEF Answer
  <1>4. CASE db.leader # {}
    <2> DEFINE a == Shown([cams |-> j.data, leader |-> db.leader], l)
    <2>1. a = [cams |-> j.data, leader |-> db.leader, at |-> l]
      BY DEF Shown
    <2>2. j.data \in Positions /\ db.leader \in SUBSET Stations
      BY <1>1 DEF Working, Jobs, Contents
    <2>3. a \in Pictures /\ a.cams = j.data /\ a.leader = db.leader /\ a.at = l
      BY <1>1, <2>1, <2>2 DEF Pictures
    <2>4. \A s \in Stations : a.cams[s] = Visible(moments[l], s)
      <3>1. Len(j.left) = 0
        OBVIOUS
      <3>2. \A s \in Stations :
              j.data[s] = IF \E i \in 1..Len(Queried) : Queried[i] = s THEN moments[l].cams[s] ELSE {}
        BY <3>1, Constants DEF Working
      <3> QED
        BY <2>3, <3>2, Asks DEF Visible
    <2>5. Faithful(a, moments)
      BY <1>1, <2>3, <2>4 DEF Faithful
    <2>6. Answer(j) = [stage |-> "answered", since |-> p.since, answer |-> a]
      BY <1>4 DEF Answer, Answered
    <2> HIDE DEF a, p, l
    <2>7. Answer(j) \in Polls
      BY <1>2, <2>3, <2>6 DEF Polls
    <2> QED
      BY <1>2, <1>4, <2>3, <2>5, <2>6, <2>7 DEF Timely, l
  <1> QED
    BY <1>3, <1>4

-----------------------------------------------------------------------------
LEMMA Initially ==
  ASSUME DashboardAssumption, Init
  PROVE  BoardInv
  <1> DEFINE empty == [s \in Stations |-> {}]
  <1>1. Nothing = [cams |-> empty, leader |-> {}] /\ Nothing \in Contents
    BY DEF Nothing, Contents
  <1>2. /\ moments = <<Nothing>> /\ moments \in Seq(Contents) /\ Len(moments) = 1
        /\ moments[1] = Nothing
    BY <1>1 DEF Init
  <1>3. History(moments)
    BY <1>2 DEF History
  <1>4. Faithful(markers, moments)
    <2>1. markers = [cams |-> empty, leader |-> {}, at |-> 1]
      BY <1>1 DEF Init, Shown
    <2>2. markers \in Pictures
      BY <2>1 DEF Pictures, Positions
    <2>3. markers.at \in 1..Len(moments) /\ markers.leader = {}
      BY <1>2, <2>1
    <2> QED
      BY <2>2, <2>3 DEF Faithful
  <1>5. \A c \in Connections : Timely(polls[c], moments)
    BY DEF Init, Free, Timely, Polls
  <1>6. /\ published \in 0..MaxMessages /\ restarts \in 0..MaxRestarts /\ up \in BOOLEAN
        /\ inbox \in Seq(Messages) /\ Len(inbox) + Len(moments) <= published + 1
        /\ job = {} /\ DOMAIN polls = Connections
    <2>1. published = 0 /\ restarts = 0 /\ up = FALSE /\ inbox = <<>> /\ job = {}
      BY DEF Init
    <2>2. DOMAIN polls = Connections
      BY DEF Init
    <2>3. 0 \in 0..MaxMessages /\ 0 \in 0..MaxRestarts
      BY Constants
    <2>4. inbox \in Seq(Messages) /\ Len(inbox) = 0
      BY <2>1
    <2>5. up \in BOOLEAN
      BY <2>1
    <2>6. published \in 0..MaxMessages /\ restarts \in 0..MaxRestarts
      BY <2>1, <2>3
    <2>7. Len(inbox) + Len(moments) <= published + 1
      BY <1>2, <2>1, <2>4
    <2> QED
      BY <2>1, <2>2, <2>4, <2>5, <2>6, <2>7
  <1>7. \A j \in job : up /\ Working(j, moments) /\ polls[j.poll].stage = "asked"
    BY <1>6
  <1>8. \A i, j \in job : i = j
    BY <1>6
  <1> QED
    BY <1>3, <1>4, <1>5, <1>6, <1>7, <1>8 DEF BoardInv

LEMMA PublishStep ==
  ASSUME DashboardAssumption, BoardInv, NEW topic \in {"cams", "leaders"}, NEW s \in Stations, Publish(topic, s)
  PROVE  BoardInv'
  <1> DEFINE g == [topic |-> topic, station |-> s, value |-> published']
  <1>1. /\ published \in 0..MaxMessages /\ published < MaxMessages /\ published' = published + 1
        /\ inbox' = IF up THEN Append(inbox, g) ELSE inbox
        /\ inbox \in Seq(Messages) /\ moments \in Seq(Contents)
    BY DEF Publish, BoardInv, History
  <1>2. published' \in 0..MaxMessages /\ published' \in Values
    BY <1>1, Constants DEF Values
  <1>3. g \in Messages
    BY <1>2 DEF Messages
  <1> HIDE DEF g
  <1>4. inbox' \in Seq(Messages) /\ Len(inbox') <= Len(inbox) + 1
    BY <1>1, <1>3
  <1>5. Len(inbox') + Len(moments) <= published' + 1
    BY <1>1, <1>4 DEF BoardInv
  <1>6. UNCHANGED <<up, restarts, moments, job, polls, markers>>
    BY DEF Publish, page
  <1> QED
    BY <1>2, <1>4, <1>5, <1>6 DEF BoardInv

LEMMA ConnectStep ==
  ASSUME DashboardAssumption, BoardInv, connect
  PROVE  BoardInv'
  BY DEF BoardInv, connect, page

LEMMA RestartStep ==
  ASSUME DashboardAssumption, BoardInv, Restart
  PROVE  BoardInv'
  <1>1. /\ restarts' \in 0..MaxRestarts /\ up' \in BOOLEAN /\ inbox' = <<>> /\ job' = {}
        /\ UNCHANGED <<published, moments, markers>>
    <2>1. restarts' = restarts + 1 /\ restarts < MaxRestarts /\ restarts \in 0..MaxRestarts
      BY DEF Restart, BoardInv
    <2>2. restarts' \in 0..MaxRestarts
      BY <2>1, Constants
    <2> QED
      BY <2>2 DEF Restart
  <1>2. ASSUME NEW c \in Connections
        PROVE  Timely(polls'[c], moments)
    <2>1. polls'[c] = IF polls[c].stage = "asked" THEN Failed(polls[c]) ELSE polls[c]
      BY DEF Restart
    <2>2. Timely(polls[c], moments)
      BY DEF BoardInv
    <2> QED
      BY <2>1, <2>2, Breaks
  <1>3. DOMAIN polls' = Connections
    BY DEF Restart
  <1>4. Len(moments) <= published + 1
    BY DEF BoardInv, History
  <1>5. inbox' \in Seq(Messages) /\ Len(inbox') + Len(moments) <= published + 1
    <2>1. moments \in Seq(Contents)
      BY DEF BoardInv, History
    <2> QED
      BY <1>1, <1>4, <2>1
  <1> QED
    BY <1>1, <1>2, <1>3, <1>5 DEF BoardInv

LEMMA MessageStep ==
  ASSUME DashboardAssumption, BoardInv, message
  PROVE  BoardInv'
  <1>1. /\ job = {} /\ inbox \in Seq(Messages) /\ inbox # <<>> /\ inbox' = Tail(inbox)
        /\ UNCHANGED <<published, up, restarts, job, polls, markers>>
        /\ moments' = Append(moments, Written(Head(inbox))) \/ moments' = moments
        /\ History(moments) /\ moments \in Seq(Contents)
    BY DEF message, BoardInv, page, History
  <1>2. inbox' \in Seq(Messages) /\ Head(inbox) \in Messages /\ Len(inbox') = Len(inbox) - 1
    BY <1>1
  <1>3. History(moments') /\ Continues(moments', moments) /\ Len(moments') <= Len(moments) + 1
    <2>1. CASE moments' = moments
      BY <1>1, <2>1 DEF Continues
    <2>2. CASE moments' = Append(moments, Written(Head(inbox)))
      <3>1. History(moments') /\ Continues(moments', moments)
        BY <1>1, <1>2, <2>2, WrittenContinues
      <3>2. Len(moments') = Len(moments) + 1
        <4>1. moments' \in Seq(Contents)
          BY <3>1 DEF History
        <4> QED
          BY <1>1, <2>2, AppendProperties
      <3> QED
        BY <1>1, <3>1, <3>2
    <2> QED
      BY <1>1, <2>1, <2>2
  <1>4. Len(inbox') + Len(moments') <= published' + 1
    <2>1. Len(inbox) \in Nat /\ Len(moments) \in Nat /\ Len(moments') \in Nat
      BY <1>1, <1>3 DEF History
    <2>2. Len(inbox) + Len(moments) <= published + 1 /\ published \in Nat
      BY DEF BoardInv
    <2> QED
      BY <1>1, <1>2, <1>3, <2>1, <2>2
  <1>5. \A c \in Connections : Timely(polls[c], moments')
    BY <1>1, <1>3, StaysTimely DEF BoardInv
  <1>6. Faithful(markers, moments')
    BY <1>1, <1>3, StaysFaithful DEF BoardInv
  <1> QED
    BY <1>1, <1>2, <1>3, <1>4, <1>5, <1>6 DEF BoardInv

LEMMA CalledStep ==
  ASSUME DashboardAssumption, BoardInv, NEW c \in Connections, Called(c)
  PROVE  BoardInv'
  <1> DEFINE j == [poll |-> c, left |-> Queried, data |-> Nothing.cams]
  <1>1. /\ up /\ job' = {j} /\ polls[c].stage = "asked"
        /\ UNCHANGED <<published, inbox, up, restarts, moments, polls, markers>>
    BY DEF Called, page
  <1>2. Nothing.cams = [s \in Stations |-> {}]
    BY DEF Nothing
  <1>3. j \in Jobs
    BY <1>2, Constants DEF Jobs, Positions
  <1>4. Working(j, moments)
    <2>1. Len(Queried) - Len(j.left) = 0
      BY Constants
    <2> QED
      BY <1>2, <1>3, <2>1, Constants DEF Working
  <1> HIDE DEF j
  <1>5. j.poll = c
    BY DEF j
  <1> QED
    BY <1>1, <1>4, <1>5 DEF BoardInv

LEMMA QueryStep ==
  ASSUME DashboardAssumption, BoardInv, Query
  PROVE  BoardInv'
  <1> PICK j \in job :
        /\ j.left # <<>>
        /\ job' = {[j EXCEPT !.left = Tail(@), !.data[Head(j.left)] = db.cams[Head(j.left)]]}
        /\ UNCHANGED <<published, inbox, up, restarts, moments, polls, markers>>
    BY DEF Query, page
  <1> DEFINE k == [j EXCEPT !.left = Tail(@), !.data[Head(j.left)] = db.cams[Head(j.left)]]
             h == Head(j.left)
             n == Len(Queried) - Len(j.left)
             l == Len(moments)
  <1>1. /\ j \in Jobs /\ n \in Nat /\ up /\ polls[j.poll].stage = "asked"
        /\ \A i \in 1..Len(j.left) : j.left[i] = Queried[n + i]
        /\ \A s \in Stations : j.data[s] = IF \E i \in 1..n : Queried[i] = s THEN moments[l].cams[s] ELSE {}
    BY DEF BoardInv, Working
  <1>2. /\ j.left \in Seq(Stations) /\ j.poll \in Connections /\ j.data \in Positions
        /\ j = [poll |-> j.poll, left |-> j.left, data |-> j.data]
    BY <1>1 DEF Jobs
  <1>3. db = moments[l] /\ db \in Contents
    BY LastIs DEF BoardInv, History, db
  <1>4. /\ h \in Stations /\ h = j.left[1] /\ Tail(j.left) \in Seq(Stations)
        /\ Len(j.left) \in Nat /\ Len(j.left) > 0 /\ Len(Tail(j.left)) = Len(j.left) - 1
        /\ \A i \in 1..(Len(j.left) - 1) : Tail(j.left)[i] = j.left[i + 1]
    BY <1>2
  <1>5. k = [poll |-> j.poll, left |-> Tail(j.left), data |-> [j.data EXCEPT ![h] = db.cams[h]]]
    <2>1. k = [j EXCEPT !.left = Tail(j.left), !.data = [j.data EXCEPT ![h] = db.cams[h]]]
      OBVIOUS
    <2> HIDE DEF k, h, n, l
    <2> QED
      BY <1>2, <2>1
  <1> HIDE DEF k, h
  <1>6. db.cams[h] \in SUBSET Values
    BY <1>3, <1>4 DEF Contents, Values
  <1>7. [j.data EXCEPT ![h] = db.cams[h]] \in Positions
    BY <1>2, <1>6 DEF Positions
  <1>8. /\ k \in Jobs /\ k.poll = j.poll /\ k.left = Tail(j.left)
        /\ k.data = [j.data EXCEPT ![h] = db.cams[h]]
    BY <1>2, <1>4, <1>5, <1>7 DEF Jobs
  <1>9. Len(Queried) - Len(k.left) = n + 1
    <2>1. Len(k.left) = Len(j.left) - 1 /\ Len(Queried) \in Int /\ Len(j.left) \in Int
      BY <1>4, <1>8, Constants
    <2> QED
      BY <2>1
  <1>10. \A i \in 1..Len(k.left) : k.left[i] = Queried[(n + 1) + i]
    <2> SUFFICES ASSUME NEW i \in 1..Len(k.left)
                 PROVE  k.left[i] = Queried[(n + 1) + i]
      OBVIOUS
    <2> HIDE DEF n
    <2>1. i \in 1..(Len(j.left) - 1) /\ i + 1 \in 1..Len(j.left) /\ n + (i + 1) = (n + 1) + i
      BY <1>1, <1>4, <1>8
    <2>2. k.left[i] = j.left[i + 1] /\ j.left[i + 1] = Queried[n + (i + 1)]
      BY <1>1, <1>4, <1>8, <2>1
    <2> QED
      BY <2>1, <2>2
  <1>11. \A s \in Stations :
           k.data[s] = IF \E i \in 1..(n + 1) : Queried[i] = s THEN moments[l].cams[s] ELSE {}
    <2> SUFFICES ASSUME NEW s \in Stations
                 PROVE  k.data[s] = IF \E i \in 1..(n + 1) : Queried[i] = s THEN moments[l].cams[s] ELSE {}
      OBVIOUS
    <2> HIDE DEF n, l
    <2>1. Queried[n + 1] = h
      <3>1. 1 \in 1..Len(j.left)
        BY <1>4
      <3> QED
        BY <1>1, <1>4, <3>1
    <2>2. k.data[s] = IF s = h THEN moments[l].cams[s] ELSE j.data[s]
      BY <1>2, <1>3, <1>4, <1>8 DEF Positions
    <2>3. (\E i \in 1..(n + 1) : Queried[i] = s) <=> s = h \/ \E i \in 1..n : Queried[i] = s
      <3>1. \A i : i \in 1..(n + 1) <=> i \in 1..n \/ i = n + 1
        BY <1>1
      <3> QED
        BY <2>1, <3>1
    <2> QED
      BY <1>1, <2>2, <2>3
  <1>12. Working(k, moments)
    <2> HIDE DEF n
    <2> QED
      BY <1>1, <1>8, <1>9, <1>10, <1>11 DEF Working
  <1>13. job' = {k}
    BY DEF k
  <1> HIDE DEF n, l
  <1> QED
    BY <1>1, <1>8, <1>12, <1>13 DEF BoardInv

LEMMA ReturnStep ==
  ASSUME DashboardAssumption, BoardInv, Return
  PROVE  BoardInv'
  <1> PICK j \in job :
        /\ j.left = <<>> /\ job' = {}
        /\ polls' = [polls EXCEPT ![j.poll] = Answer(j)]
        /\ UNCHANGED <<published, inbox, up, restarts, moments, markers>>
    BY DEF Return
  <1>1. Working(j, moments) /\ j.poll \in Connections /\ polls[j.poll].stage = "asked"
    BY DEF BoardInv, Working, Jobs
  <1>2. Timely(Answer(j), moments)
    BY <1>1, AnswerIsTimely DEF BoardInv
  <1>3. \A c \in Connections : Timely(polls'[c], moments)
    BY <1>2 DEF BoardInv
  <1>4. DOMAIN polls' = Connections
    BY DEF BoardInv
  <1> QED
    BY <1>3, <1>4 DEF BoardInv

LEMMA PollStep ==
  ASSUME DashboardAssumption, BoardInv, NEW c \in Connections, Poll(c)
  PROVE  BoardInv'
  <1>1. /\ polls[c].stage = "free" /\ polls' = [polls EXCEPT ![c] = Asked(markers.at)]
        /\ UNCHANGED <<published, inbox, up, restarts, moments, job, markers>>
    BY DEF Poll, backend
  <1>2. markers.at \in 1..Len(moments) /\ markers.at \in Nat
    <2>1. markers.at \in 1..Len(moments) /\ Len(moments) \in Nat
      BY DEF BoardInv, Faithful, History
    <2> QED
      BY <2>1
  <1>3. Timely(Asked(markers.at), moments)
    BY <1>2 DEF Timely, Asked, Polls
  <1>4. DOMAIN polls' = Connections /\ \A d \in Connections : Timely(polls'[d], moments)
    BY <1>1, <1>3 DEF BoardInv
  <1>5. \A j \in job : polls'[j.poll].stage = "asked"
    BY <1>1 DEF BoardInv
  <1> QED
    BY <1>1, <1>4, <1>5 DEF BoardInv

LEMMA RefusedStep ==
  ASSUME DashboardAssumption, BoardInv, NEW c \in Connections, Refused(c)
  PROVE  BoardInv'
  <1>1. /\ ~up /\ polls[c].stage = "asked" /\ polls' = [polls EXCEPT ![c] = Failed(polls[c])]
        /\ UNCHANGED <<published, inbox, up, restarts, moments, job, markers>>
    BY DEF Refused, backend, BoardInv
  <1>2. Timely(Failed(polls[c]), moments)
    BY <1>1, Breaks DEF BoardInv
  <1>3. DOMAIN polls' = Connections /\ \A d \in Connections : Timely(polls'[d], moments)
    BY <1>1, <1>2 DEF BoardInv
  <1>4. job = {}
    BY <1>1 DEF BoardInv
  <1> QED
    BY <1>1, <1>3, <1>4 DEF BoardInv

LEMMA SettleStep ==
  ASSUME DashboardAssumption, BoardInv, NEW c \in Connections, Settle(c)
  PROVE  /\ BoardInv'
         /\ markers' # markers => /\ polls[c].stage = "answered" /\ markers' = polls[c].answer
                                  /\ UNCHANGED moments
  <1>1. /\ polls[c].stage \in {"answered", "failed"} /\ polls' = [polls EXCEPT ![c] = Free]
        /\ markers' = IF polls[c].stage = "answered" THEN polls[c].answer ELSE markers
        /\ UNCHANGED <<published, inbox, up, restarts, moments, job>>
    BY DEF Settle, backend
  <1>2. Faithful(markers', moments)
    BY <1>1 DEF BoardInv, Timely
  <1>3. Timely(Free, moments)
    BY DEF Timely, Free, Polls
  <1>4. DOMAIN polls' = Connections /\ \A d \in Connections : Timely(polls'[d], moments)
    BY <1>1, <1>3 DEF BoardInv
  <1>5. \A j \in job : polls'[j.poll].stage = "asked"
    BY <1>1 DEF BoardInv
  <1> QED
    BY <1>1, <1>2, <1>4, <1>5 DEF BoardInv

LEMMA Steps ==
  ASSUME DashboardAssumption, BoardInv, [Next]_vars
  PROVE  BoardInv'
  <1>1. CASE UNCHANGED vars
    BY <1>1 DEF BoardInv, vars, backend, page
  <1>2. ASSUME NEW topic \in {"cams", "leaders"}, NEW s \in Stations, Publish(topic, s)
        PROVE  BoardInv'
    BY <1>2, PublishStep
  <1>3. CASE connect
    BY <1>3, ConnectStep
  <1>4. CASE Restart
    BY <1>4, RestartStep
  <1>5. CASE message
    BY <1>5, MessageStep
  <1>6. CASE Query
    BY <1>6, QueryStep
  <1>7. CASE Return
    BY <1>7, ReturnStep
  <1>8. ASSUME NEW c \in Connections, Called(c) \/ Poll(c) \/ Refused(c) \/ Settle(c)
        PROVE  BoardInv'
    BY <1>8, CalledStep, PollStep, RefusedStep, SettleStep
  <1> QED
    BY <1>1, <1>2, <1>3, <1>4, <1>5, <1>6, <1>7, <1>8 DEF Next

-----------------------------------------------------------------------------
(***************************************************************************)
(* Type correctness of the dashboard.                                      *)
(***************************************************************************)
LEMMA InvTypes == BoardInv => TypeOK
  <1> SUFFICES ASSUME BoardInv
               PROVE  TypeOK
    OBVIOUS
  <1>1. /\ Len(inbox) \in Nat /\ Len(moments) \in Nat /\ Len(moments) > 0 /\ published \in Nat
        /\ Len(inbox) + Len(moments) <= published + 1 /\ DOMAIN moments = 1..Len(moments)
        /\ moments \in Seq(Contents)
    BY DEF BoardInv, History
  <1>2. Len(inbox) <= published /\ Len(moments) \in 1..(published + 1)
    BY <1>1
  <1>3. \A i \in DOMAIN moments : moments[i] \in Contents
    BY <1>1
  <1>4. Cardinality(job) <= 1
    <2>1. CASE job = {}
      <3>1. Cardinality({}) = 0
        BY FS_EmptySet
      <3> QED
        BY <2>1, <3>1
    <2>2. CASE job # {}
      <3>0. \A i, j \in job : i = j
        BY DEF BoardInv
      <3>1. PICK j : job = {j}
        BY <2>2, <3>0
      <3>2. Cardinality({j}) = 1
        BY FS_Singleton
      <3> QED
        BY <3>1, <3>2
    <2> QED
      BY <2>1, <2>2
  <1>5. \A c \in Connections : polls[c].stage = "answered" => polls[c].answer.leader # {}
    BY DEF BoardInv, Timely
  <1> QED
    BY <1>2, <1>3, <1>4, <1>5 DEF BoardInv, TypeOK

LEMMA InvOneMoment == BoardInv => OneMoment
  BY DEF BoardInv, Faithful, Visible, OneMoment

(***************************************************************************)
(* What replaces the markers is an answer of a moment at or after the one  *)
(* that was shown when its poll began.                                     *)
(***************************************************************************)
LEMMA StepsForward ==
  ASSUME DashboardAssumption, BoardInv, [Next]_vars, markers' # markers
  PROVE  \E c \in Connections :
           /\ polls[c].stage = "answered" /\ markers' = polls[c].answer
           /\ markers'.at >= polls[c].since
           /\ \A s \in Stations :
                moments[polls[c].since].cams[s] # {} /\ s \in ToSet(Queried) => markers'.cams[s] # {}
  <1>1. PICK c \in Connections : Settle(c)
    BY DEF Next, vars, backend, page, Publish, connect, Restart, message, Query, Return, Called, Poll, Refused
  <1>2. polls[c].stage = "answered" /\ markers' = polls[c].answer /\ UNCHANGED moments
    BY <1>1, SettleStep
  <1> DEFINE a == polls[c].answer
             o == polls[c].since
  <1>3. /\ Faithful(a, moments) /\ a.leader # {} /\ o <= a.at
        /\ o \in 1..Len(moments) /\ a.at \in 1..Len(moments)
    BY <1>2 DEF BoardInv, Timely, Faithful
  <1>4. \A s \in Stations : moments[o].cams[s] # {} => moments[a.at].cams[s] # {}
    BY <1>3 DEF BoardInv, History
  <1>5. \A s \in Stations : s \in ToSet(Queried) => a.cams[s] = moments[a.at].cams[s]
    BY <1>3 DEF Faithful, Visible
  <1>6. a.at >= o
    <2>1. Len(moments) \in Nat
      BY DEF BoardInv, History
    <2> QED
      BY <1>3, <2>1
  <1> QED
    BY <1>2, <1>4, <1>5, <1>6

-----------------------------------------------------------------------------
THEOREM BoardHolds ==
  ASSUME DashboardAssumption
  PROVE  Spec => []BoardInv
  <1>1. Init => BoardInv
    BY Initially
  <1>2. BoardInv /\ [Next]_vars => BoardInv'
    BY Steps
  <1> QED
    BY <1>1, <1>2, PTL DEF Spec

(***************************************************************************)
(* The variables of the backend and of the page keep their types.          *)
(***************************************************************************)
THEOREM TypeCorrect ==
  ASSUME DashboardAssumption
  PROVE  Spec => []TypeOK
  BY BoardHolds, InvTypes, PTL

(***************************************************************************)
(* getLocations sends one query after the other and its answers overtake   *)
(* each other, but the page always shows the positions and the leader of   *)
(* one moment of the database.                                             *)
(***************************************************************************)
THEOREM PageShowsOneMoment ==
  ASSUME DashboardAssumption
  PROVE  Spec => []OneMoment
  BY BoardHolds, InvOneMoment, PTL

(***************************************************************************)
(* An answer that arrives is never older than what the page showed when it *)
(* was asked for, in spite of overlapping polls and of restarts.           *)
(***************************************************************************)
THEOREM AnswersAreTimely ==
  ASSUME DashboardAssumption
  PROVE  Spec => NoOlderThanWhenAsked
  <1>1. BoardInv /\ [Next]_vars => [(markers' # markers => \E c \in Connections :
           /\ polls[c].stage = "answered" /\ markers' = polls[c].answer
           /\ markers'.at >= polls[c].since
           /\ \A s \in Stations : moments[polls[c].since].cams[s] # {} /\ s \in ToSet(Queried) => markers'.cams[s] # {})]_vars
    BY StepsForward
  <1> QED
    BY <1>1, BoardHolds, PTL DEF Spec, NoOlderThanWhenAsked

(***************************************************************************)
(* Both together: what the map page shows is one moment of the database,   *)
(* and no answer takes it back to before its question.                     *)
(***************************************************************************)
THEOREM PageConsistent ==
  ASSUME DashboardAssumption
  PROVE  Spec => PageIsConsistent
  BY TypeCorrect, PageShowsOneMoment, AnswersAreTimely, PTL DEF PageIsConsistent
=============================================================================
