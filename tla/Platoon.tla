------------------------------ MODULE Platoon ------------------------------
(***************************************************************************)
(* The platooning protocol of simulator/simulator.py.  Every on-board unit *)
(* (OBU) is a process with two threads that share the dictionary "vals"    *)
(* and the dictionary "mySurroudings":                                     *)
(*   - the main thread, startSimul, drives along the route, publishes a    *)
(*     CAM per iteration, runs leaderCheck every checkTime iterations and, *)
(*     as a leader, announces its group with DENMs;                        *)
(*   - the network thread of the MQTT client runs on_messageN for every    *)
(*     message of the broker: the station's own messages (echoed by the    *)
(*     subscription to vanetza/in/...) and the ones received by radio.     *)
(* An exception in on_messageN ends the network thread: the station is     *)
(* then deaf and mute, but its main thread keeps driving.  An exception in *)
(* startSimul ends the process.                                            *)
(***************************************************************************)
EXTENDS Integers, Sequences, FiniteSets

CONSTANTS
  OBU,           \* the stations that run, identified as in valsList
  CheckEvery,    \* vals["checkTime"] before a group is set (10)
  SyncCheck,     \* sync_stats["100"][2], the checkTime of a group (300)
  RepeatEvery,   \* period of the repeated set DENM (10)
  Slow,          \* distance per iteration at the initial speed
  Fast,          \* distance per iteration at sync_stats["100"][0]
  Distances,     \* lengths of the segments of the route
  Bends,         \* TRUE if a car behind may be out of check's 20 degrees
  Lossy,         \* pairs <<sender, receiver>> whose radio link loses messages
  FailedBlocks,  \* pairs <<receiver, sender>> whose block command failed
  Unblockable,   \* pairs <<receiver, sender>> an operator may unblock
  Unreachable,   \* stations one of whose brokers may refuse the connection
  ParkAt,        \* bound: position from where a main thread is not scheduled
  MaxQueue,      \* bound: a main thread waits while a queue is this long
  MaxBusy        \* bound: ... and while more links than this are in use

ASSUME OBUAssumption == OBU \subseteq 0..3
ASSUME PeriodAssumption ==
  /\ CheckEvery \in Nat /\ CheckEvery > 1
  /\ SyncCheck \in Nat /\ SyncCheck >= CheckEvery
  /\ RepeatEvery \in Nat /\ RepeatEvery > 0
ASSUME RouteAssumption ==
  /\ Slow \in Nat /\ Slow > 0
  /\ Fast \in Nat /\ Fast > 0
  /\ Distances \in Seq(Nat) /\ Len(Distances) > 0
ASSUME EnvironmentAssumption ==
  /\ Bends \in BOOLEAN
  /\ Lossy \subseteq OBU \X OBU
  /\ FailedBlocks \subseteq OBU \X OBU
  /\ Unblockable \subseteq OBU \X OBU
  /\ Unreachable \subseteq OBU
  /\ ParkAt \in [OBU -> Nat]
  /\ MaxQueue \in Nat
  /\ MaxBusy \in Nat

VARIABLES
  \* locals of startSimul
  pc, err, msgNum, checkTime, currentGroup, repeatDenm, pos, interval, run,
  \* locals of leaderCheck: next key, size of the dictionary, own position
  checkAt, checkLen, checkMe,
  \* vals: "speed" and "checkTime" change together and only once (synced);
  \* "location" is () exactly while pos is 0
  groupID, group, synced, overlord,
  \* mySurroudings: keys in insertion order, last position of each key, and
  \* the key that is inserted but whose list of positions is still empty
  seen, surr, blank,
  \* MQTT client: subscribed by on_connect, state of the network thread
  sub, rx,
  \* messages on their way from a station to a station (itself: the echo)
  net,
  \* <<r, s>>: r drops what it receives from s
  blocked

mainVars == <<pc, err, msgNum, checkTime, currentGroup, repeatDenm, pos, interval, run>>
checkVars == <<checkAt, checkLen, checkMe>>
valVars == <<groupID, group, synced, overlord>>
surrVars == <<seen, surr, blank>>
linkVars == <<sub, rx, net, blocked>>
vars == <<mainVars, checkVars, valVars, surrVars, linkVars>>

Links == OBU \X OBU         \* <<sender, receiver>>

NoGroup == -1
NoOverlord == -1
NoStation == -1

(***************************************************************************)
(* A group is the concatenation of station numbers, a string at first; a   *)
(* group copied from a received sequenceNumber is an integer.              *)
(***************************************************************************)
GroupValue == [str : BOOLEAN, digits : Seq(0..3)]
StrForgotten(d) == [str |-> FALSE, digits |-> d]   \* seeded fault
StrGroup(d) == [str |-> TRUE, digits |-> d]
IntGroup(d) == [str |-> FALSE, digits |-> d]

MessageType == {"cam", "set", "repeat", "ask", "reply", "mergeReq", "mergeReply"}
Message == [type : MessageType, from : OBU, seq : Seq(0..3), quality : 0..7, pos : Nat]

CamInSegment(i, p) ==                              \* seeded fault
  [type |-> "cam", from |-> i, seq |-> <<>>, quality |-> 0, pos |-> run[i]]
Cam(i, p) == [type |-> "cam", from |-> i, seq |-> <<>>, quality |-> 0, pos |-> p]
DenmQualityShifted(t, i, q, quality) ==            \* seeded fault
  [type |-> t, from |-> i, seq |-> q, quality |-> quality + 1, pos |-> 0]
Denm(t, i, q, quality) ==
  [type |-> t, from |-> i, seq |-> q, quality |-> quality, pos |-> 0]

MainPoints == {"init", "connected", "top", "body", "check", "lead", "done", "crashed"}
Exceptions == {"none", "connect", "type", "index", "size"}   \* ... of startSimul
Ended(i) == pc[i] \in {"done", "crashed"}
Listening(i) == sub[i] /\ rx[i] = "up" /\ ~Ended(i)
Leads(i) == currentGroup[i] = i

Behind(me, other) == other < me

(***************************************************************************)
(* check(): the constant heading 90 and a road to the east reduce it to    *)
(* "the other car is behind"; on a bend a car behind may fall outside the  *)
(* 20 degrees.                                                             *)
(***************************************************************************)
check(me, other) ==
  IF Behind(me, other) THEN IF Bends THEN BOOLEAN ELSE {TRUE} ELSE {FALSE}

ValsSpeed(i) == IF synced[i] THEN Fast ELSE Slow
CheckTimeSwapped(i) == IF synced[i] THEN CheckEvery ELSE SyncCheck   \* seeded fault
ValsCheckTime(i) == IF synced[i] THEN SyncCheck ELSE CheckEvery

(***************************************************************************)
(* Brokers and radio.  A sequenceNumber pasted into the JSON text is a     *)
(* number only without a leading zero; the DENM service drops what it      *)
(* cannot parse, and what does not fit 0..65535: with the digits 0..3,     *)
(* numbers of more than MaxDigits digits.                                  *)
(***************************************************************************)
MaxDigits == 5
WellFormed(q) == q # <<>> /\ (Head(q) = 0 => Len(q) = 1)
Transmittable(m) == m.type = "cam" \/ (WellFormed(m.seq) /\ Len(m.seq) <= MaxDigits)

Delivers(s, r, m) ==
  /\ rx[s] = "up"
  /\ Listening(r)
  /\ s # r => Transmittable(m) /\ <<r, s>> \notin blocked

Publish(n, s, m) ==
  [l \in Links |->
     IF l[1] = s /\ Delivers(s, l[2], m) THEN Append(n[l], m) ELSE n[l]]

Take(n, s, r) == [n EXCEPT ![<<s, r>>] = Tail(@)]
Deafen(n, r) == [l \in Links |-> IF l[2] = r THEN <<>> ELSE n[l]]

Room(i) ==
  /\ \A r \in OBU : Len(net[<<i, r>>]) < MaxQueue
  /\ Cardinality({l \in Links : net[l] # <<>>}) <= MaxBusy

(***************************************************************************)
(* main(): stations 0 and 1 block stations 2 and 3 and the other way round *)
(* before the processes start; nobody looks at the result of os.system.    *)
(***************************************************************************)
Blocked == {p \in Links \ FailedBlocks : (p[1] < 2) # (p[2] < 2)}   \* <<receiver, sender>>

Init ==
  /\ pc = [i \in OBU |-> "init"]
  /\ err = [i \in OBU |-> "none"]
  /\ msgNum = [i \in OBU |-> 0]
  /\ checkTime = [i \in OBU |-> CheckEvery]
  /\ currentGroup = [i \in OBU |-> NoGroup]
  /\ repeatDenm = [i \in OBU |-> FALSE]
  /\ pos = [i \in OBU |-> 0]
  /\ interval = [i \in OBU |-> 1]
  /\ run = [i \in OBU |-> 0]
  /\ checkAt = [i \in OBU |-> 0]
  /\ checkLen = [i \in OBU |-> 0]
  /\ checkMe = [i \in OBU |-> 0]
  /\ groupID = [i \in OBU |-> NoGroup]
  /\ group = [i \in OBU |-> StrGroup(<<>>)]
  /\ synced = [i \in OBU |-> FALSE]
  /\ overlord = [i \in OBU |-> NoOverlord]
  /\ seen = [i \in OBU |-> <<>>]
  /\ surr = [i \in OBU |-> [j \in OBU |-> 0]]
  /\ blank = [i \in OBU |-> NoStation]
  /\ sub = [i \in OBU |-> FALSE]
  /\ rx = [i \in OBU |-> "up"]
  /\ net = [l \in Links |-> <<>>]
  /\ blocked = Blocked

-----------------------------------------------------------------------------
(***************************************************************************)
(* startSimul, the main thread of station i.                               *)
(***************************************************************************)

\* An exception leaves startSimul: the process and its network thread end.
Crash(i, kind) ==
  /\ pc' = [pc EXCEPT ![i] = "crashed"]
  /\ err' = [err EXCEPT ![i] = kind]
  /\ net' = Deafen(net, i)

Connect(i) ==
  /\ pc[i] = "init"
  /\ pc' = [pc EXCEPT ![i] = "connected"]
  /\ UNCHANGED <<err, msgNum, checkTime, currentGroup, repeatDenm, pos, interval, run,
                 checkVars, valVars, surrVars, linkVars>>

\* connect() of the station's broker or of the one of the page raises.
FailConnect(i) ==
  /\ i \in Unreachable
  /\ pc[i] \in {"init", "connected"}
  /\ Crash(i, "connect")
  /\ UNCHANGED <<msgNum, checkTime, currentGroup, repeatDenm, pos, interval, run,
                 checkVars, valVars, surrVars, sub, rx, blocked>>

FirstCam(i) ==
  /\ pc[i] = "connected"
  /\ Room(i)
  /\ pc' = [pc EXCEPT ![i] = "top"]
  /\ msgNum' = [msgNum EXCEPT ![i] = 1]
  /\ checkTime' = [checkTime EXCEPT ![i] = ValsCheckTime(i)]
  /\ net' = Publish(net, i, Cam(i, pos[i]))
  /\ UNCHANGED <<err, currentGroup, repeatDenm, pos, interval, run,
                 checkVars, valVars, surrVars, sub, rx, blocked>>

RepeatDue(i) == repeatDenm[i] /\ msgNum[i] % RepeatEvery = 0

\* The sequenceNumber a leader announces: vals["group"] + str(currClient).
AnnouncedWithoutSelf(i) == group[i].digits         \* seeded fault
Announced(i) == Append(group[i].digits, i)

\* The set DENM of a leader is repeated; vals["group"] must be a string.
Repeat(i) ==
  /\ pc[i] = "top"
  /\ RepeatDue(i)
  /\ Room(i)
  /\ \/ /\ group[i].str
        /\ pc' = [pc EXCEPT ![i] = "body"]
        /\ net' = Publish(net, i, Denm("repeat", i, Announced(i), 7))
        /\ UNCHANGED err
     \/ /\ ~group[i].str
        /\ Crash(i, "type")
  /\ UNCHANGED <<msgNum, checkTime, currentGroup, repeatDenm, pos, interval, run,
                 checkVars, valVars, surrVars, sub, rx, blocked>>

AtBody(i) == pc[i] = "body" \/ (pc[i] = "top" /\ ~RepeatDue(i))
Knows(i, j) == \E k \in 1..Len(seen[i]) : seen[i][k] = j
Located(i, j) == Knows(i, j) /\ blank[i] # j

KeepMsgNum(i) == UNCHANGED msgNum                  \* seeded fault
ResetMsgNum(i) == msgNum' = [msgNum EXCEPT ![i] = 0]

\* if msgNum == checkTime: up to the loop of leaderCheck.  A leader skips
\* leaderCheck; without a position of its own leaderCheck raises an IndexError.
StartCheck(i) ==
  /\ AtBody(i)
  /\ msgNum[i] = checkTime[i]
  /\ ResetMsgNum(i)
  /\ \/ /\ Leads(i)
        /\ pc' = [pc EXCEPT ![i] = "top"]
        /\ UNCHANGED <<err, net, checkVars>>
     \/ /\ ~Leads(i)
        /\ ~Located(i, i)
        /\ Crash(i, "index")
        /\ UNCHANGED checkVars
     \/ /\ ~Leads(i)
        /\ Located(i, i)
        /\ pc' = [pc EXCEPT ![i] = "check"]
        /\ checkAt' = [checkAt EXCEPT ![i] = 1]
        /\ checkLen' = [checkLen EXCEPT ![i] = Len(seen[i])]
        /\ checkMe' = [checkMe EXCEPT ![i] = surr[i][i]]
        /\ UNCHANGED <<err, net>>
  /\ UNCHANGED <<checkTime, currentGroup, repeatDenm, pos, interval, run,
                 valVars, surrVars, sub, rx, blocked>>

\* A key the network thread inserts meanwhile is a RuntimeError.
CheckSizeChanged(i) ==
  /\ pc[i] = "check"
  /\ Len(seen[i]) # checkLen[i]
  /\ Crash(i, "size")
  /\ UNCHANGED <<msgNum, checkTime, currentGroup, repeatDenm, pos, interval, run,
                 checkVars, valVars, surrVars, sub, rx, blocked>>

\* A key of another station whose list is still empty is an IndexError.
CheckEmptyKey(i) ==
  /\ pc[i] = "check"
  /\ Len(seen[i]) = checkLen[i]
  /\ checkAt[i] <= checkLen[i]
  /\ seen[i][checkAt[i]] \in {blank[i]} \ {i}
  /\ Crash(i, "index")
  /\ UNCHANGED <<msgNum, checkTime, currentGroup, repeatDenm, pos, interval, run,
                 checkVars, valVars, surrVars, sub, rx, blocked>>

\* One round of the loop of leaderCheck over the keys of mySurroudings.
CheckKey(i) ==
  /\ pc[i] = "check"
  /\ Len(seen[i]) = checkLen[i]
  /\ checkAt[i] <= checkLen[i]
  /\ seen[i][checkAt[i]] \notin {blank[i]} \ {i}
  /\ LET key == seen[i][checkAt[i]]
     IN  \E ahead \in IF key = i THEN {TRUE} ELSE check(checkMe[i], surr[i][key]) :
           /\ pc' = [pc EXCEPT ![i] = IF ahead THEN "check" ELSE "top"]
           /\ checkAt' = [checkAt EXCEPT ![i] = IF ahead THEN @ + 1 ELSE 0]
  /\ UNCHANGED <<err, msgNum, checkTime, currentGroup, repeatDenm, pos, interval, run,
                 checkLen, checkMe, valVars, surrVars, linkVars>>

Without(q, k) == SubSeq(q, 1, k - 1) \o SubSeq(q, k + 1, Len(q))

\* The keys other than the own one, which occurs at most once.
OthersAndSelf(i) == seen[i]                        \* seeded fault
Others(i) ==
  IF Knows(i, i)
    THEN Without(seen[i], CHOOSE k \in 1..Len(seen[i]) : seen[i][k] = i)
    ELSE seen[i]

\* All the others are behind: the group is recorded, and the station leads
\* unless it knows of no other.
CheckEnd(i) ==
  /\ pc[i] = "check"
  /\ Len(seen[i]) = checkLen[i]
  /\ checkAt[i] > checkLen[i]
  /\ group' = [group EXCEPT ![i] = StrGroup(Others(i))]
  /\ pc' = [pc EXCEPT ![i] = IF \E j \in OBU \ {i} : Knows(i, j) THEN "lead" ELSE "top"]
  /\ checkAt' = [checkAt EXCEPT ![i] = 0]
  /\ UNCHANGED <<err, msgNum, checkTime, currentGroup, repeatDenm, pos, interval, run,
                 checkLen, checkMe, groupID, synced, overlord, surrVars, linkVars>>

\* if leader: the set DENM needs vals["group"] as a string, too.
Lead(i) ==
  /\ pc[i] = "lead"
  /\ Room(i)
  /\ currentGroup' = [currentGroup EXCEPT ![i] = i]
  /\ \/ /\ group[i].str
        /\ synced' = [synced EXCEPT ![i] = TRUE]
        /\ checkTime' = [checkTime EXCEPT ![i] = SyncCheck]
        /\ net' = Publish(net, i, Denm("set", i, Announced(i), 7))
        /\ repeatDenm' = [repeatDenm EXCEPT ![i] = TRUE]
        /\ pc' = [pc EXCEPT ![i] = "top"]
        /\ UNCHANGED err
     \/ /\ ~group[i].str
        /\ Crash(i, "type")
        /\ UNCHANGED <<synced, checkTime, repeatDenm>>
  /\ UNCHANGED <<msgNum, pos, interval, run, checkVars, groupID, group, overlord,
                 surrVars, sub, rx, blocked>>

TripDone(i) == pos[i] + ValsSpeed(i) >= Distances[interval[i]]   \* seeded fault
SegmentDone(i) == run[i] + ValsSpeed(i) >= Distances[interval[i]]

\* else: next position, CAM, next segment or end of the route.  A process
\* that ends at once may take the CAM it has just queued with it.
Move(i) ==
  /\ AtBody(i)
  /\ msgNum[i] # checkTime[i]
  /\ Room(i)
  /\ checkTime' = [checkTime EXCEPT ![i] = ValsCheckTime(i)]
  /\ pos' = [pos EXCEPT ![i] = @ + ValsSpeed(i)]
  /\ msgNum' = [msgNum EXCEPT ![i] = @ + 1]
  /\ run' = [run EXCEPT ![i] = IF SegmentDone(i) THEN 0 ELSE @ + ValsSpeed(i)]
  /\ interval' = [interval EXCEPT ![i] = IF SegmentDone(i) THEN @ + 1 ELSE @]
  /\ LET routeDone == SegmentDone(i) /\ interval[i] = Len(Distances)
         sent == Publish(net, i, Cam(i, pos[i] + ValsSpeed(i)))
     IN  /\ pc' = [pc EXCEPT ![i] = IF routeDone THEN "done" ELSE "top"]
         /\ net' \in IF routeDone THEN {Deafen(sent, i), Deafen(net, i)} ELSE {sent}
  /\ UNCHANGED <<err, currentGroup, repeatDenm, checkVars, valVars, surrVars, sub, rx, blocked>>

startSimul(i) ==
  /\ pos[i] < ParkAt[i] \/ pc[i] \in {"init", "connected"}
  /\ \/ Connect(i) \/ FailConnect(i) \/ FirstCam(i) \/ Repeat(i) \/ Lead(i) \/ Move(i)
     \/ StartCheck(i) \/ CheckSizeChanged(i) \/ CheckEmptyKey(i) \/ CheckKey(i)
     \/ CheckEnd(i)

-----------------------------------------------------------------------------
(***************************************************************************)
(* The network thread of station r: on_connect, then on_message for each   *)
(* message m, the head of the link from s.                                 *)
(***************************************************************************)

on_connect(r) ==
  /\ pc[r] # "init" /\ ~Ended(r)
  /\ ~sub[r]
  /\ sub' = [sub EXCEPT ![r] = TRUE]
  /\ UNCHANGED <<mainVars, checkVars, valVars, surrVars, rx, net, blocked>>

\* Seeded fault: only the subCauseCode of a DENM is compared.
SameSubCause == {{"cam"}, {"set", "ask", "mergeReq"}, {"repeat", "reply", "mergeReply"}}
ReceivesSubCause(s, r, t) ==
  /\ Listening(r)
  /\ blank[r] \in {NoStation, s}
  /\ net[<<s, r>>] # <<>>
  /\ \E c \in SameSubCause : {t, Head(net[<<s, r>>]).type} \subseteq c

\* One message at a time: a CAM whose key has been inserted is finished first.
Receives(s, r, t) ==
  /\ Listening(r)
  /\ blank[r] \in {NoStation, s}
  /\ net[<<s, r>>] # <<>>
  /\ Head(net[<<s, r>>]).type = t

\* An exception leaves on_message: the network thread ends.
RxDies(r, kind) ==
  /\ rx' = [rx EXCEPT ![r] = kind]
  /\ net' = Deafen(net, r)

\* The first CAM of a station without a group: the defaultdict inserts the
\* key with an empty list, before the position is appended.
InsertKey(s, r) ==
  /\ Receives(s, r, "cam")
  /\ groupID[r] = NoGroup
  /\ ~Knows(r, s)
  /\ seen' = [seen EXCEPT ![r] = Append(@, s)]
  /\ blank' = [blank EXCEPT ![r] = s]
  /\ UNCHANGED <<mainVars, checkVars, valVars, surr, sub, rx, net, blocked>>

\* A CAM, the station's own ones included, is recorded until a group is set.
RxCam(s, r) ==
  /\ Receives(s, r, "cam")
  /\ \/ /\ groupID[r] = NoGroup
        /\ Knows(r, s)
        /\ surr' = [surr EXCEPT ![r][s] = Head(net[<<s, r>>]).pos]
        /\ blank' = [blank EXCEPT ![r] = NoStation]
        /\ UNCHANGED seen
     \/ /\ groupID[r] # NoGroup
        /\ UNCHANGED surrVars
  /\ net' = Take(net, s, r)
  /\ UNCHANGED <<mainVars, checkVars, valVars, sub, rx, blocked>>

\* Seeded fault: the echo of an own join request is not counted.
RxOwnAnnouncement(r) ==
  /\ \E t \in MessageType \ {"cam"} : Receives(r, r, t)
  /\ \/ /\ WellFormed(Head(net[<<r, r>>]).seq)
        /\ groupID' = IF Receives(r, r, "ask") THEN groupID ELSE [groupID EXCEPT ![r] = r]
        /\ net' = Take(net, r, r)
        /\ UNCHANGED rx
     \/ /\ ~WellFormed(Head(net[<<r, r>>]).seq)
        /\ RxDies(r, "json")
        /\ UNCHANGED groupID
  /\ UNCHANGED <<mainVars, checkVars, group, synced, overlord, surrVars, sub, blocked>>

\* The echo of an own DENM, of any kind, sets the group to the own number;
\* json.loads raises on a sequenceNumber with a leading zero.
RxOwnDenm(r) ==
  /\ \E t \in MessageType \ {"cam"} : Receives(r, r, t)
  /\ \/ /\ WellFormed(Head(net[<<r, r>>]).seq)
        /\ groupID' = [groupID EXCEPT ![r] = r]
        /\ net' = Take(net, r, r)
        /\ UNCHANGED rx
     \/ /\ ~WellFormed(Head(net[<<r, r>>]).seq)
        /\ RxDies(r, "json")
        /\ UNCHANGED groupID
  /\ UNCHANGED <<mainVars, checkVars, group, synced, overlord, surrVars, sub, blocked>>

\* 100/1 of another station.
RxSet(s, r) ==
  /\ s # r
  /\ Receives(s, r, "set")
  /\ groupID' = [groupID EXCEPT ![r] = s]
  /\ synced' = [synced EXCEPT ![r] = TRUE]
  /\ net' = Take(net, s, r)
  /\ UNCHANGED <<mainVars, checkVars, group, overlord, surrVars, sub, rx, blocked>>

\* 100/2: a station without a group asks to join, one of that group copies
\* the member list, as an integer.
RxRepeat(s, r) ==
  /\ s # r
  /\ Receives(s, r, "repeat")
  /\ \/ /\ groupID[r] = NoGroup
        /\ net' = Publish(Take(net, s, r), r, Denm("ask", r, <<0>>, 7))
        /\ UNCHANGED group
     \/ /\ groupID[r] = s
        /\ group' = [group EXCEPT ![r] = IntGroup(Head(net[<<s, r>>]).seq)]
        /\ net' = Take(net, s, r)
     \/ /\ groupID[r] \notin {NoGroup, s}
        /\ r # 2 \/ overlord[r] # NoOverlord
        /\ net' = Take(net, s, r)
        /\ UNCHANGED group
  /\ UNCHANGED <<mainVars, checkVars, groupID, synced, overlord, surrVars, sub, rx, blocked>>

\* 100/2 of a foreign group: station 2, and only it, asks to merge.
AskToMerge(s) ==
  /\ s # 2
  /\ Receives(s, 2, "repeat")
  /\ groupID[2] \notin {NoGroup, s}
  /\ overlord[2] = NoOverlord
  /\ net' = Publish(Take(net, s, 2), 2, Denm("mergeReq", 2, <<0>>, 7))
  /\ UNCHANGED <<mainVars, checkVars, valVars, surrVars, sub, rx, blocked>>

\* 101/1 at a station that is not, by its groupID, a leader.
IgnoreAsk(s, r) ==
  /\ s # r
  /\ Receives(s, r, "ask")
  /\ groupID[r] # r
  /\ net' = Take(net, s, r)
  /\ UNCHANGED <<mainVars, checkVars, valVars, surrVars, sub, rx, blocked>>

\* 101/1 at station 0: the asker is appended and answered.
AnswerAsk(s) ==
  /\ s # 0
  /\ Receives(s, 0, "ask")
  /\ groupID[0] = 0
  /\ LET members == Append(group[0].digits, s)
     IN  /\ group' = [group EXCEPT ![0] = StrGroup(members)]
         /\ net' = Publish(Take(net, s, 0), 0, Denm("reply", 0, members, s))
  /\ UNCHANGED <<mainVars, checkVars, groupID, synced, overlord, surrVars, sub, rx, blocked>>

\* 101/1 at stations 1, 2 and 3: the answer adds the asker, an integer, to a
\* string (or the group, by then an integer, to one): a TypeError.
FailAsk(s, r) ==
  /\ s # r
  /\ Receives(s, r, "ask")
  /\ groupID[r] = r
  /\ RxDies(r, "ask")
  /\ UNCHANGED <<mainVars, checkVars, valVars, surrVars, sub, blocked>>

FailAsk1(s) == FailAsk(s, 1)
FailAsk2(s) == FailAsk(s, 2)
FailAsk3(s) == FailAsk(s, 3)

\* 101/2: whose group a join reply m changes at station r.  Station 0 would
\* write the vals of station 1, station 3 writes those of station 2: copies
\* of the process that nobody reads.
Addressed(r, m) ==
  \/ r = 1 /\ m.from = 1
  \/ r = 2 /\ m.quality = 2

RxReply(s, r) ==
  /\ s # r
  /\ Receives(s, r, "reply")
  /\ LET m == Head(net[<<s, r>>])
     IN  group' = IF Addressed(r, m) THEN [group EXCEPT ![r] = IntGroup(m.seq)] ELSE group
  /\ net' = Take(net, s, r)
  /\ UNCHANGED <<mainVars, checkVars, groupID, synced, overlord, surrVars, sub, rx, blocked>>

\* 102/1 at station 0: whoever asks is appended if the start of the route is
\* behind.  The location is () before the first move: an IndexError.
AnswerMerge(s) ==
  /\ s # 0
  /\ Receives(s, 0, "mergeReq")
  /\ \/ /\ pos[0] = 0
        /\ RxDies(0, "index")
        /\ UNCHANGED group
     \/ /\ pos[0] # 0
        /\ FALSE \in check(pos[0], 0)
        /\ net' = Take(net, s, 0)
        /\ UNCHANGED <<group, rx>>
     \/ /\ pos[0] # 0
        /\ TRUE \in check(pos[0], 0)
        /\ ~group[0].str
        /\ RxDies(0, "type")
        /\ UNCHANGED group
     \/ /\ pos[0] # 0
        /\ TRUE \in check(pos[0], 0)
        /\ group[0].str
        /\ LET members == Append(group[0].digits, s)
           IN  /\ group' = [group EXCEPT ![0] = StrGroup(members)]
               /\ net' = Publish(Take(net, s, 0), 0, Denm("mergeReply", 0, members, s))
        /\ UNCHANGED rx
  /\ UNCHANGED <<mainVars, checkVars, groupID, synced, overlord, surrVars, sub, blocked>>

\* 102/1 at station 1: check reads the heading, the third element of a pair.
\* (Only station 2 sends a 102/1, so on_message4 never handles one.)
FailMerge1(s) ==
  /\ s # 1
  /\ Receives(s, 1, "mergeReq")
  /\ RxDies(1, "index")
  /\ UNCHANGED <<mainVars, checkVars, valVars, surrVars, sub, blocked>>

\* 102/1 at station 3: pass.
IgnoreMerge3(s) ==
  /\ s # 3
  /\ Receives(s, 3, "mergeReq")
  /\ net' = Take(net, s, 3)
  /\ UNCHANGED <<mainVars, checkVars, valVars, surrVars, sub, rx, blocked>>

\* 102/2: the merge reply is taken by everyone who hears it.
RxMergeReply(s, r) ==
  /\ s # r
  /\ Receives(s, r, "mergeReply")
  /\ overlord' = [overlord EXCEPT ![r] = s]
  /\ net' = Take(net, s, r)
  /\ UNCHANGED <<mainVars, checkVars, groupID, group, synced, surrVars, sub, rx, blocked>>

\* What the four handlers have in common.
RxCommon(s, r) ==
  \/ InsertKey(s, r)
  \/ RxCam(s, r)
  \/ s = r /\ RxOwnDenm(r)
  \/ RxSet(s, r)
  \/ RxRepeat(s, r)
  \/ IgnoreAsk(s, r)
  \/ RxReply(s, r)
  \/ RxMergeReply(s, r)

on_message2(s) == RxCommon(s, 0) \/ AnswerAsk(s) \/ AnswerMerge(s)
on_message3(s) == RxCommon(s, 1) \/ FailAsk1(s) \/ FailMerge1(s)
on_message4(s) == RxCommon(s, 2) \/ AskToMerge(s) \/ FailAsk2(s)
on_message5(s) == RxCommon(s, 3) \/ FailAsk3(s) \/ IgnoreMerge3(s)

on_message(s, r) ==
  \/ r = 0 /\ on_message2(s)
  \/ r = 1 /\ on_message3(s)
  \/ r = 2 /\ on_message4(s)
  \/ r = 3 /\ on_message5(s)

-----------------------------------------------------------------------------
(***************************************************************************)
(* The environment: radio losses and an operator who lifts a block.        *)
(***************************************************************************)

Lose(s, r) ==
  /\ <<s, r>> \in Lossy
  /\ s # r
  /\ net[<<s, r>>] # <<>>
  /\ blank[r] # s                                  \* not in the handler's hands
  /\ net' = Take(net, s, r)
  /\ UNCHANGED <<mainVars, checkVars, valVars, surrVars, sub, rx, blocked>>

Unblock(r, s) ==
  /\ <<r, s>> \in blocked \cap Unblockable
  /\ blocked' = blocked \ {<<r, s>>}
  /\ UNCHANGED <<mainVars, checkVars, valVars, surrVars, sub, rx, net>>

\* Nothing is left to do: every process has ended (or is parked).
Finished ==
  /\ \A i \in OBU : Ended(i) \/ pos[i] >= ParkAt[i]
  /\ UNCHANGED vars

Next ==
  \/ \E i \in OBU : startSimul(i)
  \/ \E r \in OBU : on_connect(r)
  \/ \E s, r \in OBU : on_message(s, r)
  \/ \E s, r \in OBU : Lose(s, r)
  \/ \E r, s \in OBU : Unblock(r, s)
  \/ Finished

Spec == Init /\ [][Next]_vars

(***************************************************************************)
(* Fairness: the operating system schedules both threads of every process, *)
(* and the MQTT client keeps reading the connection to its broker.         *)
(***************************************************************************)
Fairness ==
  /\ \A i \in OBU : WF_vars(startSimul(i))
  /\ \A r \in OBU : WF_vars(on_connect(r))
  /\ \A s, r \in OBU : WF_vars(on_message(s, r))

FairSpec == Spec /\ Fairness

-----------------------------------------------------------------------------
(***************************************************************************)
(* Properties.                                                             *)
(***************************************************************************)

Elements(q) == {q[k] : k \in 1..Len(q)}
InFlight(l) == Elements(net[l])
Sent == UNION {InFlight(l) : l \in Links}

\* The length of the first k segments.
DrivenAfter[k \in 0..Len(Distances)] ==
  IF k = 0 THEN 0 ELSE DrivenAfter[k - 1] + Distances[k]

(***************************************************************************)
(* Every variable has its type.  In particular interval, the index into    *)
(* distances and bearings, stays in range until the route is done, and     *)
(* every informationQuality fits its ASN.1 range.                          *)
(***************************************************************************)
TypeOK ==
  /\ pc \in [OBU -> MainPoints]
  /\ err \in [OBU -> Exceptions]
  /\ msgNum \in [OBU -> Nat]
  /\ checkTime \in [OBU -> Nat]
  /\ currentGroup \in [OBU -> {NoGroup} \cup OBU]
  /\ repeatDenm \in [OBU -> BOOLEAN]
  /\ pos \in [OBU -> Nat]
  /\ interval \in [OBU -> Nat]
  /\ run \in [OBU -> Nat]
  /\ checkAt \in [OBU -> Nat]
  /\ checkLen \in [OBU -> Nat]
  /\ checkMe \in [OBU -> Nat]
  /\ groupID \in [OBU -> {NoGroup} \cup OBU]
  /\ group \in [OBU -> GroupValue]
  /\ synced \in [OBU -> BOOLEAN]
  /\ overlord \in [OBU -> {NoOverlord} \cup OBU]
  /\ seen \in [OBU -> Seq(OBU)]
  /\ surr \in [OBU -> [OBU -> Nat]]
  /\ blank \in [OBU -> {NoStation} \cup OBU]
  /\ sub \in [OBU -> BOOLEAN]
  /\ rx \in [OBU -> {"up", "json", "ask", "index", "type"}]
  /\ net \in [Links -> Seq(Message)]
  /\ blocked \subseteq Links

(***************************************************************************)
(* The test "msgNum == checkTime" of startSimul is an equality: it fires   *)
(* only if msgNum never jumps over checkTime.  vals["checkTime"] is        *)
(* changed by the network thread between two tests.                        *)
(***************************************************************************)
CheckNeverSkipped ==
  \A i \in OBU : /\ msgNum[i] <= checkTime[i]
                 /\ checkTime[i] <= ValsCheckTime(i)

(***************************************************************************)
(* A station in the group of another one (vals["groupID"]) follows a       *)
(* station that did declare itself leader, and drives with the group's     *)
(* speed and checkTime; so does a leader that repeats its set DENM.        *)
(***************************************************************************)
FollowersFollowLeaders ==
  \A i \in OBU :
    /\ groupID[i] \notin {NoGroup, i} => Leads(groupID[i]) /\ synced[i]
    /\ repeatDenm[i] => Leads(i) /\ synced[i]

(***************************************************************************)
(* A station that leads is ended by an exception only if there are two     *)
(* leaders.  The RuntimeError and the IndexErrors that the network thread  *)
(* causes in leaderCheck (a key inserted during the loop, or read before   *)
(* its first position) hit stations that do not lead yet, never the leader *)
(* of others; the TypeError of vals["group"] + str(currClient), with an    *)
(* integer group, hits a leader, but not through the answers of stations   *)
(* that only follow it.                                                    *)
(***************************************************************************)
LeaderCrashNeedsRival ==
  \A i \in OBU :
    /\ err[i] = "type" => Leads(i)
    /\ err[i] # "none" /\ Leads(i) => \E j \in OBU \ {i} : Leads(j)

(***************************************************************************)
(* An overlord, wherever a merge reply was heard, is station 0, and the    *)
(* merge goes back to station 2, already in a group, having heard a leader *)
(* other than itself.                                                      *)
(***************************************************************************)
MergeIsTraceable ==
  \A i \in OBU :
    overlord[i] # NoOverlord =>
      /\ overlord[i] = 0
      /\ 2 \in OBU
      /\ groupID[2] # NoGroup
      /\ \E j \in OBU \ {2} : Leads(j)

\* The first station other than itself that i has heard of.
HeardFirst(i, j) ==
  \E k \in 1..Len(seen[i]) :
    seen[i][k] = j /\ \A h \in 1..(k - 1) : seen[i][h] = i

(***************************************************************************)
(* json.loads fails on the echo of an own DENM, and ends the network       *)
(* thread, only at a leader other than station 0 whose member list begins  *)
(* with station 0.                                                         *)
(***************************************************************************)
MalformedOnlyAfterZero ==
  \A i \in OBU : rx[i] = "json" => i # 0 /\ Leads(i) /\ HeardFirst(i, 0)

(***************************************************************************)
(* A set or repeat DENM on its way ends with the number of its sender,     *)
(* which leads, and lists only stations that have connected: no phantom    *)
(* member.  The set DENM of a station other than 0, which has no answer    *)
(* that changes its list, names every station once.                        *)
(***************************************************************************)
AnnouncementsAreTrue ==
  \A m \in Sent :
    m.type \in {"set", "repeat"} =>
      /\ m.seq # <<>> /\ m.seq[Len(m.seq)] = m.from
      /\ Leads(m.from)
      /\ \A k \in 1..Len(m.seq) : m.seq[k] \in OBU /\ pc[m.seq[k]] # "init"
      /\ m.type = "set" /\ m.from # 0 =>
           \A j, k \in 1..Len(m.seq) : m.seq[j] = m.seq[k] => j = k

(***************************************************************************)
(* The positions a station has recorded were positions of the cars, and    *)
(* never run ahead of them; the whole route has been driven when           *)
(* startSimul returns, and interval stays a valid index until then.        *)
(***************************************************************************)
RouteFollowed ==
  \A i \in OBU :
    /\ \A j \in OBU : surr[i][j] <= pos[j]
    /\ pc[i] # "done" => interval[i] \in 1..Len(Distances)
    /\ \A k \in 1..Len(Distances) : interval[i] > k => pos[i] >= DrivenAfter[k]

(***************************************************************************)
(* The last known position of a car never goes back: what leaderCheck      *)
(* compares was recorded in the order in which it was sent.                *)
(***************************************************************************)
PositionsAdvance ==
  [][\A i, j \in OBU : surr'[i][j] >= surr[i][j]]_vars

(***************************************************************************)
(* Every process comes to its end, with or without an exception.           *)
(***************************************************************************)
Terminates == \A i \in OBU : <>Ended(i)

(***************************************************************************)
(* A station that a set or a repeat DENM is on its way to gets a group: at *)
(* once by the set, and having missed that, by the repeat, its own         *)
(* question and the echo of the question, unless its process or its        *)
(* network thread ends.                                                    *)
(***************************************************************************)
AnnouncedTo(r) ==
  \E s \in OBU \ {r} : \E m \in InFlight(<<s, r>>) : m.type \in {"set", "repeat"}
EveryListenerGetsAGroup ==
  \A r \in OBU :
    (AnnouncedTo(r) /\ []~Ended(r)) ~> (groupID[r] # NoGroup \/ rx[r] # "up")

(***************************************************************************)
(* The simulator implements the abstract membership.                       *)
(***************************************************************************)
M == INSTANCE Membership WITH
       Station <- OBU,
       leaders <- {i \in OBU : Leads(i)},
       member <- groupID

MembershipSpec == M!Spec

(***************************************************************************)
(* What a comment of on_message2 says of the test groupID == 0: "I am the  *)
(* leader - must respond".  The echo of an own join request makes it hold  *)
(* at a station that never declared itself leader.                         *)
(***************************************************************************)
OwnGroupMeansLeader == \A i \in OBU : groupID[i] = i => Leads(i)

(***************************************************************************)
(* The same comment, of the station that is asked: it answers and stays    *)
(* able to.                                                                *)
(***************************************************************************)
AskIsAnswered == \A i \in OBU : rx[i] # "ask"

(***************************************************************************)
(* SequenceNumber ::= INTEGER (0..65535): what a DENM carries can be       *)
(* encoded.                                                                *)
(***************************************************************************)
SequenceNumbersFit == \A m \in Sent : Transmittable(m)
=============================================================================
