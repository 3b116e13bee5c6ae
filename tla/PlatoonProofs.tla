--------------------------- MODULE PlatoonProofs ---------------------------
(***************************************************************************)
(* Types, the safety invariants of Platoon, the refinement of Membership,  *)
(* and what the stations record - the positions of the cars                *)
(* (mySurroudings) along the route, and the lists of members, in           *)
(* vals["group"] and in the DENMs - for every set of stations, route,      *)
(* period and environment the assumptions of Platoon allow.                *)
(***************************************************************************)
EXTENDS Platoon, SequenceTheorems, WellFoundedInduction, TLAPS

Net == [Links -> Seq(Message)]

-----------------------------------------------------------------------------
(***************************************************************************)
(* The network operators: their types, and which messages they leave in    *)
(* flight.                                                                 *)
(***************************************************************************)

\* Publish, the broker of a station, appends at most the message.
LEMMA PublishType ==
  ASSUME NEW n \in Net, NEW s \in OBU, NEW m \in Message
  PROVE  Publish(n, s, m) \in Net
  BY DEF Publish, Net

\* Take removes the head of a link.
LEMMA TakeType ==
  ASSUME NEW n \in Net, NEW s \in OBU, NEW r \in OBU, n[<<s, r>>] # <<>>
  PROVE  Take(n, s, r) \in Net
  BY DEF Take, Net, Links

\* Deafen empties the links into a station.
LEMMA DeafenType ==
  ASSUME NEW n \in Net, NEW r \in OBU
  PROVE  Deafen(n, r) \in Net
  BY DEF Deafen, Net

\* What is in flight after Publish was so before or is the message published.
LEMMA PublishElements ==
  ASSUME NEW n \in Net, NEW s \in OBU, NEW m \in Message, NEW l \in Links,
         NEW x \in Elements(Publish(n, s, m)[l])
  PROVE  x \in Elements(n[l]) \/ (l[1] = s /\ x = m)
  <1>1. n[l] \in Seq(Message)
    BY DEF Net
  <1>2. CASE l[1] = s /\ Delivers(s, l[2], m)
    <2>1. Publish(n, s, m)[l] = Append(n[l], m)
      BY <1>2 DEF Publish
    <2> QED
      BY <1>1, <1>2, <2>1 DEF Elements
  <1>3. CASE ~(l[1] = s /\ Delivers(s, l[2], m))
    BY <1>3 DEF Publish
  <1> QED
    BY <1>2, <1>3

\* Take leaves nothing in flight that was not.
LEMMA TakeElements ==
  ASSUME NEW n \in Net, NEW s \in OBU, NEW r \in OBU, n[<<s, r>>] # <<>>,
         NEW l \in Links, NEW x \in Elements(Take(n, s, r)[l])
  PROVE  x \in Elements(n[l])
  <1>1. n[l] \in Seq(Message)
    BY DEF Net
  <1>2. CASE l = <<s, r>>
    <2>1. Take(n, s, r)[l] = Tail(n[l])
      BY <1>2 DEF Take, Net
    <2> QED
      BY <1>1, <1>2, <2>1 DEF Elements
  <1>3. CASE l # <<s, r>>
    BY <1>3 DEF Take, Net
  <1> QED
    BY <1>2, <1>3

\* Neither does Deafen.
LEMMA DeafenElements ==
  ASSUME NEW n \in Net, NEW r \in OBU, NEW l \in Links,
         NEW x \in Elements(Deafen(n, r)[l])
  PROVE  x \in Elements(n[l])
  BY DEF Deafen, Elements

\* The message a handler looks at is in flight.
LEMMA HeadInFlight ==
  ASSUME NEW n \in Net, NEW l \in Links, n[l] # <<>>
  PROVE  Head(n[l]) \in Elements(n[l]) /\ Head(n[l]) \in Message
  <1>1. n[l] \in Seq(Message)
    BY DEF Net
  <1> QED
    BY <1>1 DEF Elements

-----------------------------------------------------------------------------
(***************************************************************************)
(* Types.                                                                  *)
(***************************************************************************)

\* Stations are digits and no station number is "no group".
LEMMA StationDigits == \A i \in OBU : i \in 0..3 /\ i \in Nat /\ i # NoGroup
  BY OBUAssumption DEF NoGroup

\* The messages of the code are messages of the model.
LEMMA CamType ==
  ASSUME NEW i \in OBU, NEW p \in Nat
  PROVE  Cam(i, p) \in Message
  BY DEF Cam, Message, MessageType

LEMMA DenmType ==
  ASSUME NEW t \in MessageType, NEW i \in OBU, NEW q \in Seq(0..3), NEW quality \in 0..7
  PROVE  Denm(t, i, q, quality) \in Message
  BY DEF Denm, Message

\* A leader announces digits.
LEMMA AnnouncedType ==
  ASSUME TypeOK, NEW i \in OBU
  PROVE  Announced(i) \in Seq(0..3)
  BY StationDigits DEF Announced, TypeOK, GroupValue

\* Removing an element keeps a sequence of stations one.
LEMMA OthersType ==
  ASSUME TypeOK, NEW i \in OBU
  PROVE  Others(i) \in Seq(0..3)
  <1>1. seen[i] \in Seq(OBU) /\ seen[i] \in Seq(0..3)
    BY StationDigits DEF TypeOK
  <1>2. CASE Knows(i, i)
    <2>1. PICK k \in 1..Len(seen[i]) :
            k = CHOOSE h \in 1..Len(seen[i]) : seen[i][h] = i
      BY <1>2 DEF Knows
    <2>2. \A h \in 1..Len(seen[i]) : seen[i][h] \in 0..3
      BY <1>1
    <2>3. SubSeq(seen[i], 1, k - 1) \in Seq(0..3)
      BY <1>1, <2>2, SubSeqProperties
    <2>4. SubSeq(seen[i], k + 1, Len(seen[i])) \in Seq(0..3)
      BY <1>1, <2>2, SubSeqProperties
    <2> QED
      BY <1>2, <2>1, <2>3, <2>4 DEF Others, Without
  <1>3. CASE ~Knows(i, i)
    BY <1>1, <1>3 DEF Others
  <1> QED
    BY <1>2, <1>3

\* The initial values have their types.
LEMMA TypeInit == Init => TypeOK
  BY OBUAssumption, PeriodAssumption
  DEF Init, TypeOK, MainPoints, Exceptions, GroupValue, StrGroup, Blocked, Links, NoGroup,
      NoOverlord, NoStation

\* The periods and the speeds of the code are natural numbers.
LEMMA ValsType ==
  ASSUME NEW i \in OBU
  PROVE  ValsCheckTime(i) \in Nat /\ ValsSpeed(i) \in Nat
  BY PeriodAssumption, RouteAssumption DEF ValsCheckTime, ValsSpeed

\* The main thread, startSimul, keeps the types.
LEMMA MainType ==
  ASSUME TypeOK, NEW i \in OBU, startSimul(i)
  PROVE  TypeOK'
  <1> USE DEF mainVars, checkVars, valVars, surrVars, linkVars, MainPoints, Exceptions
  <1>0. net \in Net /\ pos[i] \in Nat
    BY DEF TypeOK, Net
  <1>a. pc \in [OBU -> MainPoints] /\ err \in [OBU -> Exceptions]
    BY DEF TypeOK
  <1>b. /\ checkTime \in [OBU -> Nat]
        /\ msgNum \in [OBU -> Nat]
        /\ pos \in [OBU -> Nat]
        /\ interval \in [OBU -> Nat]
        /\ run \in [OBU -> Nat]
    BY DEF TypeOK
  <1>c. checkAt \in [OBU -> Nat] /\ checkLen \in [OBU -> Nat] /\ checkMe \in [OBU -> Nat]
    BY DEF TypeOK
  <1>1. CASE Connect(i)
    BY <1>1 DEF TypeOK, Connect
  <1>10. CASE FailConnect(i)
    <2>1. net' \in Net
      BY <1>0, <1>10, DeafenType DEF FailConnect, Crash
    <2> QED
      BY <1>10, <2>1 DEF TypeOK, FailConnect, Crash, Net
  <1>2. CASE FirstCam(i)
    <2>1. net' \in Net
      BY <1>0, <1>2, CamType, PublishType DEF FirstCam
    <2> QED
      BY <1>2, <2>1, ValsType DEF TypeOK, FirstCam, Net
  <1>3. CASE Repeat(i)
    <2>1. Denm("repeat", i, Announced(i), 7) \in Message
      BY AnnouncedType, DenmType DEF MessageType
    <2>2. net' \in Net
      BY <1>0, <1>3, <2>1, PublishType, DeafenType DEF Repeat, Crash
    <2>3. pc' \in [OBU -> MainPoints] /\ err' \in [OBU -> Exceptions]
      BY <1>3, <1>a DEF Repeat, Crash
    <2> QED
      BY <1>3, <2>2, <2>3 DEF TypeOK, Repeat, Net
  <1>4. CASE Lead(i)
    <2>1. Denm("set", i, Announced(i), 7) \in Message
      BY AnnouncedType, DenmType DEF MessageType
    <2>2. net' \in Net
      BY <1>0, <1>4, <2>1, PublishType, DeafenType DEF Lead, Crash
    <2>3. pc' \in [OBU -> MainPoints] /\ err' \in [OBU -> Exceptions]
      BY <1>4, <1>a DEF Lead, Crash
    <2>4. checkTime' \in [OBU -> Nat]
      BY <1>4, <1>b, PeriodAssumption DEF Lead
    <2>5. synced' \in [OBU -> BOOLEAN] /\ repeatDenm' \in [OBU -> BOOLEAN]
      BY <1>4 DEF TypeOK, Lead
    <2> QED
      BY <1>4, <2>2, <2>3, <2>4, <2>5 DEF TypeOK, Lead, Net
  <1>5. CASE Move(i)
    <2> DEFINE sent == Publish(net, i, Cam(i, pos[i] + ValsSpeed(i)))
    <2>1. sent \in Net
      BY <1>0, ValsType, CamType, PublishType
    <2>2. net' \in {sent, Deafen(sent, i), Deafen(net, i)}
      BY <1>5 DEF Move
    <2>6. net' \in Net
      BY <1>0, <2>1, <2>2, DeafenType
    <2>3. pc' \in [OBU -> MainPoints]
      BY <1>5, <1>a DEF Move
    <2>4. checkTime' \in [OBU -> Nat] /\ pos' \in [OBU -> Nat] /\ msgNum' \in [OBU -> Nat]
      BY <1>5, <1>b, ValsType DEF Move
    <2>5. run' \in [OBU -> Nat] /\ interval' \in [OBU -> Nat]
      BY <1>5, <1>b, ValsType DEF Move
    <2> QED
      BY <1>5, <2>3, <2>4, <2>5, <2>6 DEF TypeOK, Move, Net
  <1>6. CASE StartCheck(i)
    <2>1. net' \in Net
      BY <1>0, <1>6, DeafenType DEF StartCheck, Crash
    <2>2. Len(seen[i]) \in Nat /\ surr[i][i] \in Nat
      BY DEF TypeOK
    <2>3. pc' \in [OBU -> MainPoints] /\ err' \in [OBU -> Exceptions]
      BY <1>6, <1>a DEF StartCheck, Crash
    <2>4. \/ UNCHANGED <<checkAt, checkLen, checkMe>>
          \/ /\ checkAt' = [checkAt EXCEPT ![i] = 1]
             /\ checkLen' = [checkLen EXCEPT ![i] = Len(seen[i])]
             /\ checkMe' = [checkMe EXCEPT ![i] = surr[i][i]]
      BY <1>6 DEF StartCheck
    <2>5. checkAt' \in [OBU -> Nat] /\ checkLen' \in [OBU -> Nat] /\ checkMe' \in [OBU -> Nat]
      <3>1. CASE UNCHANGED <<checkAt, checkLen, checkMe>>
        BY <1>c, <3>1
      <3>2. CASE /\ checkAt' = [checkAt EXCEPT ![i] = 1]
                 /\ checkLen' = [checkLen EXCEPT ![i] = Len(seen[i])]
                 /\ checkMe' = [checkMe EXCEPT ![i] = surr[i][i]]
        BY <1>c, <2>2, <3>2
      <3> QED
        BY <2>4, <3>1, <3>2
    <2> QED
      BY <1>6, <2>1, <2>3, <2>5 DEF TypeOK, StartCheck, ResetMsgNum, Net
  <1>7. CASE CheckSizeChanged(i)
    <2>1. net' \in Net
      BY <1>0, <1>7, DeafenType DEF CheckSizeChanged, Crash
    <2> QED
      BY <1>7, <2>1 DEF TypeOK, CheckSizeChanged, Crash, Net
  <1>11. CASE CheckEmptyKey(i)
    <2>1. net' \in Net
      BY <1>0, <1>11, DeafenType DEF CheckEmptyKey, Crash
    <2> QED
      BY <1>11, <2>1 DEF TypeOK, CheckEmptyKey, Crash, Net
  <1>8. CASE CheckKey(i)
    <2>1. PICK ahead : /\ pc' = [pc EXCEPT ![i] = IF ahead THEN "check" ELSE "top"]
                       /\ checkAt' = [checkAt EXCEPT ![i] = IF ahead THEN @ + 1 ELSE 0]
      BY <1>8 DEF CheckKey
    <2>2. pc' \in [OBU -> MainPoints]
      BY <1>a, <2>1
    <2>3. checkAt' \in [OBU -> Nat]
      BY <1>c, <2>1
    <2> QED
      BY <1>8, <2>2, <2>3 DEF TypeOK, CheckKey
  <1>9. CASE CheckEnd(i)
    <2>1. StrGroup(Others(i)) \in GroupValue
      BY OthersType DEF StrGroup, GroupValue
    <2> QED
      BY <1>9, <2>1 DEF TypeOK, CheckEnd
  <1> QED
    BY <1>1, <1>2, <1>3, <1>4, <1>5, <1>6, <1>7, <1>8, <1>9, <1>10, <1>11 DEF startSimul

\* The message a handler has received, and the queues once it is taken.
LEMMA ReceivesType ==
  ASSUME TypeOK, NEW s \in OBU, NEW r \in OBU, NEW t, Receives(s, r, t)
  PROVE  /\ net \in Net
         /\ Head(net[<<s, r>>]) \in Message
         /\ Head(net[<<s, r>>]) \in InFlight(<<s, r>>)
         /\ Head(net[<<s, r>>]).type = t
         /\ Take(net, s, r) \in Net
         /\ Deafen(net, r) \in Net
         /\ <<s, r>> \in Links
  <1>1. net \in Net /\ <<s, r>> \in Links /\ net[<<s, r>>] # <<>>
    BY DEF TypeOK, Net, Links, Receives
  <1> QED
    BY <1>1, HeadInFlight, TakeType, DeafenType DEF Receives, InFlight

\* A list of members with one more station is one.
LEMMA AppendType ==
  ASSUME TypeOK, NEW r \in OBU, NEW s \in OBU
  PROVE  /\ Append(group[r].digits, s) \in Seq(0..3)
         /\ StrGroup(Append(group[r].digits, s)) \in GroupValue
  BY StationDigits DEF TypeOK, GroupValue, StrGroup

\* The network thread, on_message, keeps the types.
LEMMA RxType ==
  ASSUME TypeOK, NEW s \in OBU, NEW r \in OBU, on_message(s, r)
  PROVE  TypeOK'
  <1> USE DEF mainVars, checkVars, valVars, surrVars
  <1> DEFINE m == Head(net[<<s, r>>])
  <1>d. s \in 0..7
    BY StationDigits
  <1>a. /\ surr \in [OBU -> [OBU -> Nat]]
        /\ seen \in [OBU -> Seq(OBU)]
        /\ blank \in [OBU -> {NoStation} \cup OBU]
    BY DEF TypeOK
  <1>b. /\ groupID \in [OBU -> {NoGroup} \cup OBU]
        /\ group \in [OBU -> GroupValue]
        /\ rx \in [OBU -> {"up", "json", "ask", "index", "type"}]
    BY DEF TypeOK
  <1>1. CASE RxCam(s, r)
    <2>1. m \in Message /\ Take(net, s, r) \in Net
      BY <1>1, ReceivesType DEF RxCam
    <2>2. m.pos \in Nat
      BY <2>1 DEF Message
    <2>3. \/ UNCHANGED <<surr, blank>>
          \/ /\ surr' = [surr EXCEPT ![r][s] = m.pos]
             /\ blank' = [blank EXCEPT ![r] = NoStation]
      BY <1>1 DEF RxCam
    <2>4. surr' \in [OBU -> [OBU -> Nat]] /\ blank' \in [OBU -> {NoStation} \cup OBU]
      <3>1. CASE UNCHANGED <<surr, blank>>
        BY <1>a, <3>1
      <3>2. CASE /\ surr' = [surr EXCEPT ![r][s] = m.pos]
                 /\ blank' = [blank EXCEPT ![r] = NoStation]
        BY <1>a, <2>2, <3>2
      <3> QED
        BY <2>3, <3>1, <3>2
    <2> QED
      BY <1>1, <2>1, <2>4 DEF TypeOK, RxCam, Net
  <1>14. CASE InsertKey(s, r)
    <2>1. /\ seen' = [seen EXCEPT ![r] = Append(@, s)]
          /\ blank' = [blank EXCEPT ![r] = s]
      BY <1>14 DEF InsertKey
    <2>2. seen' \in [OBU -> Seq(OBU)] /\ blank' \in [OBU -> {NoStation} \cup OBU]
      BY <1>a, <2>1
    <2> QED
      BY <1>14, <2>2 DEF TypeOK, InsertKey
  <1>2. CASE s = r /\ RxOwnDenm(r)
    <2>1. Take(net, r, r) \in Net /\ Deafen(net, r) \in Net
      BY <1>2, ReceivesType DEF RxOwnDenm
    <2>2. /\ groupID' \in [OBU -> {NoGroup} \cup OBU]
          /\ rx' \in [OBU -> {"up", "json", "ask", "index", "type"}]
          /\ net' \in Net
      BY <1>2, <1>b, <2>1 DEF RxOwnDenm, RxDies
    <2> QED
      BY <1>2, <2>2 DEF TypeOK, RxOwnDenm, Net
  <1>3. CASE RxSet(s, r)
    <2>1. Take(net, s, r) \in Net
      BY <1>3, ReceivesType DEF RxSet
    <2> QED
      BY <1>3, <2>1 DEF TypeOK, RxSet, Net
  <1>4. CASE RxRepeat(s, r)
    <2>1. m \in Message /\ Take(net, s, r) \in Net
      BY <1>4, ReceivesType DEF RxRepeat
    <2>2. IntGroup(m.seq) \in GroupValue
      BY <2>1 DEF Message, IntGroup, GroupValue
    <2>3. Denm("ask", r, <<0>>, 7) \in Message
      BY DEF Denm, Message, MessageType
    <2>4. Publish(Take(net, s, r), r, Denm("ask", r, <<0>>, 7)) \in Net
      BY <2>1, <2>3, PublishType
    <2>5. group' \in [OBU -> GroupValue] /\ net' \in Net
      BY <1>4, <1>b, <2>1, <2>2, <2>4 DEF RxRepeat
    <2> QED
      BY <1>4, <2>5 DEF TypeOK, RxRepeat, Net
  <1>5. CASE r = 2 /\ AskToMerge(s)
    <2>1. Take(net, s, r) \in Net
      BY <1>5, ReceivesType DEF AskToMerge
    <2>2. Denm("mergeReq", r, <<0>>, 7) \in Message
      BY DEF Denm, Message, MessageType
    <2>3. Publish(Take(net, s, r), r, Denm("mergeReq", r, <<0>>, 7)) \in Net
      BY <2>1, <2>2, PublishType
    <2> QED
      BY <1>5, <2>3 DEF TypeOK, AskToMerge, Net
  <1>6. CASE IgnoreAsk(s, r)
    <2>1. Take(net, s, r) \in Net
      BY <1>6, ReceivesType DEF IgnoreAsk
    <2> QED
      BY <1>6, <2>1 DEF TypeOK, IgnoreAsk, Net
  <1>7. CASE r = 0 /\ AnswerAsk(s)
    <2> DEFINE members == Append(group[r].digits, s)
    <2>1. Take(net, s, r) \in Net
      BY <1>7, ReceivesType DEF AnswerAsk
    <2>2. members \in Seq(0..3) /\ StrGroup(members) \in GroupValue
      BY AppendType
    <2>3. Publish(Take(net, s, r), r, Denm("reply", r, members, s)) \in Net
      BY <1>d, <2>1, <2>2, DenmType, PublishType DEF MessageType
    <2> QED
      BY <1>7, <2>2, <2>3 DEF TypeOK, AnswerAsk, Net
  <1>8. CASE FailAsk(s, r)
    <2>1. Deafen(net, r) \in Net
      BY <1>8, ReceivesType DEF FailAsk
    <2> QED
      BY <1>8, <2>1 DEF TypeOK, FailAsk, RxDies, Net
  <1>9. CASE RxReply(s, r)
    <2>1. m \in Message /\ Take(net, s, r) \in Net
      BY <1>9, ReceivesType DEF RxReply
    <2>2. IntGroup(m.seq) \in GroupValue
      BY <2>1 DEF Message, IntGroup, GroupValue
    <2> QED
      BY <1>9, <2>1, <2>2 DEF TypeOK, RxReply, Net
  <1>10. CASE r = 0 /\ AnswerMerge(s)
    <2> DEFINE members == Append(group[r].digits, s)
    <2>1. Take(net, s, r) \in Net /\ Deafen(net, r) \in Net
      BY <1>10, ReceivesType DEF AnswerMerge
    <2>2. members \in Seq(0..3) /\ StrGroup(members) \in GroupValue
      BY AppendType
    <2>3. Publish(Take(net, s, r), r, Denm("mergeReply", r, members, s)) \in Net
      BY <1>d, <2>1, <2>2, DenmType, PublishType DEF MessageType
    <2>4. /\ group' \in [OBU -> GroupValue]
          /\ rx' \in [OBU -> {"up", "json", "ask", "index", "type"}]
          /\ net' \in Net
      BY <1>10, <1>b, <2>1, <2>2, <2>3 DEF AnswerMerge, RxDies
    <2> QED
      BY <1>10, <2>4 DEF TypeOK, AnswerMerge, Net
  <1>11. CASE r = 1 /\ FailMerge1(s)
    <2>1. Deafen(net, r) \in Net
      BY <1>11, ReceivesType DEF FailMerge1
    <2> QED
      BY <1>11, <2>1 DEF TypeOK, FailMerge1, RxDies, Net
  <1>12. CASE r = 3 /\ IgnoreMerge3(s)
    <2>1. Take(net, s, r) \in Net
      BY <1>12, ReceivesType DEF IgnoreMerge3
    <2> QED
      BY <1>12, <2>1 DEF TypeOK, IgnoreMerge3, Net
  <1>13. CASE RxMergeReply(s, r)
    <2>1. Take(net, s, r) \in Net
      BY <1>13, ReceivesType DEF RxMergeReply
    <2> QED
      BY <1>13, <2>1 DEF TypeOK, RxMergeReply, Net
  <1> QED
    BY <1>1, <1>2, <1>3, <1>4, <1>5, <1>6, <1>7, <1>8, <1>9, <1>10, <1>11, <1>12, <1>13, <1>14
    DEF on_message, on_message2, on_message3, on_message4, on_message5, RxCommon,
        FailAsk1, FailAsk2, FailAsk3

\* Every step of the system keeps the types.
LEMMA TypeStep == TypeOK /\ [Next]_vars => TypeOK'
  <1> SUFFICES ASSUME TypeOK, [Next]_vars
               PROVE  TypeOK'
    OBVIOUS
  <1> USE DEF mainVars, checkVars, valVars, surrVars, linkVars
  <1>1. ASSUME NEW i \in OBU, startSimul(i) PROVE TypeOK'
    BY <1>1, MainType
  <1>2. ASSUME NEW r \in OBU, on_connect(r) PROVE TypeOK'
    BY <1>2 DEF TypeOK, on_connect
  <1>3. ASSUME NEW s \in OBU, NEW r \in OBU, on_message(s, r) PROVE TypeOK'
    BY <1>3, RxType
  <1>4. ASSUME NEW s \in OBU, NEW r \in OBU, Lose(s, r) PROVE TypeOK'
    <2>1. Take(net, s, r) \in Net
      BY <1>4, TakeType DEF TypeOK, Lose, Net
    <2> QED
      BY <1>4, <2>1 DEF TypeOK, Lose, Net
  <1>5. ASSUME NEW r \in OBU, NEW s \in OBU, Unblock(r, s) PROVE TypeOK'
    BY <1>5 DEF TypeOK, Unblock
  <1>6. CASE UNCHANGED vars
    BY <1>6 DEF TypeOK, vars
  <1> QED
    BY <1>1, <1>2, <1>3, <1>4, <1>5, <1>6 DEF Next, Finished

(***************************************************************************)
(* Every variable of startSimul, vals, mySurroudings and the queues keeps  *)
(* its type, however the threads interleave.                               *)
(***************************************************************************)
THEOREM TypeCorrect == Spec => []TypeOK
  BY TypeInit, TypeStep, PTL DEF Spec

-----------------------------------------------------------------------------
(***************************************************************************)
(* The leader check.                                                       *)
(***************************************************************************)

\* The counter and the period start in order.
LEMMA CheckInit == Init => CheckNeverSkipped
  BY PeriodAssumption DEF Init, CheckNeverSkipped, ValsCheckTime

(***************************************************************************)
(* Both are changed by startSimul, and only the period by RxSet, in the    *)
(* network thread, which may only raise it.                                *)
(***************************************************************************)
LEMMA CheckStep == TypeOK /\ CheckNeverSkipped /\ [Next]_vars => CheckNeverSkipped'
  <1> SUFFICES ASSUME TypeOK, CheckNeverSkipped, [Next]_vars
               PROVE  CheckNeverSkipped'
    OBVIOUS
  <1> USE DEF mainVars, checkVars, valVars, surrVars, linkVars
  <1>t. /\ msgNum \in [OBU -> Nat]
        /\ checkTime \in [OBU -> Nat]
        /\ synced \in [OBU -> BOOLEAN]
    BY DEF TypeOK
  <1>p. CheckEvery \in Nat /\ CheckEvery > 1 /\ SyncCheck \in Nat /\ SyncCheck >= CheckEvery
    BY PeriodAssumption
  <1>u. CASE UNCHANGED <<msgNum, checkTime, synced>>
    BY <1>u DEF CheckNeverSkipped, ValsCheckTime
  <1>1. ASSUME NEW i \in OBU, FirstCam(i) PROVE CheckNeverSkipped'
    BY <1>1, <1>t, <1>p DEF FirstCam, CheckNeverSkipped, ValsCheckTime
  <1>2. ASSUME NEW i \in OBU, StartCheck(i) PROVE CheckNeverSkipped'
    BY <1>2, <1>t, <1>p DEF StartCheck, ResetMsgNum, CheckNeverSkipped, ValsCheckTime
  <1>3. ASSUME NEW i \in OBU, Lead(i) PROVE CheckNeverSkipped'
    <2>1. CASE UNCHANGED <<checkTime, synced>>
      BY <1>3, <1>u, <2>1 DEF Lead
    <2>2. CASE /\ synced' = [synced EXCEPT ![i] = TRUE]
               /\ checkTime' = [checkTime EXCEPT ![i] = SyncCheck]
      <3>1. msgNum' = msgNum
        BY <1>3 DEF Lead
      <3> QED
        BY <2>2, <3>1, <1>t, <1>p DEF CheckNeverSkipped, ValsCheckTime
    <2> QED
      BY <1>3, <2>1, <2>2 DEF Lead
  <1>4. ASSUME NEW i \in OBU, Move(i) PROVE CheckNeverSkipped'
    <2>1. /\ msgNum[i] # checkTime[i]
          /\ checkTime' = [checkTime EXCEPT ![i] = ValsCheckTime(i)]
          /\ msgNum' = [msgNum EXCEPT ![i] = @ + 1]
          /\ synced' = synced
      BY <1>4 DEF Move
    <2> QED
      BY <2>1, <1>t, <1>p DEF CheckNeverSkipped, ValsCheckTime
  <1>5. ASSUME NEW s \in OBU, NEW r \in OBU, RxSet(s, r) PROVE CheckNeverSkipped'
    BY <1>5, <1>t, <1>p DEF RxSet, CheckNeverSkipped, ValsCheckTime
  <1>6. ASSUME NEW i \in OBU, startSimul(i) PROVE CheckNeverSkipped'
    BY <1>6, <1>1, <1>2, <1>3, <1>4, <1>u
    DEF startSimul, Connect, FailConnect, Repeat, CheckSizeChanged, CheckEmptyKey, CheckKey,
        CheckEnd
  <1>7. ASSUME NEW s \in OBU, NEW r \in OBU, on_message(s, r) PROVE CheckNeverSkipped'
    <2>1. RxSet(s, r) \/ UNCHANGED <<msgNum, checkTime, synced>>
      BY <1>7
      DEF on_message, on_message2, on_message3, on_message4, on_message5, RxCommon,
          InsertKey, RxCam, RxOwnDenm, RxRepeat, AskToMerge, IgnoreAsk, AnswerAsk, RxReply,
          AnswerMerge, FailAsk, FailAsk1, FailAsk2, FailAsk3, FailMerge1, IgnoreMerge3, RxMergeReply
    <2> QED
      BY <2>1, <1>5, <1>u
  <1> QED
    BY <1>6, <1>7, <1>u DEF Next, on_connect, Lose, Unblock, Finished, vars

(***************************************************************************)
(* The equality test msgNum == checkTime of startSimul never misses the    *)
(* moment of a leader check.                                               *)
(***************************************************************************)
THEOREM CheckNotSkipped == Spec => []CheckNeverSkipped
  <1>1. Init => TypeOK /\ CheckNeverSkipped
    BY TypeInit, CheckInit
  <1>2. TypeOK /\ CheckNeverSkipped /\ [Next]_vars => (TypeOK /\ CheckNeverSkipped)'
    BY TypeStep, CheckStep
  <1> QED
    BY <1>1, <1>2, PTL DEF Spec

-----------------------------------------------------------------------------
(***************************************************************************)
(* Leaders, followers and the messages between them.  None of the safety   *)
(* properties is inductive: a property of a station rests on the message   *)
(* it handled, and a message on the station that sent it.                  *)
(***************************************************************************)

Rival(i) == \E j \in OBU \ {i} : Leads(j)

\* What a message in flight on link l tells of the stations.
MessageTrue(l, m) ==
  /\ m.from = l[1]
  /\ m.type \in {"set", "repeat"} => Leads(l[1])
  /\ m.type = "ask" => Rival(l[1])
  /\ m.type = "reply" => Rival(m.quality)
  /\ m.type = "mergeReq" => l[1] = 2 /\ groupID[2] # NoGroup /\ Rival(2)
  /\ m.type = "mergeReply" => l[1] = 0 /\ 2 \in OBU /\ groupID[2] # NoGroup /\ Rival(2)

MessagesTrue == \A l \in Links : \A m \in InFlight(l) : MessageTrue(l, m)

\* An integer group was copied from an announcement or a reply.
IntegerNeedsRival == \A i \in OBU : ~group[i].str => Rival(i)

\* leaderCheck, and what can end it, is for stations that do not lead.
LeadersSkipCheck ==
  \A i \in OBU : pc[i] \in {"init", "connected", "check", "lead"} => ~Leads(i)

\* A process ends with its exception.
RunsWithoutError == \A i \in OBU : err[i] # "none" => pc[i] = "crashed"

StationsTrue ==
  /\ LeadersSkipCheck
  /\ RunsWithoutError
  /\ FollowersFollowLeaders
  /\ LeaderCrashNeedsRival
  /\ MergeIsTraceable
  /\ IntegerNeedsRival

Safety == TypeOK /\ MessagesTrue /\ StationsTrue

\* Nothing is in flight and no station has a group at the start.
LEMMA SafetyInit == Init => Safety
  <1> SUFFICES ASSUME Init PROVE Safety
    OBVIOUS
  <1>1. TypeOK
    BY TypeInit
  <1>2. MessagesTrue
    BY DEF Init, MessagesTrue, InFlight, Elements
  <1>3. StationsTrue
    BY StationDigits
    DEF Init, StationsTrue, LeadersSkipCheck, RunsWithoutError, Leads, FollowersFollowLeaders,
        LeaderCrashNeedsRival, MergeIsTraceable, IntegerNeedsRival, StrGroup
  <1> QED
    BY <1>1, <1>2, <1>3 DEF Safety

\* Only Lead changes currentGroup.
LEMMA LeadersChange ==
  ASSUME [Next]_vars
  PROVE  UNCHANGED currentGroup \/ \E i \in OBU : Lead(i)
  <1> USE DEF mainVars, checkVars, valVars, surrVars, linkVars
  <1>1. ASSUME NEW i \in OBU, startSimul(i) PROVE UNCHANGED currentGroup \/ Lead(i)
    BY <1>1 DEF startSimul, Connect, FailConnect, FirstCam, Repeat, Move, StartCheck,
                CheckSizeChanged, CheckEmptyKey, CheckKey, CheckEnd
  <1>2. ASSUME NEW s \in OBU, NEW r \in OBU, on_message(s, r) PROVE UNCHANGED currentGroup
    BY <1>2
    DEF on_message, on_message2, on_message3, on_message4, on_message5, RxCommon,
        InsertKey, RxCam, RxOwnDenm, RxSet, RxRepeat, AskToMerge, IgnoreAsk, AnswerAsk, RxReply,
        AnswerMerge, FailAsk, FailAsk1, FailAsk2, FailAsk3, FailMerge1, IgnoreMerge3,
        RxMergeReply
  <1> QED
    BY <1>1, <1>2 DEF Next, on_connect, Lose, Unblock, Finished, vars

\* Only the handlers of a set DENM and of an own DENM change groupID.
LEMMA GroupsChange ==
  ASSUME [Next]_vars
  PROVE  \/ UNCHANGED groupID
         \/ \E s, r \in OBU : RxSet(s, r)
         \/ \E r \in OBU : RxOwnDenm(r)
  <1> USE DEF mainVars, checkVars, valVars, surrVars, linkVars
  <1>1. ASSUME NEW i \in OBU, startSimul(i) PROVE UNCHANGED groupID
    BY <1>1 DEF startSimul, Connect, FailConnect, FirstCam, Repeat, Lead, Move, StartCheck,
                CheckSizeChanged, CheckEmptyKey, CheckKey, CheckEnd
  <1>2. ASSUME NEW s \in OBU, NEW r \in OBU, on_message(s, r)
        PROVE  UNCHANGED groupID \/ RxSet(s, r) \/ RxOwnDenm(r)
    BY <1>2
    DEF on_message, on_message2, on_message3, on_message4, on_message5, RxCommon,
        InsertKey, RxCam, RxRepeat, AskToMerge, IgnoreAsk, AnswerAsk, RxReply,
        AnswerMerge, FailAsk, FailAsk1, FailAsk2, FailAsk3, FailMerge1, IgnoreMerge3,
        RxMergeReply
  <1> QED
    BY <1>1, <1>2 DEF Next, on_connect, Lose, Unblock, Finished, vars

\* A leader stays one and a station with a group keeps having one.
LEMMA Stays ==
  ASSUME TypeOK, [Next]_vars
  PROVE  /\ \A j \in OBU : Leads(j) => Leads(j)'
         /\ \A j : Rival(j) => Rival(j)'
         /\ \A j \in OBU : groupID[j] # NoGroup => groupID'[j] # NoGroup
  <1>1. currentGroup \in [OBU -> {NoGroup} \cup OBU] /\ groupID \in [OBU -> {NoGroup} \cup OBU]
    BY DEF TypeOK
  <1>2. ASSUME NEW j \in OBU, Leads(j) PROVE Leads(j)'
    <2>1. CASE UNCHANGED currentGroup
      BY <1>2, <2>1 DEF Leads
    <2>2. ASSUME NEW i \in OBU, Lead(i) PROVE Leads(j)'
      BY <1>1, <1>2, <2>2 DEF Leads, Lead
    <2> QED
      BY <2>1, <2>2, LeadersChange
  <1>3. \A j : Rival(j) => Rival(j)'
    BY <1>2 DEF Rival
  <1>4. ASSUME NEW j \in OBU, groupID[j] # NoGroup PROVE groupID'[j] # NoGroup
    <2>1. CASE UNCHANGED groupID
      BY <1>4, <2>1
    <2>2. ASSUME NEW r \in OBU, NEW s \in OBU, RxSet(s, r) PROVE groupID'[j] # NoGroup
      BY <1>1, <1>4, <2>2, StationDigits DEF RxSet
    <2>3. ASSUME NEW r \in OBU, RxOwnDenm(r) PROVE groupID'[j] # NoGroup
      <3>1. UNCHANGED groupID \/ groupID' = [groupID EXCEPT ![r] = r]
        BY <2>3 DEF RxOwnDenm
      <3>2. CASE groupID' = [groupID EXCEPT ![r] = r]
        BY <1>1, <1>4, <3>2, StationDigits
      <3> QED
        BY <1>4, <3>1, <3>2
    <2> QED
      BY <2>1, <2>2, <2>3, GroupsChange
  <1> QED
    BY <1>2, <1>3, <1>4

\* What a message tells stays true.
LEMMA MessageStays ==
  ASSUME TypeOK, [Next]_vars, NEW l \in Links, NEW m, MessageTrue(l, m)
  PROVE  MessageTrue(l, m)'
  <1>1. l[1] \in OBU
    BY DEF Links
  <1> QED
    BY <1>1, Stays DEF MessageTrue

\* It suffices to look at the messages a step sends.
LEMMA OnlySent ==
  ASSUME TypeOK, MessagesTrue, [Next]_vars,
         \A l \in Links : \A x \in Elements(net'[l]) :
            x \in Elements(net[l]) \/ MessageTrue(l, x)'
  PROVE  MessagesTrue'
  BY MessageStays DEF MessagesTrue, InFlight

\* What startSimul sends is true: the CAMs, and the DENMs of a leader.
LEMMA MainMessages ==
  ASSUME Safety, NEW i \in OBU, startSimul(i)
  PROVE  MessagesTrue'
  <1> USE DEF mainVars, checkVars, valVars, surrVars, linkVars
  <1>n. TypeOK /\ MessagesTrue /\ StationsTrue /\ [Next]_vars /\ net \in Net
    BY DEF Safety, Next, TypeOK, Net
  <1>c. /\ currentGroup \in [OBU -> {NoGroup} \cup OBU]
        /\ pos[i] \in Nat /\ pos[i] + ValsSpeed(i) \in Nat
    BY <1>n, ValsType DEF TypeOK
  <1> SUFFICES ASSUME NEW l \in Links, NEW x \in Elements(net'[l])
               PROVE  x \in Elements(net[l]) \/ MessageTrue(l, x)'
    BY <1>n, OnlySent
  <1>d. CASE net' = Deafen(net, i)
    BY <1>n, <1>d, DeafenElements
  <1>u. CASE UNCHANGED net
    BY <1>u
  <1>1. CASE FirstCam(i)
    <2> DEFINE cam == Cam(i, pos[i])
    <2>1. cam \in Message
      BY <1>c, CamType
    <2>2. net' = Publish(net, i, cam)
      BY <1>1 DEF FirstCam
    <2>3. x \in Elements(net[l]) \/ (l[1] = i /\ x = cam)
      BY <1>n, <2>1, <2>2, PublishElements
    <2> QED
      BY <2>3 DEF MessageTrue, Cam
  <1>2. CASE Repeat(i)
    <2> DEFINE d == Denm("repeat", i, Announced(i), 7)
    <2>1. d \in Message
      BY <1>n, AnnouncedType, DenmType DEF MessageType
    <2>2. CASE net' = Publish(net, i, d)
      <3>1. x \in Elements(net[l]) \/ (l[1] = i /\ x = d)
        BY <1>n, <2>1, <2>2, PublishElements
      <3>2. Leads(i)'
        BY <1>2, <1>n, Stays DEF Repeat, RepeatDue, StationsTrue, FollowersFollowLeaders
      <3> QED
        BY <3>1, <3>2 DEF MessageTrue, Denm
    <2> QED
      BY <1>2, <1>d, <2>2 DEF Repeat, Crash
  <1>3. CASE Lead(i)
    <2> DEFINE d == Denm("set", i, Announced(i), 7)
    <2>1. d \in Message
      BY <1>n, AnnouncedType, DenmType DEF MessageType
    <2>2. CASE net' = Publish(net, i, d)
      <3>1. x \in Elements(net[l]) \/ (l[1] = i /\ x = d)
        BY <1>n, <2>1, <2>2, PublishElements
      <3>2. Leads(i)'
        BY <1>3, <1>c DEF Lead, Leads
      <3> QED
        BY <3>1, <3>2 DEF MessageTrue, Denm
    <2> QED
      BY <1>3, <1>d, <2>2 DEF Lead, Crash
  <1>4. CASE Move(i)
    <2> DEFINE cam == Cam(i, pos[i] + ValsSpeed(i))
               sent == Publish(net, i, cam)
    <2>1. sent \in Net
      BY <1>n, <1>c, CamType, PublishType
    <2>2. x \in Elements(sent[l]) \/ x \in Elements(net[l])
      <3>1. CASE net' = sent
        BY <3>1
      <3>2. CASE net' = Deafen(sent, i)
        BY <2>1, <3>2, DeafenElements
      <3>3. CASE net' = Deafen(net, i)
        BY <1>n, <3>3, DeafenElements
      <3> QED
        BY <1>4, <3>1, <3>2, <3>3 DEF Move
    <2>3. x \in Elements(net[l]) \/ (l[1] = i /\ x = cam)
      BY <1>n, <1>c, <2>2, CamType, PublishElements
    <2> QED
      BY <2>3 DEF MessageTrue, Cam
  <1> QED
    BY <1>1, <1>2, <1>3, <1>4, <1>d, <1>u
    DEF startSimul, Connect, FailConnect, StartCheck, CheckSizeChanged, CheckEmptyKey, CheckKey,
        CheckEnd, Crash

\* What on_message sends is true, as it answers a message that is.
LEMMA RxMessages ==
  ASSUME Safety, NEW s \in OBU, NEW r \in OBU, on_message(s, r)
  PROVE  MessagesTrue'
  <1> USE DEF mainVars, checkVars, valVars, surrVars, linkVars
  <1>n. TypeOK /\ MessagesTrue /\ StationsTrue /\ [Next]_vars /\ net \in Net
    BY DEF Safety, Next, TypeOK, Net
  <1> SUFFICES ASSUME NEW l \in Links, NEW x \in Elements(net'[l])
               PROVE  x \in Elements(net[l]) \/ MessageTrue(l, x)'
    BY <1>n, OnlySent
  <1> DEFINE m == Head(net[<<s, r>>])
             t == Take(net, s, r)
             members == Append(group[r].digits, s)
  <1>m. ASSUME NEW k, Receives(s, r, k)
        PROVE  t \in Net /\ m.type = k /\ MessageTrue(<<s, r>>, m) /\ net[<<s, r>>] # <<>>
    BY <1>m, <1>n, ReceivesType DEF MessagesTrue, Receives
  <1>d. CASE net' = Deafen(net, r)
    BY <1>n, <1>d, DeafenElements
  <1>t. ASSUME NEW k, Receives(s, r, k), net' = t
        PROVE  x \in Elements(net[l])
    BY <1>t, <1>m, <1>n, TakeElements
  <1>p. ASSUME NEW k, Receives(s, r, k), NEW d \in Message, net' = Publish(t, r, d)
        PROVE  x \in Elements(net[l]) \/ (l[1] = r /\ x = d)
    <2>1. x \in Elements(t[l]) \/ (l[1] = r /\ x = d)
      BY <1>p, <1>m, PublishElements
    <2> QED
      BY <2>1, <1>p, <1>m, <1>n, TakeElements
  <1>q. s \in 0..7 /\ members \in Seq(0..3)
    BY <1>n, StationDigits, AppendType
  <1>1. CASE RxRepeat(s, r)
    <2> DEFINE d == Denm("ask", r, <<0>>, 7)
    <2>1. d \in Message
      BY DEF Denm, Message, MessageType
    <2>2. CASE net' = Publish(t, r, d)
      <3>1. x \in Elements(net[l]) \/ (l[1] = r /\ x = d)
        BY <1>1, <1>p, <2>1, <2>2 DEF RxRepeat
      <3>2. Leads(s) /\ s # r
        BY <1>1, <1>m DEF RxRepeat, MessageTrue
      <3>3. Rival(r)'
        BY <1>n, <3>2, Stays DEF Rival
      <3> QED
        BY <3>1, <3>3 DEF MessageTrue, Denm
    <2> QED
      BY <1>1, <1>t, <2>2 DEF RxRepeat
  <1>2. CASE r = 2 /\ AskToMerge(s)
    <2> DEFINE d == Denm("mergeReq", r, <<0>>, 7)
    <2>1. d \in Message
      BY DEF Denm, Message, MessageType
    <2>2. x \in Elements(net[l]) \/ (l[1] = r /\ x = d)
      BY <1>2, <1>p, <2>1 DEF AskToMerge
    <2>3. Leads(s) /\ s # r /\ groupID[r] # NoGroup
      BY <1>2, <1>m DEF AskToMerge, MessageTrue
    <2>4. Rival(r)' /\ groupID'[r] # NoGroup
      BY <1>n, <2>3, Stays DEF Rival
    <2> QED
      BY <1>2, <2>2, <2>4 DEF MessageTrue, Denm
  <1>3. CASE r = 0 /\ AnswerAsk(s)
    <2> DEFINE d == Denm("reply", r, members, s)
    <2>1. d \in Message
      BY <1>q, DenmType DEF MessageType
    <2>2. x \in Elements(net[l]) \/ (l[1] = r /\ x = d)
      BY <1>3, <1>p, <2>1 DEF AnswerAsk
    <2>3. Rival(s)
      BY <1>3, <1>m DEF AnswerAsk, MessageTrue
    <2>4. Rival(s)'
      BY <1>n, <2>3, Stays
    <2> QED
      BY <2>2, <2>4 DEF MessageTrue, Denm
  <1>4. CASE r = 0 /\ AnswerMerge(s)
    <2> DEFINE d == Denm("mergeReply", r, members, s)
    <2>1. d \in Message
      BY <1>q, DenmType DEF MessageType
    <2>2. CASE net' = Publish(t, r, d)
      <3>1. x \in Elements(net[l]) \/ (l[1] = r /\ x = d)
        BY <1>4, <1>p, <2>1, <2>2 DEF AnswerMerge
      <3>2. s = 2 /\ groupID[2] # NoGroup /\ Rival(2)
        BY <1>4, <1>m DEF AnswerMerge, MessageTrue
      <3>3. 2 \in OBU /\ groupID'[2] # NoGroup /\ Rival(2)'
        BY <1>n, <3>2, Stays
      <3> QED
        BY <1>4, <3>1, <3>3 DEF MessageTrue, Denm
    <2> QED
      BY <1>4, <1>d, <1>t, <2>2 DEF AnswerMerge, RxDies
  <1>5. CASE s = r /\ RxOwnDenm(r)
    BY <1>5, <1>d, <1>t DEF RxOwnDenm, RxDies
  <1>6. CASE \/ RxCam(s, r) \/ RxSet(s, r) \/ IgnoreAsk(s, r) \/ RxReply(s, r)
             \/ RxMergeReply(s, r) \/ (r = 3 /\ IgnoreMerge3(s))
    BY <1>6, <1>t DEF RxCam, RxSet, IgnoreAsk, RxReply, RxMergeReply, IgnoreMerge3
  <1>8. CASE InsertKey(s, r)
    BY <1>8 DEF InsertKey
  <1>7. CASE FailAsk(s, r) \/ (r = 1 /\ FailMerge1(s))
    BY <1>7, <1>d DEF FailAsk, FailMerge1, RxDies
  <1> QED
    BY <1>1, <1>2, <1>3, <1>4, <1>5, <1>6, <1>7, <1>8
    DEF on_message, on_message2, on_message3, on_message4, on_message5, RxCommon,
        FailAsk1, FailAsk2, FailAsk3

\* startSimul keeps what is true of the stations.
LEMMA MainStations ==
  ASSUME Safety, NEW i \in OBU, startSimul(i)
  PROVE  StationsTrue'
  <1> USE DEF mainVars, checkVars, valVars, surrVars, linkVars
  <1>n. TypeOK /\ StationsTrue /\ [Next]_vars
    BY DEF Safety, Next
  <1>s. /\ \A j \in OBU : Leads(j) => Leads(j)'
        /\ \A j : Rival(j) => Rival(j)'
        /\ \A j \in OBU : groupID[j] # NoGroup => groupID'[j] # NoGroup
    BY <1>n, Stays
  <1>t. /\ err \in [OBU -> Exceptions]
        /\ pc \in [OBU -> MainPoints]
        /\ synced \in [OBU -> BOOLEAN]
        /\ repeatDenm \in [OBU -> BOOLEAN]
        /\ groupID \in [OBU -> {NoGroup} \cup OBU]
        /\ group \in [OBU -> GroupValue]
        /\ currentGroup \in [OBU -> {NoGroup} \cup OBU]
    BY <1>n DEF TypeOK
  <1>v. UNCHANGED <<groupID, overlord>>
    BY DEF startSimul, Connect, FailConnect, FirstCam, Repeat, Lead, Move, StartCheck,
           CheckSizeChanged, CheckEmptyKey, CheckKey, CheckEnd
  <1>5. LeadersSkipCheck'
    <2>1. CASE Lead(i)
      <3>1. /\ currentGroup' = [currentGroup EXCEPT ![i] = i]
            /\ \E point \in {"top", "crashed"} : pc' = [pc EXCEPT ![i] = point]
        BY <2>1 DEF Lead, Crash
      <3> QED
        BY <1>n, <1>t, <3>1 DEF StationsTrue, LeadersSkipCheck, Leads
    <2>2. CASE UNCHANGED currentGroup /\ \E point \in MainPoints :
                 /\ pc' = [pc EXCEPT ![i] = point]
                 /\ point \in {"init", "connected", "check", "lead"} => ~Leads(i)
      BY <1>n, <1>t, <2>2 DEF StationsTrue, LeadersSkipCheck, Leads
    <2>3. CASE Connect(i)
      <3>1. ~Leads(i)
        BY <1>n, <2>3 DEF Connect, StationsTrue, LeadersSkipCheck
      <3> QED
        BY <2>2, <2>3, <3>1 DEF Connect, MainPoints
    <2>4. CASE StartCheck(i)
      <3>1. \/ \E point \in {"top", "crashed"} : pc' = [pc EXCEPT ![i] = point]
            \/ ~Leads(i) /\ pc' = [pc EXCEPT ![i] = "check"]
        BY <2>4 DEF StartCheck, Crash
      <3> QED
        BY <2>2, <2>4, <3>1 DEF StartCheck, MainPoints
    <2>5. CASE CheckKey(i) \/ CheckEnd(i)
      <3>1. pc[i] = "check" /\ UNCHANGED currentGroup
        BY <2>5 DEF CheckKey, CheckEnd
      <3>2. ~Leads(i)
        BY <1>n, <3>1 DEF StationsTrue, LeadersSkipCheck
      <3>3. \E point \in {"check", "top", "lead"} : pc' = [pc EXCEPT ![i] = point]
        BY <2>5 DEF CheckKey, CheckEnd
      <3> QED
        BY <2>2, <3>1, <3>2, <3>3 DEF MainPoints
    <2>6. CASE \/ FailConnect(i) \/ FirstCam(i) \/ Repeat(i) \/ Move(i)
               \/ CheckSizeChanged(i) \/ CheckEmptyKey(i)
      <3>1. /\ UNCHANGED currentGroup
            /\ \E point \in {"top", "body", "done", "crashed"} : pc' = [pc EXCEPT ![i] = point]
        BY <2>6
        DEF FailConnect, FirstCam, Repeat, Move, CheckSizeChanged, CheckEmptyKey, Crash
      <3> QED
        BY <2>2, <3>1 DEF MainPoints
    <2> QED
      BY <2>1, <2>3, <2>4, <2>5, <2>6 DEF startSimul
  <1>1. MergeIsTraceable'
    BY <1>n, <1>s, <1>v DEF StationsTrue, MergeIsTraceable, Rival
  <1>2. IntegerNeedsRival'
    <2>1. CASE UNCHANGED group
      BY <1>n, <1>s, <2>1 DEF StationsTrue, IntegerNeedsRival
    <2>2. CASE group' = [group EXCEPT ![i] = StrGroup(Others(i))]
      BY <1>n, <1>s, <1>t, <2>2 DEF StationsTrue, IntegerNeedsRival, StrGroup
    <2> QED
      BY <2>1, <2>2
      DEF startSimul, Connect, FailConnect, FirstCam, Repeat, Lead, Move, StartCheck,
          CheckSizeChanged, CheckEmptyKey, CheckKey, CheckEnd
  <1>3. FollowersFollowLeaders'
    <2>1. CASE UNCHANGED <<synced, repeatDenm>>
      BY <1>n, <1>s, <1>t, <1>v, <2>1 DEF StationsTrue, FollowersFollowLeaders
    <2>2. CASE /\ currentGroup' = [currentGroup EXCEPT ![i] = i]
               /\ synced' = [synced EXCEPT ![i] = TRUE]
               /\ repeatDenm' = [repeatDenm EXCEPT ![i] = TRUE]
      <3>1. Leads(i)' /\ synced'[i]
        BY <1>t, <2>2 DEF Leads
      <3>2. \A j \in OBU : synced[j] => synced'[j]
        BY <1>t, <2>2
      <3>3. \A j \in OBU \ {i} : repeatDenm'[j] = repeatDenm[j]
        BY <1>t, <2>2
      <3>4. \A j \in OBU : groupID[j] \notin {NoGroup, j} => groupID[j] \in OBU
        BY <1>t
      <3> QED
        BY <1>n, <1>s, <1>v, <3>1, <3>2, <3>3, <3>4 DEF StationsTrue, FollowersFollowLeaders
    <2> QED
      BY <2>1, <2>2
      DEF startSimul, Connect, FailConnect, FirstCam, Repeat, Lead, Move, StartCheck,
          CheckSizeChanged, CheckEmptyKey, CheckKey, CheckEnd
  <1>4. LeaderCrashNeedsRival'
    <2>0. /\ \A j \in OBU : err[j] = "type" => Leads(j)
          /\ \A j \in OBU : err[j] # "none" /\ Leads(j) => Rival(j)
      BY <1>n DEF StationsTrue, LeaderCrashNeedsRival, Rival
    <2> SUFFICES /\ \A j \in OBU : err'[j] = "type" => Leads(j)'
                 /\ \A j \in OBU : err'[j] # "none" /\ Leads(j)' => Rival(j)'
      BY DEF LeaderCrashNeedsRival, Rival
    <2>1. CASE UNCHANGED <<err, currentGroup>>
      BY <1>s, <2>0, <2>1 DEF Leads
    <2>2. CASE /\ UNCHANGED currentGroup
               /\ ~Leads(i)
               /\ \E kind \in {"connect", "index", "size"} : err' = [err EXCEPT ![i] = kind]
      <3>1. \A j \in OBU \ {i} : err'[j] = err[j]
        BY <1>t, <2>2
      <3>2. err'[i] # "type" /\ ~Leads(i)'
        BY <1>t, <2>2 DEF Leads
      <3> QED
        BY <1>s, <2>0, <2>2, <3>1, <3>2 DEF Leads
    <2>3. CASE ~group[i].str /\ err' = [err EXCEPT ![i] = "type"] /\ (Lead(i) \/ Repeat(i))
      <3>1. Rival(i)'
        BY <1>n, <1>s, <2>3 DEF StationsTrue, IntegerNeedsRival
      <3>2. Leads(i)'
        <4>1. CASE Lead(i)
          BY <1>t, <4>1 DEF Lead, Leads
        <4>2. CASE Repeat(i)
          BY <1>n, <1>s, <4>2 DEF Repeat, RepeatDue, StationsTrue, FollowersFollowLeaders
        <4> QED
          BY <2>3, <4>1, <4>2
      <3>3. \A j \in OBU \ {i} : err'[j] = err[j] /\ (Leads(j)' => Leads(j))
        <4>1. currentGroup' = [currentGroup EXCEPT ![i] = i] \/ UNCHANGED currentGroup
          BY <2>3 DEF Lead, Repeat
        <4> QED
          BY <1>t, <2>3, <4>1 DEF Leads
      <3> QED
        BY <1>s, <2>0, <3>1, <3>2, <3>3
    <2>4. CASE Lead(i) /\ group[i].str
      <3>1. err' = err /\ currentGroup' = [currentGroup EXCEPT ![i] = i] /\ pc[i] = "lead"
        BY <2>4 DEF Lead
      <3>2. \A j \in OBU \ {i} : Leads(j)' => Leads(j)
        BY <1>t, <3>1 DEF Leads
      <3>3. err[i] = "none"
        BY <1>n, <3>1 DEF StationsTrue, RunsWithoutError
      <3> QED
        BY <1>s, <2>0, <3>1, <3>2, <3>3
    <2>5. CASE Repeat(i) /\ group[i].str
      BY <2>1, <2>5 DEF Repeat
    <2>6. CASE Lead(i) \/ Repeat(i)
      BY <2>3, <2>4, <2>5, <2>6 DEF Lead, Repeat, Crash
    <2>7. CASE FailConnect(i) \/ CheckSizeChanged(i) \/ CheckEmptyKey(i)
      <3>1. /\ pc[i] \in {"init", "connected", "check"}
            /\ UNCHANGED currentGroup
            /\ \E kind \in {"connect", "index", "size"} : err' = [err EXCEPT ![i] = kind]
        BY <2>7 DEF FailConnect, CheckSizeChanged, CheckEmptyKey, Crash
      <3>2. ~Leads(i)
        BY <1>n, <3>1 DEF StationsTrue, LeadersSkipCheck
      <3> QED
        BY <2>2, <3>1, <3>2
    <2>8. CASE StartCheck(i)
      <3>1. \/ UNCHANGED <<err, currentGroup>>
            \/ UNCHANGED currentGroup /\ ~Leads(i) /\ err' = [err EXCEPT ![i] = "index"]
        BY <2>8 DEF StartCheck, Crash
      <3> QED
        BY <2>1, <2>2, <3>1
    <2> QED
      BY <2>1, <2>6, <2>7, <2>8
      DEF startSimul, Connect, FirstCam, Move, CheckKey, CheckEnd
  <1>6. RunsWithoutError'
    <2>1. err[i] = "none"
      <3>1. pc[i] # "crashed"
        BY DEF startSimul, Connect, FailConnect, FirstCam, Repeat, Lead, Move, StartCheck,
               CheckSizeChanged, CheckEmptyKey, CheckKey, CheckEnd, AtBody
      <3> QED
        BY <1>n, <3>1 DEF StationsTrue, RunsWithoutError
    <2>2. CASE UNCHANGED err
      <3>1. \E point : pc' = [pc EXCEPT ![i] = point]
        BY DEF startSimul, Connect, FailConnect, FirstCam, Repeat, Lead, Move, StartCheck,
               CheckSizeChanged, CheckEmptyKey, CheckKey, CheckEnd, Crash
      <3> QED
        BY <1>n, <1>t, <2>1, <2>2, <3>1 DEF StationsTrue, RunsWithoutError
    <2>3. CASE \E kind : Crash(i, kind)
      BY <1>n, <1>t, <2>3 DEF Crash, StationsTrue, RunsWithoutError
    <2> QED
      BY <2>2, <2>3
      DEF startSimul, Connect, FailConnect, FirstCam, Repeat, Lead, Move, StartCheck,
          CheckSizeChanged, CheckEmptyKey, CheckKey, CheckEnd
  <1> QED
    BY <1>1, <1>2, <1>3, <1>4, <1>5, <1>6 DEF StationsTrue

\* on_message keeps what is true of the stations, as the message is true.
LEMMA RxStations ==
  ASSUME Safety, NEW s \in OBU, NEW r \in OBU, on_message(s, r)
  PROVE  StationsTrue'
  <1> USE DEF mainVars, checkVars, valVars, surrVars, linkVars
  <1>n. TypeOK /\ MessagesTrue /\ StationsTrue /\ [Next]_vars
    BY DEF Safety, Next
  <1>s. /\ \A j \in OBU : Leads(j) => Leads(j)'
        /\ \A j : Rival(j) => Rival(j)'
        /\ \A j \in OBU : groupID[j] # NoGroup => groupID'[j] # NoGroup
    BY <1>n, Stays
  <1>t. /\ synced \in [OBU -> BOOLEAN]
        /\ overlord \in [OBU -> {NoOverlord} \cup OBU]
        /\ groupID \in [OBU -> {NoGroup} \cup OBU]
        /\ group \in [OBU -> GroupValue]
    BY <1>n DEF TypeOK
  <1> DEFINE m == Head(net[<<s, r>>])
             members == Append(group[r].digits, s)
  <1>m. ASSUME NEW k, Receives(s, r, k)
        PROVE  m.type = k /\ MessageTrue(<<s, r>>, m)
    BY <1>m, <1>n, ReceivesType DEF MessagesTrue
  <1>v. UNCHANGED <<pc, err, repeatDenm, currentGroup>>
    BY DEF on_message, on_message2, on_message3, on_message4, on_message5, RxCommon,
        InsertKey, RxCam, RxOwnDenm, RxSet, RxRepeat, AskToMerge, IgnoreAsk, AnswerAsk, RxReply,
        AnswerMerge, FailAsk, FailAsk1, FailAsk2, FailAsk3, FailMerge1, IgnoreMerge3,
        RxMergeReply
  <1>0. LeadersSkipCheck' /\ RunsWithoutError'
    BY <1>n, <1>v DEF StationsTrue, LeadersSkipCheck, RunsWithoutError, Leads
  <1>1. LeaderCrashNeedsRival'
    BY <1>n, <1>s, <1>v DEF StationsTrue, LeaderCrashNeedsRival, Rival, Leads
  <1>2. FollowersFollowLeaders'
    <2>1. CASE UNCHANGED <<groupID, synced>>
      BY <1>n, <1>s, <1>t, <1>v, <2>1 DEF StationsTrue, FollowersFollowLeaders
    <2>2. CASE RxSet(s, r)
      <3>1. Leads(s) /\ Leads(s)'
        BY <1>m, <1>s, <2>2 DEF RxSet, MessageTrue
      <3>2. /\ groupID' = [groupID EXCEPT ![r] = s]
            /\ synced' = [synced EXCEPT ![r] = TRUE]
        BY <2>2 DEF RxSet
      <3> QED
        BY <1>n, <1>s, <1>t, <1>v, <3>1, <3>2 DEF StationsTrue, FollowersFollowLeaders
    <2>3. CASE groupID' = [groupID EXCEPT ![r] = r] /\ UNCHANGED synced
      BY <1>n, <1>s, <1>t, <1>v, <2>3 DEF StationsTrue, FollowersFollowLeaders
    <2> QED
      BY <2>1, <2>2, <2>3
      DEF on_message, on_message2, on_message3, on_message4, on_message5, RxCommon,
          InsertKey, RxCam, RxOwnDenm, RxRepeat, AskToMerge, IgnoreAsk, AnswerAsk, RxReply,
          AnswerMerge, FailAsk, FailAsk1, FailAsk2, FailAsk3, FailMerge1, IgnoreMerge3,
          RxMergeReply
  <1>3. MergeIsTraceable'
    <2>1. CASE UNCHANGED overlord
      BY <1>n, <1>s, <2>1 DEF StationsTrue, MergeIsTraceable, Rival
    <2>2. CASE RxMergeReply(s, r)
      <3>1. s = 0 /\ 2 \in OBU /\ groupID[2] # NoGroup /\ Rival(2)
        BY <1>m, <2>2 DEF RxMergeReply, MessageTrue
      <3>2. groupID'[2] # NoGroup /\ Rival(2)'
        BY <1>s, <3>1
      <3>3. overlord' = [overlord EXCEPT ![r] = 0]
        BY <2>2, <3>1 DEF RxMergeReply
      <3> QED
        BY <1>n, <1>t, <3>1, <3>2, <3>3 DEF StationsTrue, MergeIsTraceable, Rival
    <2> QED
      BY <2>1, <2>2
      DEF on_message, on_message2, on_message3, on_message4, on_message5, RxCommon,
          InsertKey, RxCam, RxOwnDenm, RxSet, RxRepeat, AskToMerge, IgnoreAsk, AnswerAsk, RxReply,
          AnswerMerge, FailAsk, FailAsk1, FailAsk2, FailAsk3, FailMerge1, IgnoreMerge3
  <1>4. IntegerNeedsRival'
    <2>1. CASE UNCHANGED group
      BY <1>n, <1>s, <2>1 DEF StationsTrue, IntegerNeedsRival
    <2>2. CASE group' = [group EXCEPT ![r] = StrGroup(members)]
      BY <1>n, <1>s, <1>t, <2>2 DEF StationsTrue, IntegerNeedsRival, StrGroup
    <2>3. CASE Rival(r) /\ group' = [group EXCEPT ![r] = IntGroup(m.seq)]
      BY <1>n, <1>s, <1>t, <2>3 DEF StationsTrue, IntegerNeedsRival
    <2>4. CASE RxRepeat(s, r)
      <3>1. Rival(r)
        BY <1>m, <2>4 DEF RxRepeat, MessageTrue, Rival
      <3> QED
        BY <2>1, <2>3, <2>4, <3>1 DEF RxRepeat
    <2>5. CASE RxReply(s, r)
      <3>1. s # r /\ m.from = s /\ Rival(m.quality)
        BY <1>m, <2>5 DEF RxReply, MessageTrue
      <3>2. CASE Addressed(r, m)
        <4>1. Rival(r)
          BY <3>1, <3>2 DEF Addressed
        <4> QED
          BY <2>3, <2>5, <3>2, <4>1 DEF RxReply
      <3> QED
        BY <2>1, <2>5, <3>2 DEF RxReply
    <2> QED
      BY <2>1, <2>2, <2>4, <2>5
      DEF on_message, on_message2, on_message3, on_message4, on_message5, RxCommon,
          InsertKey, RxCam, RxOwnDenm, RxSet, AskToMerge, IgnoreAsk, AnswerAsk,
          AnswerMerge, FailAsk, FailAsk1, FailAsk2, FailAsk3, FailMerge1, IgnoreMerge3,
          RxMergeReply
  <1> QED
    BY <1>0, <1>1, <1>2, <1>3, <1>4 DEF StationsTrue

\* Every step keeps the inductive invariant.
LEMMA SafetyStep == Safety /\ [Next]_vars => Safety'
  <1> SUFFICES ASSUME Safety, [Next]_vars PROVE Safety'
    OBVIOUS
  <1> USE DEF mainVars, checkVars, valVars, surrVars, linkVars
  <1>n. TypeOK /\ TypeOK' /\ MessagesTrue /\ StationsTrue
    BY TypeStep DEF Safety
  <1>1. ASSUME NEW i \in OBU, startSimul(i) PROVE Safety'
    BY <1>1, <1>n, MainMessages, MainStations DEF Safety
  <1>2. ASSUME NEW s \in OBU, NEW r \in OBU, on_message(s, r) PROVE Safety'
    BY <1>2, <1>n, RxMessages, RxStations DEF Safety
  <1>3. CASE UNCHANGED <<pc, err, repeatDenm, currentGroup, groupID, group, synced, overlord>>
    <2>1. StationsTrue'
      BY <1>3, <1>n DEF StationsTrue, LeadersSkipCheck, RunsWithoutError,
                        FollowersFollowLeaders, LeaderCrashNeedsRival, MergeIsTraceable,
                        IntegerNeedsRival, Rival, Leads
    <2>2. CASE UNCHANGED net
      BY <1>n, <2>1, <2>2, OnlySent DEF Safety
    <2>3. ASSUME NEW s \in OBU, NEW r \in OBU, Lose(s, r) PROVE Safety'
      <3>1. net \in Net /\ net[<<s, r>>] # <<>> /\ net' = Take(net, s, r)
        BY <1>n, <2>3 DEF TypeOK, Net, Lose
      <3>2. \A l \in Links : \A x \in Elements(net'[l]) : x \in Elements(net[l])
        BY <3>1, TakeElements
      <3> QED
        BY <1>n, <2>1, <3>2, OnlySent DEF Safety
    <2> QED
      BY <1>1, <1>2, <2>2, <2>3 DEF Next, on_connect, Unblock, Finished, vars
  <1> QED
    BY <1>1, <1>2, <1>3 DEF Next, on_connect, Lose, Unblock, Finished, vars

\* The inductive invariant holds throughout.
THEOREM SafetyHolds == Spec => []Safety
  BY SafetyInit, SafetyStep, PTL DEF Spec

(***************************************************************************)
(* A station in the group of another follows a station that did declare    *)
(* itself leader, and drives with the group's speed and checkTime: the     *)
(* branch for the set DENM (100/1) of on_message.                          *)
(***************************************************************************)
THEOREM FollowersFollow == Spec => []FollowersFollowLeaders
  <1>1. Safety => FollowersFollowLeaders
    BY DEF Safety, StationsTrue
  <1> QED
    BY <1>1, SafetyHolds, PTL

(***************************************************************************)
(* An exception ends a leader only if there is a second one: RuntimeError  *)
(* and IndexError of leaderCheck hit stations that do not lead yet, and    *)
(* the TypeError of vals["group"] + str(currClient) needs an integer,      *)
(* copied from the list of another leader.                                 *)
(***************************************************************************)
THEOREM CrashNeedsRival == Spec => []LeaderCrashNeedsRival
  <1>1. Safety => LeaderCrashNeedsRival
    BY DEF Safety, StationsTrue
  <1> QED
    BY <1>1, SafetyHolds, PTL

(***************************************************************************)
(* Whoever took a merge reply (102/2) took it from station 0, and station  *)
(* 2, in a group, has met a leader other than itself.                      *)
(***************************************************************************)
THEOREM MergeTraceable == Spec => []MergeIsTraceable
  <1>1. Safety => MergeIsTraceable
    BY DEF Safety, StationsTrue
  <1> QED
    BY <1>1, SafetyHolds, PTL

-----------------------------------------------------------------------------
(***************************************************************************)
(* Refinement.                                                             *)
(***************************************************************************)

\* The initial states of the simulator are initial states of Membership.
LEMMA MembershipInit == Init => M!Init
  <1> SUFFICES ASSUME Init PROVE M!Init
    OBVIOUS
  <1>1. \A i \in OBU : ~Leads(i)
    BY StationDigits DEF Init, Leads
  <1>2. groupID = [i \in OBU |-> M!None]
    BY DEF Init, NoGroup, M!None
  <1> QED
    BY <1>1, <1>2 DEF M!Init

\* Every step of the simulator is one of Membership, or leaves it alone.
LEMMA MembershipStep == Safety /\ [Next]_vars => [M!Next]_(M!vars)
  <1> SUFFICES ASSUME Safety, [Next]_vars PROVE [M!Next]_(M!vars)
    OBVIOUS
  <1> DEFINE leaders == {i \in OBU : Leads(i)}
  <1>n. TypeOK /\ MessagesTrue
    BY DEF Safety
  <1>t. currentGroup \in [OBU -> {NoGroup} \cup OBU] /\ groupID \in [OBU -> {NoGroup} \cup OBU]
    BY <1>n DEF TypeOK
  <1>1. ASSUME NEW i \in OBU, Lead(i) PROVE [M!Next]_(M!vars)
    <2>1. currentGroup' = [currentGroup EXCEPT ![i] = i] /\ UNCHANGED groupID
      BY <1>1 DEF Lead
    <2>2. leaders' = leaders \cup {i}
      BY <1>t, <2>1 DEF Leads
    <2>3. CASE i \in leaders
      BY <2>1, <2>2, <2>3 DEF M!vars
    <2>4. CASE i \notin leaders
      BY <2>1, <2>2, <2>4 DEF M!Next, M!Elect
    <2> QED
      BY <2>3, <2>4
  <1>2. CASE UNCHANGED currentGroup
    <2>1. leaders' = leaders
      BY <1>2 DEF Leads
    <2>2. CASE UNCHANGED groupID
      BY <2>1, <2>2 DEF M!vars
    <2>3. ASSUME NEW s \in OBU, NEW r \in OBU, RxSet(s, r) PROVE [M!Next]_(M!vars)
      <3>1. MessageTrue(<<s, r>>, Head(net[<<s, r>>])) /\ Head(net[<<s, r>>]).type = "set"
        BY <1>n, <2>3, ReceivesType DEF RxSet, MessagesTrue
      <3>2. s \in leaders \ {r}
        BY <2>3, <3>1 DEF RxSet, MessageTrue
      <3>3. groupID' = [groupID EXCEPT ![r] = s]
        BY <2>3 DEF RxSet
      <3> QED
        BY <2>1, <3>2, <3>3 DEF M!Next, M!Follow
    <2>4. ASSUME NEW r \in OBU, RxOwnDenm(r) PROVE [M!Next]_(M!vars)
      <3> DEFINE m == Head(net[<<r, r>>])
      <3>1. PICK t \in MessageType \ {"cam"} : Receives(r, r, t)
        BY <2>4 DEF RxOwnDenm
      <3>2. MessageTrue(<<r, r>>, m) /\ m.type \in MessageType \ {"cam"}
        BY <1>n, <3>1, ReceivesType DEF MessagesTrue
      <3>3. leaders # {}
        BY <3>2 DEF MessageTrue, MessageType, Rival
      <3>4. CASE groupID' = [groupID EXCEPT ![r] = r]
        BY <2>1, <3>3, <3>4 DEF M!Next, M!Claim
      <3> QED
        BY <2>2, <2>4, <3>4 DEF RxOwnDenm
    <2> QED
      BY <2>2, <2>3, <2>4, GroupsChange
  <1> QED
    BY <1>1, <1>2, LeadersChange

(***************************************************************************)
(* The simulator implements the abstract membership: leaders never step    *)
(* down, a station joins only stations that lead, and none has a group     *)
(* before somebody leads.                                                  *)
(***************************************************************************)
THEOREM ImplementsMembership == Spec => MembershipSpec
  <1>1. Init => M!Init
    BY MembershipInit
  <1>2. Safety /\ [Next]_vars => [M!Next]_(M!vars)
    BY MembershipStep
  <1> QED
    BY <1>1, <1>2, SafetyHolds, PTL DEF Spec, MembershipSpec, M!Spec

-----------------------------------------------------------------------------
(***************************************************************************)
(* The route.  DrivenAfter is a recursive function: that it satisfies its  *)
(* own equation is shown by induction, with the least number for which a   *)
(* claim would fail.                                                       *)
(***************************************************************************)

\* A set of natural numbers that is not empty has a least element.
LEMMA LeastElement ==
  ASSUME NEW T, T \subseteq Nat, T # {}
  PROVE  \E x \in T : \A y \in T : x <= y
  <1>1. PICK x \in T : \A y \in T : ~(<<y, x>> \in OpToRel(<, Nat))
    BY NatLessThanWellFounded, WFMin, Zenon
  <1>2. \A y \in T : ~(y < x)
    BY <1>1 DEF OpToRel
  <1> QED
    BY <1>2

\* d holds the lengths of the first 0, 1 .. n segments.
SumsUpTo(d, n) == \A k \in 0..n : d[k] = IF k = 0 THEN 0 ELSE d[k - 1] + Distances[k]

\* There is such a function for each length.
LEMMA SumsExist == \A n \in 0..Len(Distances) : \E d \in [0..n -> Nat] : SumsUpTo(d, n)
  <1> DEFINE T == {n \in 0..Len(Distances) : ~\E d \in [0..n -> Nat] : SumsUpTo(d, n)}
  <1> SUFFICES ASSUME T # {} PROVE FALSE
    OBVIOUS
  <1>1. PICK n \in T : \A y \in T : n <= y
    <2> HIDE DEF T
    <2>1. T \subseteq Nat
      BY DEF T
    <2> QED
      BY <2>1, LeastElement
  <1>2. CASE n = 0
    <2> DEFINE g == [k \in 0..0 |-> 0]
    <2>1. g \in [0..0 -> Nat] /\ SumsUpTo(g, 0)
      BY DEF SumsUpTo
    <2> QED
      BY <1>2, <2>1
  <1>3. CASE n # 0
    <2>1. n \in 1..Len(Distances) /\ Len(Distances) \in Nat
      BY <1>3, RouteAssumption
    <2>2. n - 1 \in 0..Len(Distances) /\ ~(n <= n - 1)
      BY <2>1
    <2>3. n - 1 \notin T
      <3> HIDE DEF T
      <3> QED
        BY <1>1, <2>2
    <2>4. PICK g \in [0..(n - 1) -> Nat] : SumsUpTo(g, n - 1)
      BY <2>2, <2>3
    <2> DEFINE h == [k \in 0..n |-> IF k = n THEN g[n - 1] + Distances[n] ELSE g[k]]
    <2>5. Distances[n] \in Nat /\ g[n - 1] \in Nat
      BY <2>1, RouteAssumption
    <2>6. h \in [0..n -> Nat]
      BY <2>1, <2>5
    <2>7. SumsUpTo(h, n)
      BY <2>1, <2>4, <2>5 DEF SumsUpTo
    <2> QED
      BY <2>6, <2>7
  <1> QED
    BY <1>2, <1>3

\* DrivenAfter is the sum of the segments driven.
LEMMA DrivenAfterSums ==
  /\ DrivenAfter \in [0..Len(Distances) -> Nat]
  /\ DrivenAfter[0] = 0
  /\ \A k \in 1..Len(Distances) : DrivenAfter[k] = DrivenAfter[k - 1] + Distances[k]
  <1> DEFINE N == Len(Distances)
             P(f) == f = [k \in 0..Len(Distances) |->
                            IF k = 0 THEN 0 ELSE f[k - 1] + Distances[k]]
  <1>0. N \in Nat /\ Distances \in Seq(Nat)
    BY RouteAssumption
  <1>1. PICK g \in [0..N -> Nat] : SumsUpTo(g, N)
    BY <1>0, SumsExist
  <1>2. P(g)
    BY <1>1 DEF SumsUpTo
  <1>3. DrivenAfter = CHOOSE f : P(f)
    BY DEF DrivenAfter
  <1>4. P(DrivenAfter)
    <2> HIDE DEF P
    <2> QED
      BY <1>2, <1>3, Zenon
  <1> HIDE DEF N
  <1>5. DrivenAfter = [k \in 0..N |-> IF k = 0 THEN 0 ELSE DrivenAfter[k - 1] + Distances[k]]
    BY <1>4 DEF N
  <1>6. DrivenAfter[0] = 0 /\ \A k \in 1..N : DrivenAfter[k] = DrivenAfter[k - 1] + Distances[k]
    BY <1>0, <1>5
  <1>7. DrivenAfter \in [0..N -> Nat]
    <2> DEFINE T == {n \in 0..N : DrivenAfter[n] \notin Nat}
    <2> SUFFICES ASSUME T # {} PROVE FALSE
      BY <1>5
    <2>1. PICK n \in T : \A y \in T : n <= y
      <3> HIDE DEF T
      <3>1. T \subseteq Nat
        BY DEF T
      <3> QED
        BY <3>1, LeastElement
    <2>2. n # 0 /\ n \in 1..N
      BY <1>0, <1>6, <2>1
    <2>3. n - 1 \in 0..N /\ ~(n <= n - 1)
      BY <1>0, <2>2
    <2>4. n - 1 \notin T
      <3> HIDE DEF T
      <3> QED
        BY <2>1, <2>3
    <2>5. Distances[n] \in Nat /\ DrivenAfter[n - 1] \in Nat
      BY <1>0, <2>2, <2>3, <2>4 DEF N
    <2> QED
      BY <2>2, <2>5, <1>6
  <1> QED
    BY <1>6, <1>7 DEF N

-----------------------------------------------------------------------------
(***************************************************************************)
(* Neither RouteFollowed nor PositionsAdvance is inductive: a position is  *)
(* recorded from a CAM, so what is said of the records must be said of the *)
(* queues too, and the distance driven needs the part of the segment that  *)
(* has been driven (run).                                                  *)
(***************************************************************************)

\* The CAMs of a queue are in the order of their positions, from lo to hi.
InOrder(q, lo, hi) ==
  \A k \in 1..Len(q) : q[k].type = "cam" =>
    /\ lo <= q[k].pos /\ q[k].pos <= hi
    /\ \A h \in 1..k : q[h].type = "cam" => q[h].pos <= q[k].pos

\* On every link: between the last position recorded and the position now.
NetInOrder(n, recorded, now) ==
  \A l \in Links : InOrder(n[l], recorded[l[2]][l[1]], now[l[1]])

Track(i) ==
  /\ pc[i] # "done" => /\ interval[i] \in 1..Len(Distances)
                       /\ pos[i] >= DrivenAfter[interval[i] - 1] + run[i]
  /\ \A k \in 1..Len(Distances) : interval[i] > k => pos[i] >= DrivenAfter[k]

Route ==
  /\ TypeOK
  /\ NetInOrder(net, surr, pos)
  /\ \A i, j \in OBU : surr[i][j] <= pos[j]
  /\ \A i \in OBU : Track(i)

Recorded == [OBU -> [OBU -> Nat]]
Positions == [OBU -> Nat]

\* A CAM at the end of a queue is not behind the others.
LEMMA AppendKeepsOrder ==
  ASSUME NEW q \in Seq(Message), NEW m \in Message, NEW lo \in Nat, NEW mid \in Nat, NEW hi \in Nat,
         InOrder(q, lo, mid), lo <= mid, mid <= hi,
         \A k \in 1..Len(q) : q[k].pos \in Nat, m.pos \in Nat,
         m.type = "cam" => mid <= m.pos /\ m.pos <= hi
  PROVE  InOrder(Append(q, m), lo, hi)
  <1> DEFINE a == Append(q, m)
  <1>1. /\ Len(a) = Len(q) + 1 /\ Len(q) \in Nat
        /\ a[Len(q) + 1] = m
        /\ \A k \in 1..Len(q) : a[k] = q[k]
    OBVIOUS
  <1> HIDE DEF a
  <1> SUFFICES ASSUME NEW k \in 1..Len(a), a[k].type = "cam"
               PROVE  /\ lo <= a[k].pos /\ a[k].pos <= hi
                      /\ \A h \in 1..k : a[h].type = "cam" => a[h].pos <= a[k].pos
    BY DEF InOrder, a
  <1>2. CASE k = Len(q) + 1
    BY <1>1, <1>2 DEF InOrder
  <1>3. CASE k \in 1..Len(q)
    BY <1>1, <1>3 DEF InOrder
  <1> QED
    BY <1>1, <1>2, <1>3

\* The cars drive on.
LEMMA LaterInOrder ==
  ASSUME NEW n \in Net, NEW recorded, NEW now \in Positions, NEW then \in Positions,
         NetInOrder(n, recorded, now),
         \A j \in OBU : now[j] <= then[j]
  PROVE  NetInOrder(n, recorded, then)
  <1> SUFFICES ASSUME NEW l \in Links
               PROVE  InOrder(n[l], recorded[l[2]][l[1]], then[l[1]])
    BY DEF NetInOrder
  <1>1. l[1] \in OBU /\ n[l] \in Seq(Message)
    BY DEF Links, Net
  <1>2. now[l[1]] \in Nat /\ then[l[1]] \in Nat /\ now[l[1]] <= then[l[1]]
    BY <1>1 DEF Positions
  <1>3. InOrder(n[l], recorded[l[2]][l[1]], now[l[1]])
    BY DEF NetInOrder
  <1>4. \A k \in 1..Len(n[l]) : n[l][k].pos \in Nat
    <2>1. \A k \in 1..Len(n[l]) : n[l][k] \in Message
      BY <1>1
    <2> QED
      BY <2>1 DEF Message
  <1> QED
    BY <1>2, <1>3, <1>4 DEF InOrder

\* A CAM published is not behind the ones before it.
LEMMA PublishInOrder ==
  ASSUME NEW n \in Net, NEW s \in OBU, NEW m \in Message,
         NEW recorded \in Recorded, NEW now \in Positions, NEW then \in Positions,
         NetInOrder(n, recorded, now),
         \A j \in OBU : now[j] <= then[j],
         \A i, j \in OBU : recorded[i][j] <= now[j],
         m.type = "cam" => now[s] <= m.pos /\ m.pos <= then[s]
  PROVE  NetInOrder(Publish(n, s, m), recorded, then)
  <1> SUFFICES ASSUME NEW l \in Links
               PROVE  InOrder(Publish(n, s, m)[l], recorded[l[2]][l[1]], then[l[1]])
    BY DEF NetInOrder
  <1>1. n[l] \in Seq(Message) /\ InOrder(n[l], recorded[l[2]][l[1]], now[l[1]])
    BY DEF Net, NetInOrder
  <1>2. l[1] \in OBU /\ l[2] \in OBU
    BY DEF Links
  <1>3. recorded[l[2]][l[1]] \in Nat /\ now[l[1]] \in Nat /\ then[l[1]] \in Nat
    BY <1>2 DEF Recorded, Positions
  <1>4. recorded[l[2]][l[1]] <= now[l[1]] /\ now[l[1]] <= then[l[1]]
    BY <1>2
  <1>5. \A k \in 1..Len(n[l]) : n[l][k].pos \in Nat
    <2>1. \A k \in 1..Len(n[l]) : n[l][k] \in Message
      BY <1>1
    <2> QED
      BY <2>1 DEF Message
  <1>6. CASE l[1] = s /\ Delivers(s, l[2], m)
    <2>1. Publish(n, s, m)[l] = Append(n[l], m)
      BY <1>6 DEF Publish
    <2>2. m.pos \in Nat /\ (m.type = "cam" => now[l[1]] <= m.pos /\ m.pos <= then[l[1]])
      BY <1>6 DEF Message
    <2>3. InOrder(Append(n[l], m), recorded[l[2]][l[1]], then[l[1]])
      BY <1>1, <1>3, <1>4, <1>5, <2>2, AppendKeepsOrder
    <2> QED
      BY <2>1, <2>3
  <1>7. CASE ~(l[1] = s /\ Delivers(s, l[2], m))
    <2>1. Publish(n, s, m)[l] = n[l]
      BY <1>7 DEF Publish
    <2> QED
      BY <1>1, <1>3, <1>4, <1>5, <2>1 DEF InOrder
  <1> QED
    BY <1>6, <1>7

\* Taking a message keeps the order; a CAM taken is not behind the last one.
LEMMA TakeInOrder ==
  ASSUME NEW n \in Net, NEW s \in OBU, NEW r \in OBU, n[<<s, r>>] # <<>>,
         NEW recorded \in Recorded, NEW now \in Positions,
         NetInOrder(n, recorded, now)
  PROVE  /\ NetInOrder(Take(n, s, r), recorded, now)
         /\ Head(n[<<s, r>>]).type = "cam" =>
              /\ recorded[r][s] <= Head(n[<<s, r>>]).pos
              /\ Head(n[<<s, r>>]).pos <= now[s]
              /\ NetInOrder(Take(n, s, r),
                            [recorded EXCEPT ![r][s] = Head(n[<<s, r>>]).pos], now)
  <1> DEFINE k == <<s, r>>
             m == Head(n[k])
             later == [recorded EXCEPT ![r][s] = m.pos]
  <1>0. k \in Links /\ k[1] = s /\ k[2] = r
    BY DEF Links
  <1>1. n[k] \in Seq(Message) /\ n[k] # <<>> /\ InOrder(n[k], recorded[r][s], now[s])
    BY <1>0 DEF Net, NetInOrder
  <1>2. Len(n[k]) \in Nat /\ Len(n[k]) >= 1 /\ m = n[k][1] /\ m \in Message
    BY <1>1
  <1>3. /\ Tail(n[k]) \in Seq(Message)
        /\ Len(Tail(n[k])) = Len(n[k]) - 1
        /\ \A h \in 1..(Len(n[k]) - 1) : Tail(n[k])[h] = n[k][h + 1]
    BY <1>1
  <1>4. InOrder(Tail(n[k]), recorded[r][s], now[s])
    BY <1>1, <1>2, <1>3 DEF InOrder
  <1>5. ASSUME m.type = "cam"
        PROVE  /\ recorded[r][s] <= m.pos /\ m.pos <= now[s]
               /\ InOrder(Tail(n[k]), m.pos, now[s])
    <2> DEFINE q == n[k]
    <2>1. m.type = "cam" /\ m = q[1] /\ 1 \in 1..Len(q)
      BY <1>2, <1>5
    <2>2. recorded[r][s] <= m.pos /\ m.pos <= now[s]
      BY <1>1, <2>1 DEF InOrder
    <2>3. ASSUME NEW h \in 1..(Len(q) - 1), Tail(q)[h].type = "cam"
          PROVE  /\ m.pos <= Tail(q)[h].pos /\ Tail(q)[h].pos <= now[s]
                 /\ \A g \in 1..h : Tail(q)[g].type = "cam" => Tail(q)[g].pos <= Tail(q)[h].pos
      <3>1. /\ h + 1 \in 1..Len(q) /\ 1 \in 1..(h + 1)
            /\ \A g \in 1..h : g + 1 \in 1..(h + 1) /\ g \in 1..(Len(q) - 1)
        BY <1>2
      <3>2. Tail(q)[h] = q[h + 1] /\ \A g \in 1..h : Tail(q)[g] = q[g + 1]
        BY <1>3, <3>1
      <3>3. /\ q[h + 1].pos <= now[s]
            /\ \A g \in 1..(h + 1) : q[g].type = "cam" => q[g].pos <= q[h + 1].pos
        BY <1>1, <2>3, <3>1, <3>2 DEF InOrder
      <3> QED
        BY <2>1, <3>1, <3>2, <3>3
    <2> HIDE DEF q, m
    <2> QED
      BY <1>3, <2>2, <2>3 DEF InOrder, q
  <1>6. \A l \in Links : Take(n, s, r)[l] = IF l = k THEN Tail(n[k]) ELSE n[l]
    BY <1>0 DEF Take, Net
  <1>7. NetInOrder(Take(n, s, r), recorded, now)
    BY <1>0, <1>4, <1>6 DEF NetInOrder
  <1>8. ASSUME m.type = "cam"
        PROVE  NetInOrder(Take(n, s, r), later, now)
    <2> SUFFICES ASSUME NEW l \in Links
                 PROVE  InOrder(Take(n, s, r)[l], later[l[2]][l[1]], now[l[1]])
      BY DEF NetInOrder
    <2>1. CASE l = k
      <3>1. later[r][s] = m.pos
        BY DEF Recorded
      <3> QED
        BY <1>0, <1>5, <1>6, <1>8, <2>1, <3>1
    <2>2. CASE l # k
      <3>1. l[1] \in OBU /\ l[2] \in OBU /\ l = <<l[1], l[2]>>
        BY DEF Links
      <3>2. ~(l[1] = s /\ l[2] = r)
        BY <2>2, <3>1
      <3>3. later[l[2]][l[1]] = recorded[l[2]][l[1]]
        BY <3>1, <3>2 DEF Recorded
      <3> QED
        BY <1>6, <2>2, <3>3 DEF NetInOrder
    <2> QED
      BY <2>1, <2>2
  <1> QED
    BY <1>5, <1>7, <1>8

\* An emptied link is in order.
LEMMA DeafenInOrder ==
  ASSUME NEW n \in Net, NEW r \in OBU, NEW recorded, NEW now,
         NetInOrder(n, recorded, now)
  PROVE  NetInOrder(Deafen(n, r), recorded, now)
  BY DEF NetInOrder, Deafen, InOrder

\* Nothing has been recorded, and nothing driven.
LEMMA RouteInit == Init => Route
  <1> SUFFICES ASSUME Init PROVE Route
    OBVIOUS
  <1>1. TypeOK
    BY TypeInit
  <1>2. NetInOrder(net, surr, pos)
    BY DEF Init, NetInOrder, InOrder
  <1>3. \A i, j \in OBU : surr[i][j] <= pos[j]
    BY DEF Init
  <1>4. \A i \in OBU : Track(i)
    BY DrivenAfterSums, RouteAssumption DEF Init, Track
  <1> QED
    BY <1>1, <1>2, <1>3, <1>4 DEF Route

\* A step that leaves the cars and the records alone.
LEMMA RouteKept ==
  ASSUME Route, TypeOK', UNCHANGED <<surr, pos, interval, run>>,
         \A i \in OBU : pc'[i] = "done" <=> pc[i] = "done",
         NetInOrder(net', surr, pos)
  PROVE  Route'
  <1>1. \A i \in OBU : Track(i)'
    BY DEF Route, Track
  <1> QED
    BY <1>1 DEF Route

\* A step of the main thread.
LEMMA MainRoute ==
  ASSUME Route, TypeOK', NEW i \in OBU, startSimul(i)
  PROVE  Route' /\ UNCHANGED surr
  <1> USE DEF mainVars, checkVars, valVars, surrVars, linkVars
  <1>t. /\ net \in Net /\ surr \in Recorded /\ pos \in Positions
        /\ pc \in [OBU -> MainPoints] /\ interval \in [OBU -> Nat] /\ run \in [OBU -> Nat]
        /\ NetInOrder(net, surr, pos)
        /\ \A a, b \in OBU : surr[a][b] <= pos[b]
    BY DEF Route, TypeOK, Net, Recorded, Positions
  <1>y. TypeOK
    BY DEF Route
  <1>v. ValsSpeed(i) \in Nat
    BY ValsType
  <1>s. UNCHANGED surr
    BY DEF startSimul, Connect, FailConnect, FirstCam, Repeat, Lead, Move, StartCheck,
           CheckSizeChanged, CheckEmptyKey, CheckKey, CheckEnd
  <1>o. \A j \in OBU : pos[j] \in Nat /\ pos[j] <= pos[j]
    BY <1>t DEF Positions
  <1>k. ASSUME UNCHANGED <<pos, interval, run>>, NetInOrder(net', surr, pos), pc[i] # "done",
               \E point \in MainPoints \ {"done"} : pc' = [pc EXCEPT ![i] = point]
        PROVE  Route'
    <2>1. \A j \in OBU : pc'[j] = "done" <=> pc[j] = "done"
      BY <1>k, <1>t
    <2> QED
      BY <1>k, <1>s, <2>1, RouteKept
  <1>d. ASSUME NEW m \in Message, m.type # "cam" \/ m.pos = pos[i]
        PROVE  NetInOrder(Publish(net, i, m), surr, pos)
    BY <1>d, <1>t, <1>o, PublishInOrder
  <1>f. NetInOrder(Deafen(net, i), surr, pos)
    BY <1>t, DeafenInOrder
  <1>1. CASE Connect(i)
    BY <1>1, <1>k, <1>t DEF Connect, MainPoints
  <1>10. CASE FailConnect(i)
    BY <1>10, <1>k, <1>f DEF FailConnect, Crash, MainPoints
  <1>2. CASE FirstCam(i)
    <2>1. Cam(i, pos[i]) \in Message /\ Cam(i, pos[i]).pos = pos[i]
      BY <1>t, CamType DEF Cam, Positions
    <2>2. NetInOrder(net', surr, pos)
      BY <1>2, <1>d, <2>1 DEF FirstCam
    <2> QED
      BY <1>2, <1>k, <2>2 DEF FirstCam, MainPoints
  <1>3. CASE Repeat(i)
    <2> DEFINE m == Denm("repeat", i, Announced(i), 7)
    <2>0. m \in Message
      BY <1>y, AnnouncedType, DenmType DEF MessageType
    <2>1. m \in Message /\ m.type # "cam"
      BY <2>0 DEF Denm
    <2>2. NetInOrder(net', surr, pos)
      BY <1>3, <1>d, <1>f, <2>1 DEF Repeat, Crash
    <2>3. \E point \in {"body", "crashed"} : pc' = [pc EXCEPT ![i] = point]
      BY <1>3 DEF Repeat, Crash
    <2> QED
      BY <1>3, <1>k, <2>2, <2>3 DEF Repeat, MainPoints
  <1>4. CASE Lead(i)
    <2> DEFINE m == Denm("set", i, Announced(i), 7)
    <2>0. m \in Message
      BY <1>y, AnnouncedType, DenmType DEF MessageType
    <2>1. m \in Message /\ m.type # "cam"
      BY <2>0 DEF Denm
    <2>2. NetInOrder(net', surr, pos)
      BY <1>4, <1>d, <1>f, <2>1 DEF Lead, Crash
    <2>3. \E point \in {"top", "crashed"} : pc' = [pc EXCEPT ![i] = point]
      BY <1>4 DEF Lead, Crash
    <2> QED
      BY <1>4, <1>k, <2>2, <2>3 DEF Lead, MainPoints
  <1>5. CASE Move(i)
    <2> DEFINE p == pos[i] + ValsSpeed(i)
               sent == Publish(net, i, Cam(i, p))
    <2>1. /\ pos' = [pos EXCEPT ![i] = p]
          /\ p \in Nat /\ pos[i] \in Nat /\ pos[i] <= p
      BY <1>5, <1>t, <1>v DEF Move, Positions
    <2>2. /\ pos' \in Positions
          /\ pos'[i] = p
          /\ \A j \in OBU : pos[j] <= pos'[j]
          /\ \A j \in OBU \ {i} : pos'[j] = pos[j]
      BY <1>t, <2>1 DEF Positions
    <2>3. sent \in Net /\ Cam(i, p) \in Message /\ Cam(i, p).pos = p
      BY <1>t, <2>1, CamType, PublishType DEF Cam
    <2>4. NetInOrder(sent, surr, pos')
      <3> DEFINE m == Cam(i, p)
      <3>1. m \in Message /\ pos[i] <= m.pos /\ m.pos <= pos'[i]
        BY <2>1, <2>2, <2>3
      <3> HIDE DEF m
      <3>2. NetInOrder(Publish(net, i, m), surr, pos')
        BY <1>t, <2>2, <3>1, PublishInOrder
      <3> QED
        BY <3>2 DEF m
    <2>5. NetInOrder(Deafen(sent, i), surr, pos')
      BY <2>3, <2>4, DeafenInOrder
    <2>11. NetInOrder(Deafen(net, i), surr, pos')
      <3>1. NetInOrder(net, surr, pos')
        BY <1>t, <2>2, LaterInOrder
      <3> QED
        BY <1>t, <3>1, DeafenInOrder
    <2>6. NetInOrder(net', surr', pos')
      BY <1>5, <1>s, <2>4, <2>5, <2>11 DEF Move
    <2>7. \A a, b \in OBU : surr'[a][b] <= pos'[b]
      <3>1. \A a, b \in OBU : surr[a][b] \in Nat /\ pos[b] \in Nat /\ pos'[b] \in Nat
        BY <1>t, <2>2 DEF Recorded, Positions
      <3> QED
        BY <1>s, <1>t, <2>2, <3>1
    <2>8. \A j \in OBU \ {i} : Track(j)'
      BY <1>5, <1>t, <2>2 DEF Move, Route, Track
    <2>9. Track(i)'
      <3> DEFINE k == interval[i]
                 N == Len(Distances)
      <3>1. /\ N \in Nat /\ k \in 1..N /\ run[i] \in Nat /\ Distances[k] \in Nat
            /\ pos[i] >= DrivenAfter[k - 1] + run[i]
            /\ \A h \in 1..N : k > h => pos[i] >= DrivenAfter[h]
        BY <1>5, <1>t, RouteAssumption DEF Move, AtBody, Route, Track
      <3>2. /\ \A h \in 0..N : DrivenAfter[h] \in Nat
            /\ DrivenAfter[k] = DrivenAfter[k - 1] + Distances[k]
            /\ DrivenAfter[k - 1] \in Nat
        <4>1. k - 1 \in 0..N
          BY <3>1
        <4> QED
          BY <3>1, <4>1, DrivenAfterSums
      <3>3. CASE SegmentDone(i)
        <4>1. interval'[i] = k + 1 /\ run'[i] = 0
          BY <1>5, <1>t, <3>3 DEF Move
        <4>2. p >= DrivenAfter[k]
          <5>1. run[i] + ValsSpeed(i) >= Distances[k]
            BY <3>3 DEF SegmentDone
          <5> HIDE DEF k, N
          <5> QED
            BY <1>v, <2>1, <3>1, <3>2, <5>1
        <4>3. pc'[i] # "done" => k # N
          BY <1>5, <1>t, <3>3 DEF Move
        <4>4. pc'[i] # "done" => k + 1 \in 1..N
          BY <3>1, <4>3
        <4>5. \A h \in 1..N : k + 1 > h => p >= DrivenAfter[h]
          <5> SUFFICES ASSUME NEW h \in 1..N, k + 1 > h PROVE p >= DrivenAfter[h]
            OBVIOUS
          <5>1. CASE h = k
            BY <4>2, <5>1
          <5>2. CASE k > h
            <6>1. pos[i] >= DrivenAfter[h] /\ DrivenAfter[h] \in Nat
              BY <3>1, <3>2, <5>2
            <6> QED
              BY <2>1, <6>1
          <5> QED
            BY <3>1, <5>1, <5>2
        <4> QED
          BY <2>2, <3>1, <3>2, <4>1, <4>2, <4>4, <4>5 DEF Track
      <3>4. CASE ~SegmentDone(i)
        <4>1. interval'[i] = k /\ run'[i] = run[i] + ValsSpeed(i)
          BY <1>5, <1>t, <3>4 DEF Move
        <4>2. p >= DrivenAfter[k - 1] + run'[i]
          <5> HIDE DEF k, N
          <5> QED
            BY <1>v, <2>1, <3>1, <3>2, <4>1
        <4>3. \A h \in 1..N : k > h => p >= DrivenAfter[h]
          BY <2>1, <3>1, <3>2
        <4> QED
          BY <2>2, <3>1, <4>1, <4>2, <4>3 DEF Track
      <3> QED
        BY <3>3, <3>4
    <2>10. \A j \in OBU : Track(j)'
      BY <2>8, <2>9
    <2> QED
      BY <1>s, <2>6, <2>7, <2>10 DEF Route
  <1>6. CASE StartCheck(i)
    <2>1. \E point \in {"top", "check", "crashed"} : pc' = [pc EXCEPT ![i] = point]
      BY <1>6 DEF StartCheck, Crash
    <2>2. NetInOrder(net', surr, pos)
      BY <1>6, <1>f, <1>t DEF StartCheck, Crash
    <2> QED
      BY <1>6, <1>k, <2>1, <2>2 DEF StartCheck, AtBody, MainPoints
  <1>7. CASE CheckSizeChanged(i)
    BY <1>7, <1>k, <1>f DEF CheckSizeChanged, Crash, MainPoints
  <1>11. CASE CheckEmptyKey(i)
    BY <1>11, <1>k, <1>f DEF CheckEmptyKey, Crash, MainPoints
  <1>8. CASE CheckKey(i)
    <2>1. \E point \in {"top", "check"} : pc' = [pc EXCEPT ![i] = point]
      BY <1>8 DEF CheckKey
    <2> QED
      BY <1>8, <1>k, <1>t, <2>1 DEF CheckKey, MainPoints
  <1>9. CASE CheckEnd(i)
    <2>1. \E point \in {"top", "lead"} : pc' = [pc EXCEPT ![i] = point]
      BY <1>9 DEF CheckEnd
    <2> QED
      BY <1>9, <1>k, <1>t, <2>1 DEF CheckEnd, MainPoints
  <1> QED
    BY <1>1, <1>2, <1>3, <1>4, <1>5, <1>6, <1>7, <1>8, <1>9, <1>10, <1>11, <1>s DEF startSimul

\* A step of the network thread.
LEMMA RxRoute ==
  ASSUME Route, TypeOK', NEW s \in OBU, NEW r \in OBU, on_message(s, r)
  PROVE  Route' /\ \A i, j \in OBU : surr'[i][j] >= surr[i][j]
  <1> USE DEF mainVars, checkVars, valVars, surrVars
  <1> DEFINE m == Head(net[<<s, r>>])
             t == Take(net, s, r)
             members == Append(group[r].digits, s)
  <1>y. TypeOK
    BY DEF Route
  <1>t. /\ net \in Net /\ surr \in Recorded /\ pos \in Positions
        /\ NetInOrder(net, surr, pos)
        /\ \A a, b \in OBU : surr[a][b] <= pos[b]
        /\ \A a, b \in OBU : surr[a][b] \in Nat /\ pos[b] \in Nat
    BY DEF Route, TypeOK, Net, Recorded, Positions
  <1>u. UNCHANGED <<pc, pos, interval, run>>
    BY DEF on_message, on_message2, on_message3, on_message4, on_message5, RxCommon,
        InsertKey, RxCam, RxOwnDenm, RxSet, RxRepeat, AskToMerge, IgnoreAsk, AnswerAsk, RxReply,
        AnswerMerge, FailAsk, FailAsk1, FailAsk2, FailAsk3, FailMerge1, IgnoreMerge3,
        RxMergeReply
  <1>k. ASSUME UNCHANGED surr, NetInOrder(net', surr, pos)
        PROVE  Route' /\ \A i, j \in OBU : surr'[i][j] >= surr[i][j]
    BY <1>k, <1>t, <1>u, RouteKept
  <1>f. CASE UNCHANGED surr /\ net' = Deafen(net, r)
    BY <1>f, <1>k, <1>t, DeafenInOrder
  <1>m. ASSUME NEW k, Receives(s, r, k)
        PROVE  t \in Net /\ net[<<s, r>>] # <<>> /\ m \in Message /\ NetInOrder(t, surr, pos)
    BY <1>m, <1>t, <1>y, ReceivesType, TakeInOrder DEF Receives
  <1>g. ASSUME NEW k, Receives(s, r, k), UNCHANGED surr, net' = t
        PROVE  Route' /\ \A i, j \in OBU : surr'[i][j] >= surr[i][j]
    BY <1>g, <1>k, <1>m
  <1>p. ASSUME NEW k, Receives(s, r, k), UNCHANGED surr,
               NEW d \in Message, d.type # "cam", net' = Publish(t, r, d)
        PROVE  Route' /\ \A i, j \in OBU : surr'[i][j] >= surr[i][j]
    <2>1. \A j \in OBU : pos[j] <= pos[j]
      BY <1>t
    <2>2. NetInOrder(Publish(t, r, d), surr, pos)
      BY <1>t, <1>m, <1>p, <2>1, PublishInOrder
    <2> QED
      BY <1>k, <1>p, <2>2
  <1>q. s \in 0..7 /\ members \in Seq(0..3)
    BY <1>y, StationDigits, AppendType
  <1>1. CASE RxCam(s, r)
    <2>1. Receives(s, r, "cam") /\ net' = t
      BY <1>1 DEF RxCam
    <2>2. CASE UNCHANGED surr
      BY <1>g, <2>1, <2>2
    <2>3. CASE surr' = [surr EXCEPT ![r][s] = m.pos]
      <3>1. m \in Message /\ m.type = "cam" /\ net[<<s, r>>] # <<>>
        BY <2>1, <1>y, ReceivesType DEF Receives
      <3>2. m.pos \in Nat
        BY <3>1 DEF Message
      <3>3. surr[r][s] <= m.pos /\ m.pos <= pos[s] /\ NetInOrder(net', surr', pos')
        BY <1>t, <1>u, <2>1, <2>3, <3>1, TakeInOrder
      <3>4. \A i, j \in OBU : surr'[i][j] = IF i = r /\ j = s THEN m.pos ELSE surr[i][j]
        BY <1>t, <2>3 DEF Recorded
      <3>5. \A i, j \in OBU : surr'[i][j] >= surr[i][j] /\ surr'[i][j] <= pos'[j]
        BY <1>t, <1>u, <3>2, <3>3, <3>4
      <3>6. \A i \in OBU : Track(i)'
        BY <1>u DEF Route, Track
      <3> QED
        BY <3>3, <3>5, <3>6 DEF Route
    <2> QED
      BY <1>1, <2>2, <2>3 DEF RxCam
  <1>9. CASE InsertKey(s, r)
    BY <1>9, <1>k, <1>t DEF InsertKey
  <1>2. CASE RxRepeat(s, r)
    <2> DEFINE d == Denm("ask", r, <<0>>, 7)
    <2>1. d \in Message /\ d.type # "cam"
      BY DEF Denm, Message, MessageType
    <2> QED
      BY <1>2, <1>g, <1>p, <2>1 DEF RxRepeat
  <1>3. CASE r = 2 /\ AskToMerge(s)
    <2> DEFINE d == Denm("mergeReq", r, <<0>>, 7)
    <2>1. d \in Message /\ d.type # "cam"
      BY DEF Denm, Message, MessageType
    <2> QED
      BY <1>3, <1>p, <2>1 DEF AskToMerge
  <1>4. CASE r = 0 /\ AnswerAsk(s)
    <2> DEFINE d == Denm("reply", r, members, s)
    <2>1. d \in Message
      BY <1>q, DenmType DEF MessageType
    <2>2. d.type # "cam"
      BY DEF Denm
    <2> QED
      BY <1>4, <1>p, <2>1, <2>2 DEF AnswerAsk
  <1>5. CASE r = 0 /\ AnswerMerge(s)
    <2> DEFINE d == Denm("mergeReply", r, members, s)
    <2>1. d \in Message
      BY <1>q, DenmType DEF MessageType
    <2>2. d.type # "cam"
      BY DEF Denm
    <2> QED
      BY <1>5, <1>f, <1>g, <1>p, <2>1, <2>2 DEF AnswerMerge, RxDies
  <1>6. CASE s = r /\ RxOwnDenm(r)
    BY <1>6, <1>f, <1>g DEF RxOwnDenm, RxDies
  <1>7. CASE \/ RxSet(s, r) \/ IgnoreAsk(s, r) \/ RxReply(s, r)
             \/ RxMergeReply(s, r) \/ (r = 3 /\ IgnoreMerge3(s))
    BY <1>7, <1>g DEF RxSet, IgnoreAsk, RxReply, RxMergeReply, IgnoreMerge3
  <1>8. CASE FailAsk(s, r) \/ (r = 1 /\ FailMerge1(s))
    BY <1>8, <1>f DEF FailAsk, FailMerge1, RxDies
  <1> QED
    BY <1>1, <1>2, <1>3, <1>4, <1>5, <1>6, <1>7, <1>8, <1>9
    DEF on_message, on_message2, on_message3, on_message4, on_message5, RxCommon,
        FailAsk1, FailAsk2, FailAsk3

\* Every step keeps the cars on the route and the records in order.
LEMMA RouteStep ==
  Route /\ [Next]_vars => Route' /\ \A i, j \in OBU : surr'[i][j] >= surr[i][j]
  <1> SUFFICES ASSUME Route, [Next]_vars
               PROVE  Route' /\ \A i, j \in OBU : surr'[i][j] >= surr[i][j]
    OBVIOUS
  <1> USE DEF mainVars, checkVars, valVars, surrVars, linkVars
  <1>t. /\ TypeOK /\ TypeOK' /\ net \in Net /\ surr \in Recorded /\ pos \in Positions
        /\ NetInOrder(net, surr, pos)
        /\ \A i, j \in OBU : surr[i][j] \in Nat
    BY TypeStep DEF Route, TypeOK, Net, Recorded, Positions
  <1>1. ASSUME NEW i \in OBU, startSimul(i) PROVE Route' /\ UNCHANGED surr
    BY <1>1, <1>t, MainRoute
  <1>2. ASSUME NEW s \in OBU, NEW r \in OBU, on_message(s, r)
        PROVE  Route' /\ \A i, j \in OBU : surr'[i][j] >= surr[i][j]
    BY <1>2, <1>t, RxRoute
  <1>3. ASSUME NEW s \in OBU, NEW r \in OBU, Lose(s, r) PROVE Route' /\ UNCHANGED surr
    <2>1. NetInOrder(net', surr, pos)
      BY <1>3, <1>t, TakeInOrder DEF Lose
    <2> QED
      BY <1>3, <1>t, <2>1, RouteKept DEF Lose
  <1>4. CASE UNCHANGED <<mainVars, surrVars, net>>
    BY <1>4, <1>t, RouteKept
  <1>5. Route' /\ (UNCHANGED surr \/ \A i, j \in OBU : surr'[i][j] >= surr[i][j])
    BY <1>1, <1>2, <1>3, <1>4 DEF Next, on_connect, Unblock, Finished, vars
  <1> QED
    BY <1>5, <1>t

\* The inductive invariant holds throughout.
THEOREM RouteHolds == Spec => []Route
  BY RouteInit, RouteStep, PTL DEF Spec

(***************************************************************************)
(* The positions in mySurroudings never run ahead of the cars, and         *)
(* startSimul reaches the end of the route only once every segment has     *)
(* been driven, interval being a valid index of distances until then.      *)
(***************************************************************************)
THEOREM RouteIsFollowed == Spec => []RouteFollowed
  <1>1. Route => RouteFollowed
    BY DEF Route, RouteFollowed, Track
  <1> QED
    BY <1>1, RouteHolds, PTL

(***************************************************************************)
(* The last known position of a car never goes back: brokers and radio     *)
(* keep the order of the CAMs that startSimul publishes.                   *)
(***************************************************************************)
THEOREM PositionsNeverGoBack == Spec => PositionsAdvance
  <1>1. Route /\ [Next]_vars => [\A i, j \in OBU : surr'[i][j] >= surr[i][j]]_vars
    BY RouteStep
  <1> QED
    BY <1>1, RouteHolds, PTL DEF Spec, PositionsAdvance

-----------------------------------------------------------------------------
(***************************************************************************)
(* The lists of members: what mySurroudings, vals["group"] and the DENMs   *)
(* name.                                                                   *)
(***************************************************************************)

Distinct(q) == \A j, k \in 1..Len(q) : q[j] = q[k] => j = k
Connected(j) == j \in OBU /\ pc[j] # "init"
AllConnected(q) == \A k \in 1..Len(q) : Connected(q[k])
ZeroFirst(q) == q # <<>> /\ Head(q) = 0

\* What the list in a message on link l tells.
ListTrue(l, m) ==
  m.type # "cam" =>
    /\ m.seq # <<>>
    /\ ~WellFormed(m.seq) => l[1] # 0 /\ Leads(l[1]) /\ HeardFirst(l[1], 0)
    /\ l[1] # l[2] => WellFormed(m.seq)
    /\ m.type \notin {"ask", "mergeReq"} => AllConnected(m.seq)
    /\ m.type \in {"set", "repeat"} => m.seq[Len(m.seq)] = l[1]
    /\ m.type = "set" /\ l[1] # 0 => Distinct(m.seq)

MessageListed(l, m) == Connected(l[1]) /\ ListTrue(l, m)
MessagesListed == \A l \in Links : \A m \in InFlight(l) : MessageListed(l, m)

\* What the lists of station i tell.
GroupListed(i) ==
  /\ AllConnected(group[i].digits)
  /\ i = 0 => ~ZeroFirst(group[i].digits)
  /\ i # 0 /\ group[i].str =>
       /\ Distinct(group[i].digits)
       /\ \A k \in 1..Len(group[i].digits) : group[i].digits[k] # i
       /\ ZeroFirst(group[i].digits) => HeardFirst(i, 0)

StationListed(i) ==
  /\ Distinct(seen[i])
  /\ AllConnected(seen[i])
  /\ sub[i] => Connected(i)
  /\ GroupListed(i)
  /\ rx[i] = "json" => i # 0 /\ Leads(i) /\ HeardFirst(i, 0)

Lists == MessagesListed /\ \A i \in OBU : StationListed(i)

\* Nothing is listed at the start.
LEMMA ListsInit == Init => Lists
  <1> SUFFICES ASSUME Init PROVE Lists
    OBVIOUS
  <1>1. MessagesListed
    BY DEF Init, MessagesListed, InFlight, Elements
  <1>2. ASSUME NEW i \in OBU PROVE StationListed(i)
    BY DEF Init, StationListed, GroupListed, Distinct, AllConnected, ZeroFirst, StrGroup
  <1> QED
    BY <1>1, <1>2 DEF Lists

\* Only InsertKey adds a key to mySurroudings.
LEMMA SeenChange ==
  ASSUME [Next]_vars
  PROVE  UNCHANGED seen \/ \E s, r \in OBU : InsertKey(s, r)
  <1> USE DEF mainVars, checkVars, valVars, surrVars, linkVars
  <1>1. ASSUME NEW i \in OBU, startSimul(i) PROVE UNCHANGED seen
    BY <1>1 DEF startSimul, Connect, FailConnect, FirstCam, Repeat, Lead, Move, StartCheck,
                CheckSizeChanged, CheckEmptyKey, CheckKey, CheckEnd
  <1>2. ASSUME NEW s \in OBU, NEW r \in OBU, on_message(s, r)
        PROVE  UNCHANGED seen \/ InsertKey(s, r)
    BY <1>2
    DEF on_message, on_message2, on_message3, on_message4, on_message5, RxCommon,
        RxCam, RxOwnDenm, RxSet, RxRepeat, AskToMerge, IgnoreAsk, AnswerAsk, RxReply,
        AnswerMerge, FailAsk, FailAsk1, FailAsk2, FailAsk3, FailMerge1, IgnoreMerge3,
        RxMergeReply
  <1> QED
    BY <1>1, <1>2 DEF Next, on_connect, Lose, Unblock, Finished, vars

\* A key is only ever added, at the end.
LEMMA SeenGrows ==
  ASSUME TypeOK, [Next]_vars, NEW i \in OBU
  PROVE  /\ Len(seen[i]) \in Nat /\ Len(seen'[i]) \in Nat
         /\ Len(seen'[i]) >= Len(seen[i])
         /\ \A k \in 1..Len(seen[i]) : seen'[i][k] = seen[i][k]
  <1>1. seen \in [OBU -> Seq(OBU)]
    BY DEF TypeOK
  <1>2. CASE UNCHANGED seen
    BY <1>1, <1>2
  <1>3. ASSUME NEW s \in OBU, NEW r \in OBU, InsertKey(s, r)
        PROVE  seen' = [seen EXCEPT ![r] = Append(@, s)]
    BY <1>3 DEF InsertKey
  <1>4. ASSUME NEW s \in OBU, NEW r \in OBU, seen' = [seen EXCEPT ![r] = Append(@, s)]
        PROVE  /\ Len(seen'[i]) \in Nat /\ Len(seen'[i]) >= Len(seen[i])
               /\ \A k \in 1..Len(seen[i]) : seen'[i][k] = seen[i][k]
    BY <1>1, <1>4
  <1>5. Len(seen[i]) \in Nat
    BY <1>1
  <1> QED
    BY <1>2, <1>3, <1>4, <1>5, SeenChange

\* Who was heard first stays so, and a station stays connected.
LEMMA ListsStay ==
  ASSUME TypeOK, [Next]_vars
  PROVE  /\ \A j : Connected(j) => Connected(j)'
         /\ \A i \in OBU : HeardFirst(i, 0) => HeardFirst(i, 0)'
         /\ \A i \in OBU : Leads(i) => Leads(i)'
  <1> USE DEF mainVars, checkVars, valVars, surrVars, linkVars
  <1>1. ASSUME NEW j, Connected(j) PROVE Connected(j)'
    <2>1. pc \in [OBU -> MainPoints] /\ j \in OBU /\ pc[j] # "init"
      BY <1>1 DEF TypeOK, Connected
    <2>2. ASSUME NEW i \in OBU, startSimul(i) PROVE pc'[j] # "init"
      <3>1. \/ UNCHANGED pc
            \/ \E p \in {"connected", "top", "body", "check", "lead", "done", "crashed"} :
                 pc' = [pc EXCEPT ![i] = p]
        BY <2>2 DEF startSimul, Connect, FailConnect, FirstCam, Repeat, Lead, Move, StartCheck,
                    CheckSizeChanged, CheckEmptyKey, CheckKey, CheckEnd, Crash
      <3> QED
        BY <2>1, <3>1
    <2>3. ASSUME NEW s \in OBU, NEW r \in OBU, on_message(s, r) PROVE UNCHANGED pc
      BY <2>3
      DEF on_message, on_message2, on_message3, on_message4, on_message5, RxCommon,
          InsertKey, RxCam, RxOwnDenm, RxSet, RxRepeat, AskToMerge, IgnoreAsk, AnswerAsk, RxReply,
          AnswerMerge, FailAsk, FailAsk1, FailAsk2, FailAsk3, FailMerge1, IgnoreMerge3,
          RxMergeReply
    <2>4. pc'[j] # "init"
      BY <2>1, <2>2, <2>3 DEF Next, on_connect, Lose, Unblock, Finished, vars
    <2> QED
      BY <2>1, <2>4 DEF Connected
  <1>2. ASSUME NEW i \in OBU, HeardFirst(i, 0) PROVE HeardFirst(i, 0)'
    <2>1. PICK k \in 1..Len(seen[i]) : seen[i][k] = 0 /\ \A h \in 1..(k - 1) : seen[i][h] = i
      BY <1>2 DEF HeardFirst
    <2>2. k \in 1..Len(seen'[i])
      BY <2>1, SeenGrows
    <2>3. seen'[i][k] = 0 /\ \A h \in 1..(k - 1) : seen'[i][h] = i
      BY <2>1, SeenGrows
    <2> QED
      BY <2>2, <2>3 DEF HeardFirst
  <1> QED
    BY <1>1, <1>2, Stays

\* What a list tells stays true.
LEMMA ListStays ==
  ASSUME TypeOK, [Next]_vars, NEW l \in Links, NEW m, MessageListed(l, m)
  PROVE  MessageListed(l, m)'
  <1>1. l[1] \in OBU
    BY DEF Links
  <1>2. AllConnected(m.seq) => AllConnected(m.seq)'
    BY ListsStay DEF AllConnected
  <1> QED
    BY <1>1, <1>2, ListsStay DEF MessageListed, ListTrue

\* So does what is told of a group that is not changed.
LEMMA GroupStays ==
  ASSUME TypeOK, [Next]_vars, NEW i \in OBU, GroupListed(i), group'[i] = group[i]
  PROVE  GroupListed(i)'
  <1> DEFINE d == group[i].digits
  <1>1. AllConnected(d)'
    BY ListsStay DEF AllConnected, GroupListed
  <1>2. i = 0 => ~ZeroFirst(d)'
    BY DEF GroupListed, ZeroFirst
  <1>3. ASSUME i # 0, group[i].str
        PROVE  Distinct(d)' /\ (\A k \in 1..Len(d) : d[k] # i)' /\ (ZeroFirst(d)' => HeardFirst(i, 0)')
    BY <1>3, ListsStay DEF GroupListed, Distinct, ZeroFirst
  <1> QED
    BY <1>1, <1>2, <1>3 DEF GroupListed

\* It suffices to look at what a step sends.
LEMMA OnlyListed ==
  ASSUME TypeOK, MessagesListed, [Next]_vars,
         \A l \in Links : \A x \in Elements(net'[l]) :
            x \in Elements(net[l]) \/ MessageListed(l, x)'
  PROVE  MessagesListed'
  BY ListStays DEF MessagesListed, InFlight

\* What is in flight after Publish was so before or has been delivered.
LEMMA PublishDelivers ==
  ASSUME NEW n \in Net, NEW s \in OBU, NEW m \in Message, NEW l \in Links,
         NEW x \in Elements(Publish(n, s, m)[l])
  PROVE  x \in Elements(n[l]) \/ (l[1] = s /\ x = m /\ Delivers(s, l[2], m))
  <1>1. CASE l[1] = s /\ Delivers(s, l[2], m)
    BY <1>1, PublishElements
  <1>2. CASE ~(l[1] = s /\ Delivers(s, l[2], m))
    BY <1>2 DEF Publish
  <1> QED
    BY <1>1, <1>2

\* A list without the element at k.
LEMMA WithoutElement ==
  ASSUME NEW q \in Seq(OBU), NEW k \in 1..Len(q)
  PROVE  /\ Without(q, k) \in Seq(OBU)
         /\ Len(Without(q, k)) = Len(q) - 1
         /\ \A h \in 1..(Len(q) - 1) : Without(q, k)[h] = IF h < k THEN q[h] ELSE q[h + 1]
  <1> DEFINE a == SubSeq(q, 1, k - 1)
             b == SubSeq(q, k + 1, Len(q))
  <1>0. Len(q) \in Nat /\ \A h \in 1..Len(q) : q[h] \in OBU
    OBVIOUS
  <1>1. a \in Seq(OBU) /\ Len(a) = k - 1 /\ \A h \in 1..(k - 1) : a[h] = q[h]
    BY <1>0, SubSeqProperties
  <1>2. b \in Seq(OBU) /\ Len(b) = Len(q) - k /\ \A h \in 1..(Len(q) - k) : b[h] = q[k + h]
    BY <1>0, SubSeqProperties
  <1> HIDE DEF a, b
  <1>3. /\ a \o b \in Seq(OBU)
        /\ Len(a \o b) = Len(a) + Len(b)
        /\ \A h \in 1..(Len(a) + Len(b)) : (a \o b)[h] = IF h <= Len(a) THEN a[h] ELSE b[h - Len(a)]
    BY <1>1, <1>2, ConcatProperties
  <1>4. \A h \in 1..(Len(q) - 1) : (a \o b)[h] = IF h < k THEN q[h] ELSE q[h + 1]
    <2> SUFFICES ASSUME NEW h \in 1..(Len(q) - 1)
                 PROVE  (a \o b)[h] = IF h < k THEN q[h] ELSE q[h + 1]
      OBVIOUS
    <2>1. CASE h < k
      BY <1>0, <1>1, <1>2, <1>3, <2>1
    <2>2. CASE ~(h < k)
      <3>1. (a \o b)[h] = b[h - (k - 1)]
        BY <1>0, <1>1, <1>2, <1>3, <2>2
      <3>2. h - (k - 1) \in 1..(Len(q) - k) /\ k + (h - (k - 1)) = h + 1
        BY <1>0, <2>2
      <3>3. b[h - (k - 1)] = q[h + 1]
        BY <1>2, <3>2
      <3> QED
        BY <2>2, <3>1, <3>3
    <2> QED
      BY <2>1, <2>2
  <1>5. Without(q, k) = a \o b
    BY DEF Without, a, b
  <1> QED
    BY <1>0, <1>1, <1>2, <1>3, <1>4, <1>5

\* What leaderCheck records: each other station once, in the order heard.
LEMMA OthersListed ==
  ASSUME TypeOK, NEW i \in OBU, Distinct(seen[i]), AllConnected(seen[i])
  PROVE  /\ Distinct(Others(i))
         /\ AllConnected(Others(i))
         /\ \A k \in 1..Len(Others(i)) : Others(i)[k] # i
         /\ i # 0 /\ ZeroFirst(Others(i)) => HeardFirst(i, 0)
  <1>1. seen[i] \in Seq(OBU)
    BY DEF TypeOK
  <1>2. CASE ~Knows(i, i)
    <2>1. Others(i) = seen[i]
      BY <1>2 DEF Others
    <2>2. ZeroFirst(seen[i]) => HeardFirst(i, 0)
      <3> SUFFICES ASSUME ZeroFirst(seen[i]) PROVE HeardFirst(i, 0)
        OBVIOUS
      <3>1. 1 \in 1..Len(seen[i]) /\ seen[i][1] = 0 /\ 1..(1 - 1) = {}
        BY <1>1 DEF ZeroFirst
      <3> QED
        BY <3>1 DEF HeardFirst
    <2>3. \A k \in 1..Len(seen[i]) : seen[i][k] # i
      BY <1>2 DEF Knows
    <2> QED
      BY <2>1, <2>2, <2>3
  <1>3. CASE Knows(i, i)
    <2>1. PICK k \in 1..Len(seen[i]) :
            /\ k = CHOOSE h \in 1..Len(seen[i]) : seen[i][h] = i
            /\ seen[i][k] = i
      BY <1>3 DEF Knows
    <2> DEFINE q == seen[i]
               o == Others(i)
    <2>2. o = Without(q, k)
      BY <1>3, <2>1 DEF Others
    <2>3. /\ o \in Seq(OBU) /\ Len(q) \in Nat /\ k \in 1..Len(q)
          /\ Len(o) = Len(q) - 1
          /\ \A h \in 1..(Len(q) - 1) : o[h] = IF h < k THEN q[h] ELSE q[h + 1]
      BY <1>1, <2>2, WithoutElement
    <2>4. \A h, j \in 1..Len(q) : q[h] = q[j] => h = j
      BY DEF Distinct
    <2> HIDE DEF q, o
    <2>5. Distinct(o)
      BY <2>3, <2>4 DEF Distinct
    <2>6. \A h \in 1..Len(o) : \E j \in 1..Len(q) : j # k /\ o[h] = q[j]
      <3> SUFFICES ASSUME NEW h \in 1..Len(o)
                   PROVE  \E j \in 1..Len(q) : j # k /\ o[h] = q[j]
        OBVIOUS
      <3> DEFINE j == IF h < k THEN h ELSE h + 1
      <3>1. j \in 1..Len(q) /\ j # k /\ o[h] = q[j]
        BY <2>3
      <3> QED
        BY <3>1
    <2>7. AllConnected(o)
      BY <2>6 DEF AllConnected, q
    <2>8. \A h \in 1..Len(o) : o[h] # i
      BY <2>1, <2>4, <2>6 DEF q
    <2>9. ASSUME i # 0, ZeroFirst(o) PROVE HeardFirst(i, 0)
      <3>1. Len(o) >= 1 /\ o[1] = 0
        BY <2>3, <2>9 DEF ZeroFirst
      <3>2. CASE k = 1
        <4>0. q[k] = i
          BY <2>1 DEF q
        <4>1. q[2] = 0 /\ q[1] = i /\ 2 \in 1..Len(q)
          <5>1. 1 \in 1..(Len(q) - 1) /\ ~(1 < k) /\ 1 + 1 = 2
            BY <2>3, <3>1, <3>2
          <5>2. o[1] = q[1 + 1]
            BY <2>3, <5>1
          <5> QED
            BY <2>3, <3>1, <3>2, <4>0, <5>1, <5>2
        <4>2. \A h \in 1..(2 - 1) : q[h] = i
          BY <4>1
        <4> QED
          BY <4>1, <4>2 DEF HeardFirst, q
      <3>3. CASE k # 1
        <4>1. q[1] = 0 /\ 1 \in 1..Len(q) /\ 1..(1 - 1) = {}
          BY <2>3, <3>1, <3>3
        <4> QED
          BY <4>1 DEF HeardFirst, q
      <3> QED
        BY <3>2, <3>3
    <2> QED
      BY <2>5, <2>7, <2>8, <2>9 DEF o
  <1> QED
    BY <1>2, <1>3

\* What a leader announces.
LEMMA AnnouncedListed ==
  ASSUME TypeOK, NEW i \in OBU, Connected(i), GroupListed(i), group[i].str
  PROVE  /\ Announced(i) # <<>>
         /\ ~WellFormed(Announced(i)) => i # 0 /\ HeardFirst(i, 0)
         /\ AllConnected(Announced(i))
         /\ Announced(i)[Len(Announced(i))] = i
         /\ i # 0 => Distinct(Announced(i))
  <1> DEFINE d == group[i].digits
             a == Announced(i)
  <1>1. d \in Seq(0..3) /\ i \in 0..3
    BY StationDigits DEF TypeOK, GroupValue
  <1>2. /\ a # <<>> /\ Len(a) = Len(d) + 1 /\ Len(d) \in Nat /\ a[Len(d) + 1] = i
        /\ \A k \in 1..Len(d) : a[k] = d[k]
        /\ Head(a) = IF d = <<>> THEN i ELSE Head(d)
        /\ d = <<>> => Len(a) = 1
    BY <1>1 DEF Announced
  <1>3. AllConnected(d) /\ (i = 0 => ~ZeroFirst(d))
    BY DEF GroupListed
  <1>4. i # 0 => Distinct(d) /\ (\A k \in 1..Len(d) : d[k] # i) /\ (ZeroFirst(d) => HeardFirst(i, 0))
    BY DEF GroupListed
  <1> HIDE DEF d, a
  <1>5. ~WellFormed(a) => ZeroFirst(d)
    BY <1>2 DEF WellFormed, ZeroFirst
  <1>6. ~WellFormed(a) => i # 0 /\ HeardFirst(i, 0)
    BY <1>3, <1>4, <1>5
  <1>7. AllConnected(a)
    <2> SUFFICES ASSUME NEW k \in 1..Len(a) PROVE Connected(a[k])
      BY DEF AllConnected
    <2>1. CASE k = Len(d) + 1
      BY <1>2, <2>1
    <2>2. CASE k \in 1..Len(d)
      BY <1>2, <1>3, <2>2 DEF AllConnected
    <2> QED
      BY <1>2, <2>1, <2>2
  <1>8. i # 0 => Distinct(a)
    <2> SUFFICES ASSUME i # 0, NEW j \in 1..Len(a), NEW k \in 1..Len(a), a[j] = a[k]
                 PROVE  j = k
      BY DEF Distinct
    <2>1. CASE j \in 1..Len(d) /\ k \in 1..Len(d)
      BY <1>2, <1>4, <2>1 DEF Distinct
    <2> QED
      BY <1>2, <1>4, <2>1
  <1> QED
    BY <1>2, <1>6, <1>7, <1>8 DEF a

\* What station 0 answers.
LEMMA MembersListed ==
  ASSUME TypeOK, NEW s \in OBU, s # 0, Connected(s), 0 \in OBU, GroupListed(0)
  PROVE  /\ Append(group[0].digits, s) # <<>>
         /\ ~ZeroFirst(Append(group[0].digits, s))
         /\ WellFormed(Append(group[0].digits, s))
         /\ AllConnected(Append(group[0].digits, s))
  <1> DEFINE d == group[0].digits
             a == Append(d, s)
  <1>1. d \in Seq(0..3) /\ s \in 0..3
    BY StationDigits DEF TypeOK, GroupValue
  <1>2. /\ a # <<>> /\ Len(a) = Len(d) + 1 /\ Len(d) \in Nat /\ a[Len(d) + 1] = s
        /\ \A k \in 1..Len(d) : a[k] = d[k]
        /\ Head(a) = IF d = <<>> THEN s ELSE Head(d)
    BY <1>1
  <1>3. AllConnected(d) /\ ~ZeroFirst(d)
    BY DEF GroupListed
  <1> HIDE DEF d, a
  <1>4. Head(a) # 0
    BY <1>2, <1>3 DEF ZeroFirst
  <1>5. AllConnected(a)
    <2> SUFFICES ASSUME NEW k \in 1..Len(a) PROVE Connected(a[k])
      BY DEF AllConnected
    <2>1. CASE k = Len(d) + 1
      BY <1>2, <2>1
    <2>2. CASE k \in 1..Len(d)
      BY <1>2, <1>3, <2>2 DEF AllConnected
    <2> QED
      BY <1>2, <2>1, <2>2
  <1> QED
    BY <1>2, <1>4, <1>5 DEF ZeroFirst, WellFormed, a, d

\* A station whose list, connection and network thread are left alone.
LEMMA StationStays ==
  ASSUME TypeOK, [Next]_vars, NEW i \in OBU, StationListed(i), GroupListed(i)',
         seen'[i] = seen[i], sub'[i] = sub[i], rx'[i] \in {rx[i], "ask", "index", "type"}
  PROVE  StationListed(i)'
  <1>1. Distinct(seen[i])' /\ AllConnected(seen[i])'
    BY ListsStay DEF StationListed, Distinct, AllConnected
  <1> QED
    BY <1>1, ListsStay DEF StationListed

\* The main thread sends lists that are true and records one that is.
LEMMA MainLists ==
  ASSUME Safety, Lists, NEW i \in OBU, startSimul(i)
  PROVE  Lists'
  <1> USE DEF mainVars, checkVars, valVars, surrVars, linkVars
  <1>n. TypeOK /\ MessagesListed /\ StationListed(i) /\ GroupListed(i) /\ [Next]_vars /\ net \in Net
    BY DEF Safety, Next, TypeOK, Net, Lists, StationListed
  <1>c. /\ currentGroup \in [OBU -> {NoGroup} \cup OBU]
        /\ group \in [OBU -> GroupValue]
        /\ pos[i] \in Nat /\ pos[i] + ValsSpeed(i) \in Nat
    BY <1>n, ValsType DEF TypeOK
  <1>s. UNCHANGED <<seen, sub, rx>>
    BY DEF startSimul, Connect, FailConnect, FirstCam, Repeat, Lead, Move, StartCheck,
           CheckSizeChanged, CheckEmptyKey, CheckKey, CheckEnd
  <1>g. \A j \in OBU : GroupListed(j)'
    <2>1. CASE UNCHANGED group
      BY <1>n, <2>1, GroupStays DEF Lists, StationListed
    <2>2. CASE group' = [group EXCEPT ![i] = StrGroup(Others(i))]
      <3>1. \A j \in OBU \ {i} : GroupListed(j)'
        BY <1>c, <1>n, <2>2, GroupStays DEF Lists, StationListed
      <3> DEFINE o == Others(i)
      <3>2. /\ Distinct(o) /\ AllConnected(o) /\ (\A k \in 1..Len(o) : o[k] # i)
            /\ i # 0 /\ ZeroFirst(o) => HeardFirst(i, 0)
        BY <1>n, OthersListed DEF StationListed
      <3>3. i = 0 => ~ZeroFirst(o)
        <4>1. o \in Seq(0..3)
          BY <1>n, OthersType
        <4>2. o # <<>> => Len(o) >= 1 /\ Head(o) = o[1] /\ 1 \in 1..Len(o)
          BY <4>1
        <4> QED
          BY <3>2, <4>2 DEF ZeroFirst
      <3>4. group'[i].digits = o /\ group'[i].str
        BY <1>c, <2>2 DEF StrGroup
      <3> HIDE DEF o
      <3>5. \A k \in 1..Len(o) : o[k] \in OBU /\ pc'[o[k]] # "init"
        BY <1>n, <3>2, ListsStay DEF AllConnected, Connected
      <3>6. AllConnected(group[i].digits)'
        BY <3>4, <3>5 DEF AllConnected, Connected
      <3>7. i = 0 => ~ZeroFirst(group[i].digits)'
        BY <3>3, <3>4 DEF ZeroFirst
      <3>8. i # 0 => /\ Distinct(group[i].digits)'
                     /\ (\A k \in 1..Len(group[i].digits) : group[i].digits[k] # i)'
                     /\ ZeroFirst(group[i].digits)' => HeardFirst(i, 0)'
        BY <1>n, <3>2, <3>4, ListsStay DEF ZeroFirst, Distinct
      <3>9. GroupListed(i)'
        BY <3>6, <3>7, <3>8 DEF GroupListed
      <3> QED
        BY <3>1, <3>9
    <2> QED
      BY <2>1, <2>2
      DEF startSimul, Connect, FailConnect, FirstCam, Repeat, Lead, Move, StartCheck,
          CheckSizeChanged, CheckEmptyKey, CheckKey, CheckEnd
  <1>h. \A j \in OBU : StationListed(j)'
    BY <1>n, <1>s, <1>g, StationStays DEF Lists
  <1> SUFFICES ASSUME NEW l \in Links, NEW x \in Elements(net'[l])
               PROVE  x \in Elements(net[l]) \/ MessageListed(l, x)'
    BY <1>h, <1>n, OnlyListed DEF Lists
  <1>d. CASE net' = Deafen(net, i)
    BY <1>n, <1>d, DeafenElements
  <1>u. CASE UNCHANGED net
    BY <1>u
  <1>k. pc[i] # "init" => Connected(i) /\ Connected(i)'
    BY <1>n, ListsStay DEF Connected
  <1>1. CASE FirstCam(i)
    <2> DEFINE cam == Cam(i, pos[i])
    <2>1. cam \in Message
      BY <1>c, CamType
    <2>2. net' = Publish(net, i, cam)
      BY <1>1 DEF FirstCam
    <2>3. x \in Elements(net[l]) \/ (l[1] = i /\ x = cam)
      BY <1>n, <2>1, <2>2, PublishElements
    <2> QED
      BY <1>1, <1>k, <2>3 DEF FirstCam, MessageListed, ListTrue, Cam
  <1>a. ASSUME group[i].str, Connected(i), Leads(i)', NEW kind \in {"set", "repeat"},
               net' = Publish(net, i, Denm(kind, i, Announced(i), 7))
        PROVE  x \in Elements(net[l]) \/ MessageListed(l, x)'
    <2> DEFINE a == Announced(i)
               d == Denm(kind, i, a, 7)
    <2>1. d \in Message
      BY <1>n, <1>a, AnnouncedType, DenmType DEF MessageType
    <2>2. x \in Elements(net[l]) \/ (l[1] = i /\ x = d /\ Delivers(i, l[2], d))
      BY <1>n, <1>a, <2>1, PublishDelivers
    <2>3. /\ a # <<>>
          /\ ~WellFormed(a) => i # 0 /\ HeardFirst(i, 0)
          /\ AllConnected(a)
          /\ a[Len(a)] = i
          /\ i # 0 => Distinct(a)
      BY <1>n, <1>a, AnnouncedListed
    <2>4. d.type = kind /\ d.seq = a
      BY DEF Denm
    <2>5. Delivers(i, l[2], d) /\ i # l[2] => WellFormed(a)
      BY <1>a, <2>4 DEF Delivers, Transmittable
    <2> HIDE DEF a, d
    <2>6. \A k \in 1..Len(a) : a[k] \in OBU /\ pc'[a[k]] # "init"
      BY <1>n, <2>3, ListsStay DEF AllConnected, Connected
    <2>7. Connected(i)' /\ (HeardFirst(i, 0) => HeardFirst(i, 0)')
      BY <1>n, <1>a, ListsStay
    <2>8. CASE l[1] = i /\ x = d /\ Delivers(i, l[2], d)
      <3>1. x.type = kind /\ x.seq = a
        BY <2>4, <2>8
      <3>2. AllConnected(x.seq)'
        BY <2>6, <3>1 DEF AllConnected, Connected
      <3>3. Distinct(a) => Distinct(x.seq)'
        BY <3>1 DEF Distinct
      <3>4. ListTrue(l, x)'
        BY <1>a, <2>3, <2>5, <2>7, <2>8, <3>1, <3>2, <3>3 DEF ListTrue
      <3> QED
        BY <2>7, <2>8, <3>4 DEF MessageListed
    <2> QED
      BY <2>2, <2>8
  <1>2. CASE Repeat(i)
    <2>1. Connected(i)
      BY <1>2, <1>k DEF Repeat
    <2>2. Leads(i)'
      BY <1>2, <1>n, Stays DEF Safety, Repeat, RepeatDue, StationsTrue, FollowersFollowLeaders
    <2> QED
      BY <1>2, <1>d, <1>a, <2>1, <2>2 DEF Repeat, Crash
  <1>3. CASE Lead(i)
    <2>1. Connected(i)
      BY <1>3, <1>k DEF Lead
    <2>2. Leads(i)'
      BY <1>3, <1>c DEF Lead, Leads
    <2> QED
      BY <1>3, <1>d, <1>a, <2>1, <2>2 DEF Lead, Crash
  <1>4. CASE Move(i)
    <2> DEFINE cam == Cam(i, pos[i] + ValsSpeed(i))
               sent == Publish(net, i, cam)
    <2>0. cam \in Message
      BY <1>c, CamType
    <2>1. sent \in Net
      BY <1>n, <2>0, PublishType
    <2>2. x \in Elements(sent[l]) \/ x \in Elements(net[l])
      <3>1. CASE net' = sent
        BY <3>1
      <3>2. CASE net' = Deafen(sent, i)
        BY <2>1, <3>2, DeafenElements
      <3>3. CASE net' = Deafen(net, i)
        BY <1>n, <3>3, DeafenElements
      <3> QED
        BY <1>4, <3>1, <3>2, <3>3 DEF Move
    <2>3. x \in Elements(net[l]) \/ (l[1] = i /\ x = cam)
      <3> HIDE DEF cam
      <3> QED
        BY <1>n, <2>0, <2>2, PublishElements
    <2>4. Connected(i)' /\ cam.type = "cam"
      BY <1>4, <1>k DEF Move, AtBody, Cam
    <2> QED
      BY <2>3, <2>4 DEF MessageListed, ListTrue
  <1> QED
    BY <1>1, <1>2, <1>3, <1>4, <1>d, <1>u
    DEF startSimul, Connect, FailConnect, StartCheck, CheckSizeChanged, CheckEmptyKey, CheckKey,
        CheckEnd, Crash

\* The network thread answers with lists that are true and copies only such.
LEMMA RxLists ==
  ASSUME Safety, Lists, NEW s \in OBU, NEW r \in OBU, on_message(s, r)
  PROVE  Lists'
  <1> USE DEF mainVars, checkVars, valVars, surrVars
  <1> DEFINE m == Head(net[<<s, r>>])
             t == Take(net, s, r)
             members == Append(group[r].digits, s)
  <1>n. TypeOK /\ MessagesListed /\ [Next]_vars /\ net \in Net
    BY DEF Safety, Next, TypeOK, Net, Lists
  <1>l. \A j \in OBU : StationListed(j) /\ GroupListed(j)
    BY DEF Lists, StationListed
  <1>c. /\ group \in [OBU -> GroupValue]
        /\ seen \in [OBU -> Seq(OBU)]
        /\ rx \in [OBU -> {"up", "json", "ask", "index", "type"}]
    BY <1>n DEF TypeOK
  <1>m. ASSUME NEW k, Receives(s, r, k)
        PROVE  /\ t \in Net /\ m \in Message /\ m.type = k /\ net[<<s, r>>] # <<>>
               /\ MessageListed(<<s, r>>, m) /\ Connected(s)
    <2>1. t \in Net /\ m \in Message /\ m.type = k /\ m \in InFlight(<<s, r>>) /\ <<s, r>> \in Links
      BY <1>m, <1>n, ReceivesType
    <2>2. MessageListed(<<s, r>>, m)
      BY <1>n, <2>1 DEF MessagesListed
    <2> QED
      BY <1>m, <2>1, <2>2 DEF Receives, MessageListed
  <1>v. /\ UNCHANGED <<sub, pc>>
        /\ \E k : Receives(s, r, k)
    BY DEF on_message, on_message2, on_message3, on_message4, on_message5, RxCommon,
        InsertKey, RxCam, RxOwnDenm, RxSet, RxRepeat, AskToMerge, IgnoreAsk, AnswerAsk, RxReply,
        AnswerMerge, FailAsk, FailAsk1, FailAsk2, FailAsk3, FailMerge1, IgnoreMerge3,
        RxMergeReply
  <1>k. Connected(r) /\ Connected(r)'
    BY <1>l, <1>n, <1>v, ListsStay DEF Receives, Listening, StationListed
  <1>w. ASSUME NEW q \in Seq(0..3), AllConnected(q), r = 0 => ~ZeroFirst(q),
               NEW g \in GroupValue, g.digits = q, g.str => r = 0,
               group' = [group EXCEPT ![r] = g]
        PROVE  \A j \in OBU : GroupListed(j)'
    <2>1. \A j \in OBU \ {r} : GroupListed(j)'
      BY <1>c, <1>l, <1>n, <1>w, GroupStays
    <2>2. group'[r] = g
      BY <1>c, <1>w
    <2>3. AllConnected(group[r].digits)'
      BY <1>v, <1>w, <2>2 DEF AllConnected, Connected
    <2>4. GroupListed(r)'
      BY <1>w, <2>2, <2>3 DEF GroupListed, ZeroFirst
    <2> QED
      BY <2>1, <2>4
  <1>x. UNCHANGED group => \A j \in OBU : GroupListed(j)'
    BY <1>l, <1>n, GroupStays
  <1>y. ASSUME r = 0, s # 0, \E k : Receives(s, r, k)
        PROVE  /\ members # <<>> /\ ~ZeroFirst(members) /\ WellFormed(members)
               /\ AllConnected(members) /\ members \in Seq(0..3)
               /\ StrGroup(members) \in GroupValue
               /\ StrGroup(members).digits = members
    <2>1. Connected(s) /\ 0 \in OBU /\ GroupListed(0)
      BY <1>l, <1>m, <1>y
    <2>2. members \in Seq(0..3) /\ StrGroup(members) \in GroupValue
      BY <1>n, AppendType
    <2>3. StrGroup(members).digits = members
      BY DEF StrGroup
    <2> QED
      BY <1>n, <1>y, <2>1, <2>2, <2>3, MembersListed
  <1>g. \A j \in OBU : GroupListed(j)'
    <2>1. CASE r = 0 /\ (AnswerAsk(s) \/ AnswerMerge(s))
      <3>1. s # 0
        BY <2>1 DEF AnswerAsk, AnswerMerge
      <3>2. UNCHANGED group \/ group' = [group EXCEPT ![r] = StrGroup(members)]
        BY <2>1 DEF AnswerAsk, AnswerMerge
      <3> QED
        BY <1>v, <1>w, <1>x, <1>y, <2>1, <3>1, <3>2
    <2>2. CASE RxRepeat(s, r)
      <3>1. UNCHANGED group \/ group' = [group EXCEPT ![r] = IntGroup(m.seq)]
        BY <2>2 DEF RxRepeat
      <3>2. s # r /\ m \in Message /\ m.type = "repeat" /\ ListTrue(<<s, r>>, m)
        BY <1>m, <2>2 DEF RxRepeat, MessageListed
      <3>3. AllConnected(m.seq) /\ WellFormed(m.seq) /\ m.seq[Len(m.seq)] = s
        BY <3>2 DEF ListTrue
      <3>4. m.seq \in Seq(0..3)
        BY <3>2 DEF Message
      <3>5. r = 0 => ~ZeroFirst(m.seq)
        BY <3>2, <3>3, <3>4 DEF WellFormed, ZeroFirst
      <3>6. IntGroup(m.seq) \in GroupValue /\ IntGroup(m.seq).digits = m.seq /\ ~IntGroup(m.seq).str
        BY <3>4 DEF IntGroup, GroupValue
      <3> QED
        BY <1>w, <1>x, <3>1, <3>3, <3>4, <3>5, <3>6
    <2>3. CASE RxReply(s, r)
      <3>1. UNCHANGED group \/ (group' = [group EXCEPT ![r] = IntGroup(m.seq)] /\ r # 0)
        BY <2>3 DEF RxReply, Addressed
      <3>2. m \in Message /\ m.type = "reply" /\ ListTrue(<<s, r>>, m)
        BY <1>m, <2>3 DEF RxReply, MessageListed
      <3>3. AllConnected(m.seq)
        BY <3>2 DEF ListTrue
      <3>4. m.seq \in Seq(0..3)
        BY <3>2 DEF Message
      <3>5. IntGroup(m.seq) \in GroupValue /\ IntGroup(m.seq).digits = m.seq /\ ~IntGroup(m.seq).str
        BY <3>4 DEF IntGroup, GroupValue
      <3> QED
        BY <1>w, <1>x, <3>1, <3>3, <3>4, <3>5
    <2>4. CASE UNCHANGED group
      BY <1>x, <2>4
    <2> QED
      BY <2>1, <2>2, <2>3, <2>4
      DEF on_message, on_message2, on_message3, on_message4, on_message5, RxCommon,
          InsertKey, RxCam, RxOwnDenm, RxSet, AskToMerge, IgnoreAsk, FailAsk, FailAsk1, FailAsk2,
          FailAsk3, FailMerge1, IgnoreMerge3, RxMergeReply
  <1>h. \A j \in OBU : StationListed(j)'
    <2>1. CASE InsertKey(s, r)
      <3>1. UNCHANGED rx
        BY <2>1 DEF InsertKey
      <3>3. CASE ~Knows(r, s) /\ seen' = [seen EXCEPT ![r] = Append(@, s)]
        <4>1. \A j \in OBU \ {r} : StationListed(j)'
          BY <1>c, <1>g, <1>l, <1>n, <1>v, <3>1, <3>3, StationStays
        <4> DEFINE q == seen[r]
        <4>2. /\ Connected(s) /\ Distinct(q) /\ AllConnected(q)
              /\ q \in Seq(OBU) /\ \A k \in 1..Len(q) : q[k] # s
          BY <1>c, <1>l, <1>m, <2>1, <3>3 DEF InsertKey, Knows, StationListed
        <4>3. /\ Len(seen'[r]) = Len(q) + 1 /\ Len(q) \in Nat /\ seen'[r][Len(q) + 1] = s
              /\ \A k \in 1..Len(q) : seen'[r][k] = q[k]
          BY <1>c, <3>3
        <4>4. Distinct(seen[r])'
          <5> SUFFICES ASSUME NEW j \in 1..Len(seen'[r]), NEW k \in 1..Len(seen'[r]),
                              seen'[r][j] = seen'[r][k]
                       PROVE  j = k
            BY DEF Distinct
          <5> HIDE DEF q
          <5>1. CASE j \in 1..Len(q) /\ k \in 1..Len(q)
            <6>1. q[j] = q[k]
              BY <4>3, <5>1
            <6> QED
              BY <4>2, <5>1, <6>1 DEF Distinct
          <5>2. j \in 1..Len(q) \/ j = Len(q) + 1
            BY <4>3
          <5>3. k \in 1..Len(q) \/ k = Len(q) + 1
            BY <4>3
          <5>4. CASE j = Len(q) + 1 /\ k \in 1..Len(q)
            <6>1. q[k] = s
              BY <4>3, <5>4
            <6> QED
              BY <4>2, <5>4, <6>1
          <5>5. CASE k = Len(q) + 1 /\ j \in 1..Len(q)
            <6>1. q[j] = s
              BY <4>3, <5>5
            <6> QED
              BY <4>2, <5>5, <6>1
          <5>6. CASE j = Len(q) + 1 /\ k = Len(q) + 1
            BY <5>6
          <5> QED
            BY <5>1, <5>2, <5>3, <5>4, <5>5, <5>6
        <4>5. AllConnected(seen[r])'
          BY <1>v, <4>2, <4>3 DEF AllConnected, Connected
        <4>6. StationListed(r)'
          BY <1>g, <1>k, <1>l, <1>n, <3>1, <4>4, <4>5, ListsStay DEF StationListed
        <4> QED
          BY <4>1, <4>6
      <3> QED
        BY <2>1, <3>3 DEF InsertKey
    <2>2. CASE s = r /\ RxOwnDenm(r)
      <3>1. UNCHANGED seen
        BY <2>2 DEF RxOwnDenm
      <3>2. CASE UNCHANGED rx
        BY <1>g, <1>l, <1>n, <1>v, <3>1, <3>2, StationStays
      <3>3. CASE ~WellFormed(m.seq) /\ rx' = [rx EXCEPT ![r] = "json"]
        <4>1. \A j \in OBU \ {r} : StationListed(j)'
          BY <1>c, <1>g, <1>l, <1>n, <1>v, <3>1, <3>3, StationStays
        <4>2. ListTrue(<<r, r>>, m) /\ m.type # "cam"
          BY <1>m, <2>2 DEF RxOwnDenm, MessageListed
        <4>3. r # 0 /\ Leads(r) /\ HeardFirst(r, 0)
          BY <3>3, <4>2 DEF ListTrue
        <4>4. Leads(r)' /\ HeardFirst(r, 0)'
          BY <1>n, <4>3, ListsStay
        <4>5. Distinct(seen[r])' /\ AllConnected(seen[r])'
          BY <1>l, <1>n, <3>1, ListsStay DEF StationListed, Distinct, AllConnected
        <4>6. StationListed(r)'
          BY <1>g, <1>k, <4>3, <4>4, <4>5 DEF StationListed
        <4> QED
          BY <4>1, <4>6
      <3> QED
        BY <2>2, <3>2, <3>3 DEF RxOwnDenm, RxDies
    <2>3. ASSUME UNCHANGED seen,
                 UNCHANGED rx \/ \E kind \in {"ask", "index", "type"} : rx' = [rx EXCEPT ![r] = kind]
          PROVE  \A j \in OBU : StationListed(j)'
      <3>1. \A j \in OBU : rx'[j] \in {rx[j], "ask", "index", "type"}
        BY <1>c, <2>3
      <3> QED
        BY <1>g, <1>l, <1>n, <1>v, <2>3, <3>1, StationStays
    <2>4. CASE r = 0 /\ AnswerMerge(s)
      BY <2>3, <2>4 DEF AnswerMerge, RxDies
    <2>5. CASE FailAsk(s, r) \/ (r = 1 /\ FailMerge1(s))
      BY <2>3, <2>5 DEF FailAsk, FailMerge1, RxDies
    <2> QED
      BY <2>1, <2>2, <2>3, <2>4, <2>5
      DEF on_message, on_message2, on_message3, on_message4, on_message5, RxCommon,
          RxCam, RxSet, RxRepeat, AskToMerge, IgnoreAsk, AnswerAsk, RxReply,
          FailAsk1, FailAsk2, FailAsk3, IgnoreMerge3, RxMergeReply
  <1> SUFFICES ASSUME NEW l \in Links, NEW x \in Elements(net'[l])
               PROVE  x \in Elements(net[l]) \/ MessageListed(l, x)'
    BY <1>h, <1>n, OnlyListed DEF Lists
  <1>d. CASE net' = Deafen(net, r)
    BY <1>n, <1>d, DeafenElements
  <1>t. ASSUME NEW k, Receives(s, r, k), net' = t
        PROVE  x \in Elements(net[l])
    BY <1>t, <1>m, <1>n, TakeElements
  <1>p. ASSUME NEW k, Receives(s, r, k), NEW d \in Message, net' = Publish(t, r, d)
        PROVE  x \in Elements(net[l]) \/ (l[1] = r /\ x = d)
    <2>1. x \in Elements(t[l]) \/ (l[1] = r /\ x = d)
      BY <1>p, <1>m, PublishElements
    <2> QED
      BY <2>1, <1>p, <1>m, <1>n, TakeElements
  <1>1. CASE RxRepeat(s, r)
    <2> DEFINE d == Denm("ask", r, <<0>>, 7)
    <2>1. d \in Message /\ d.type = "ask" /\ d.seq = <<0>>
      BY DEF Denm, Message, MessageType
    <2>2. CASE net' = Publish(t, r, d)
      <3>1. x \in Elements(net[l]) \/ (l[1] = r /\ x = d)
        BY <1>1, <1>p, <2>1, <2>2 DEF RxRepeat
      <3>2. WellFormed(<<0>>)
        BY DEF WellFormed
      <3> QED
        BY <1>k, <2>1, <3>1, <3>2 DEF MessageListed, ListTrue
    <2> QED
      BY <1>1, <1>t, <2>2 DEF RxRepeat
  <1>2. CASE r = 2 /\ AskToMerge(s)
    <2> DEFINE d == Denm("mergeReq", r, <<0>>, 7)
    <2>1. d \in Message /\ d.type = "mergeReq" /\ d.seq = <<0>>
      BY DEF Denm, Message, MessageType
    <2>2. x \in Elements(net[l]) \/ (l[1] = r /\ x = d)
      BY <1>2, <1>p, <2>1 DEF AskToMerge
    <2>3. WellFormed(<<0>>)
      BY DEF WellFormed
    <2> QED
      BY <1>k, <2>1, <2>2, <2>3 DEF MessageListed, ListTrue
  <1>a. ASSUME r = 0, s # 0, NEW k, Receives(s, r, k), NEW kind \in {"reply", "mergeReply"},
               net' = Publish(t, r, Denm(kind, r, members, s))
        PROVE  x \in Elements(net[l]) \/ MessageListed(l, x)'
    <2> DEFINE d == Denm(kind, r, members, s)
    <2>1. /\ members # <<>> /\ WellFormed(members) /\ AllConnected(members)
          /\ members \in Seq(0..3) /\ s \in 0..7
      BY <1>a, <1>y, StationDigits
    <2>2. d \in Message
      BY <1>a, <2>1, DenmType DEF MessageType
    <2>3. d.type = kind /\ d.seq = members
      BY DEF Denm
    <2>4. x \in Elements(net[l]) \/ (l[1] = r /\ x = d)
      BY <1>a, <1>p, <2>2
    <2>5. ASSUME l[1] = r, x.type = kind, x.seq = members PROVE MessageListed(l, x)'
      <3>1. AllConnected(x.seq)'
        BY <1>v, <2>1, <2>5 DEF AllConnected, Connected
      <3> QED
        BY <1>a, <1>k, <2>1, <2>5, <3>1 DEF MessageListed, ListTrue
    <2> QED
      BY <2>3, <2>4, <2>5
  <1>3. CASE r = 0 /\ AnswerAsk(s)
    BY <1>3, <1>a DEF AnswerAsk
  <1>4. CASE r = 0 /\ AnswerMerge(s)
    BY <1>4, <1>a, <1>d, <1>t DEF AnswerMerge, RxDies
  <1>5. CASE s = r /\ RxOwnDenm(r)
    BY <1>5, <1>d, <1>t DEF RxOwnDenm, RxDies
  <1>6. CASE \/ RxCam(s, r) \/ RxSet(s, r) \/ IgnoreAsk(s, r) \/ RxReply(s, r)
             \/ RxMergeReply(s, r) \/ (r = 3 /\ IgnoreMerge3(s))
    BY <1>6, <1>t DEF RxCam, RxSet, IgnoreAsk, RxReply, RxMergeReply, IgnoreMerge3
  <1>8. CASE InsertKey(s, r)
    BY <1>8 DEF InsertKey
  <1>7. CASE FailAsk(s, r) \/ (r = 1 /\ FailMerge1(s))
    BY <1>7, <1>d DEF FailAsk, FailMerge1, RxDies
  <1> QED
    BY <1>1, <1>2, <1>3, <1>4, <1>5, <1>6, <1>7, <1>8
    DEF on_message, on_message2, on_message3, on_message4, on_message5, RxCommon,
        FailAsk1, FailAsk2, FailAsk3

\* Every step keeps what is true of the lists.
LEMMA ListsStep == Safety /\ Lists /\ [Next]_vars => Lists'
  <1> SUFFICES ASSUME Safety, Lists, [Next]_vars PROVE Lists'
    OBVIOUS
  <1> USE DEF mainVars, checkVars, valVars, surrVars, linkVars
  <1>n. TypeOK /\ MessagesListed /\ net \in Net /\ \A j \in OBU : StationListed(j) /\ GroupListed(j)
    BY DEF Safety, TypeOK, Net, Lists, StationListed
  <1>1. ASSUME NEW i \in OBU, startSimul(i) PROVE Lists'
    BY <1>1, MainLists
  <1>2. ASSUME NEW s \in OBU, NEW r \in OBU, on_message(s, r) PROVE Lists'
    BY <1>2, RxLists
  <1>3. CASE UNCHANGED group
    <2>g. \A j \in OBU : GroupListed(j)'
      BY <1>3, <1>n, GroupStays
    <2>1. ASSUME UNCHANGED <<seen, sub, rx>> PROVE \A j \in OBU : StationListed(j)'
      BY <1>n, <2>1, <2>g, StationStays
    <2>2. UNCHANGED net => MessagesListed'
      BY <1>n, OnlyListed
    <2>3. ASSUME NEW s \in OBU, NEW r \in OBU, Lose(s, r) PROVE Lists'
      <3>1. net[<<s, r>>] # <<>> /\ net' = Take(net, s, r)
        BY <2>3 DEF Lose
      <3>2. \A l \in Links : \A x \in Elements(net'[l]) : x \in Elements(net[l])
        BY <1>n, <3>1, TakeElements
      <3>3. MessagesListed'
        BY <1>n, <3>2, OnlyListed
      <3> QED
        BY <2>1, <2>3, <3>3 DEF Lists, Lose
    <2>4. ASSUME NEW r \in OBU, on_connect(r) PROVE Lists'
      <3>1. pc[r] # "init" /\ sub' = [sub EXCEPT ![r] = TRUE] /\ UNCHANGED <<seen, rx, net, pc>>
        BY <2>4 DEF on_connect
      <3>2. \A j \in OBU \ {r} : sub'[j] = sub[j]
        BY <1>n, <3>1 DEF TypeOK
      <3>3. \A j \in OBU \ {r} : StationListed(j)'
        BY <1>n, <2>g, <3>1, <3>2, StationStays
      <3>4. Distinct(seen[r])' /\ AllConnected(seen[r])' /\ Connected(r)'
        BY <1>n, <3>1, ListsStay DEF StationListed, Distinct, AllConnected, Connected
      <3>5. StationListed(r)'
        BY <1>n, <2>g, <3>1, <3>4, ListsStay DEF StationListed
      <3> QED
        BY <2>2, <3>1, <3>3, <3>5 DEF Lists
    <2>5. CASE UNCHANGED <<seen, sub, rx, net>>
      BY <2>1, <2>2, <2>5 DEF Lists
    <2> QED
      BY <1>1, <1>2, <2>3, <2>4, <2>5 DEF Next, Unblock, Finished, vars
  <1> QED
    BY <1>1, <1>2, <1>3 DEF Next, on_connect, Lose, Unblock, Finished, vars

\* The lists are true throughout.
THEOREM ListsHold == Spec => []Lists
  BY ListsInit, ListsStep, SafetyHolds, PTL DEF Spec

(***************************************************************************)
(* json.loads raises in on_message, on the echo of an own DENM, only at a  *)
(* leader other than station 0 that heard of station 0 before any other:   *)
(* only then does its member list, a number in the JSON text, begin with a *)
(* zero.                                                                   *)
(***************************************************************************)
THEOREM MalformedNeedsZero == Spec => []MalformedOnlyAfterZero
  <1>1. Lists => MalformedOnlyAfterZero
    BY DEF Lists, StationListed, MalformedOnlyAfterZero
  <1> QED
    BY <1>1, ListsHold, PTL

(***************************************************************************)
(* A set or repeat DENM of startSimul names its sender last, which leads,  *)
(* and only stations that connected; a set DENM of a station other than 0  *)
(* names none twice.                                                       *)
(***************************************************************************)
THEOREM AnnouncementsTrue == Spec => []AnnouncementsAreTrue
  <1>1. Safety /\ Lists => AnnouncementsAreTrue
    <2> SUFFICES ASSUME Safety, Lists, NEW m \in Sent, m.type \in {"set", "repeat"}
                 PROVE  /\ m.seq # <<>> /\ m.seq[Len(m.seq)] = m.from
                        /\ Leads(m.from)
                        /\ \A k \in 1..Len(m.seq) : m.seq[k] \in OBU /\ pc[m.seq[k]] # "init"
                        /\ m.type = "set" /\ m.from # 0 =>
                             \A j, k \in 1..Len(m.seq) : m.seq[j] = m.seq[k] => j = k
      BY DEF AnnouncementsAreTrue
    <2>1. PICK l \in Links : m \in InFlight(l)
      BY DEF Sent
    <2>2. ListTrue(l, m) /\ MessageTrue(l, m)
      BY <2>1 DEF Safety, Lists, MessagesTrue, MessagesListed, MessageListed
    <2>3. m.from = l[1] /\ Leads(l[1])
      BY <2>2 DEF MessageTrue
    <2>4. /\ m.seq # <<>> /\ AllConnected(m.seq) /\ m.seq[Len(m.seq)] = l[1]
          /\ m.type = "set" /\ l[1] # 0 => Distinct(m.seq)
      BY <2>2 DEF ListTrue
    <2> QED
      BY <2>3, <2>4 DEF AllConnected, Connected, Distinct
  <1> QED
    BY <1>1, SafetyHolds, ListsHold, PTL
=============================================================================
