# Verification of the platooning project

The repository simulates a platoon of cars. Four on-board units (OBUs) exchange
CAMs (positions) and DENMs (events) through four containers of the Vanetza
protocol stack; a web application shows where the cars are and who leads. This
directory holds TLA+ specifications of the three parts - the simulator
`simulator/simulator.py`, the dashboard under `web-app/`, and the parts of
`vanetza/` that keep state - with TLC configurations and TLAPS proofs.

## Inventory

### Simulator

| Component | State | Operations | Interaction |
|---|---|---|---|
| `startSimul`, `leaderCheck` (one process per OBU, main thread) | `msgNum`, `checkTime`, `currentGroup`, `repeatDenm`, position, `interval`, `curr_distance`; locals of `leaderCheck` | connect, first CAM, repeat the set DENM, check, lead, move, end | publishes to its broker; shares `vals` and `mySurroudings` with its network thread; publishes `cams` and `leaders` for the dashboard |
| `on_message2` .. `on_message5` (network thread of the MQTT client) | `vals` (`groupID`, `group`, `speed`, `checkTime`, `overlord`), `mySurroudings` | CAM, echo of an own DENM, 100/1 set, 100/2 repeat, 101/1 ask, 101/2 reply, 102/1 merge request, 102/2 merge reply | answers by publishing; an exception ends the thread |
| `on_connect2` .. `on_connect5` | subscription | subscribe after the connection | races with the first CAMs |
| `check`, `calcBearing` | none | is the other car behind? | called by `leaderCheck` and by station 0 for merge requests |
| `main` | the processes, the blocks between the front pair 0, 1 and the rear pair 2, 3 | block, start, join | `os.system`, result not looked at |

### Dashboard

| Component | State | Operations | Interaction |
|---|---|---|---|
| `web-app/backend/app/api.py` | points in InfluxDB | store `cams` and `leaders`, `getLocations` | MQTT in, HTTP out; restarts by itself (`main.py`, `reload=True`) |
| `web-app/frontend/src/views/Maps_Page.js` | markers | poll `getLocations` every 200 ms | HTTP; answers may overlap |

### Vanetza

| Component | State | Operations | Interaction |
|---|---|---|---|
| `ManualRuntime`, `TimeTrigger` | time, queue of callbacks, one io timer | schedule, cancel, trigger, reset | everything below schedules callbacks there; handing a packet to the link layer triggers it again |
| Beacons, `Repeater`, CAM timer, position updates | one callback each, or one per repetition | expire, repeat, update | callbacks of the runtime, inside each other |
| `Router` | location table, two buffers, memory of GeoBroadcasts | request, beacon, indicate, forward, pass up | radio; upper layers |
| `LocationTable` over `SoftStateMap` | entries with expiry, position vector, neighbour flag, duplicate packet list | update, refresh, expire | read and written by every indication |
| `PacketBuffer` | nodes, bytes | push, flush, head drop, expiry | flushing calls the router, which may push again |
| `CbfPacketBuffer` with counters | list, timers, bytes, counters, one callback | add, remove, update, fetch, flush | router, runtime |
| `Lifetime` | one byte | encode, decode, reduce | every stay in a buffer |
| `FlowControl` with rate control | four queues, triggers, budgets | request, trigger, reschedule | state machine gives the interval |
| DCC state machines | window of channel loads, state | update | flow control |
| Certificate exchange | sign header policy, cache, own ticket | sign, verify, request, renew | messages between stations |

What is hard here: two threads per station without locks; messages of several
stations and the station's own echoes in any order; a subscription that comes
late; exceptions that end one thread of a process or all of it; a group that is
a string at its owner and an integer at everybody who received it; positions
that stop being recorded once a group is set; losses, retries and requests that
are not idempotent; polls that overlap and a server that restarts; callbacks
that run inside callbacks; timers moved while a flush is scheduled; timestamps
that wrap around; buffers and lists at their limit; caches that expire while a
message is lost. `PROJECT.json` lists each hazard at its line.

What makes each component correct:

- *main loop*: a check that is due is never skipped, the route is driven to its
  end, the process ends, and an exception of its own needs known circumstances;
- *handlers*: whoever follows follows a real leader at its speed; announcements
  are true; a listener gets a group; a merge goes back to its request;
- *check*: says "behind" exactly for the cars behind;
- *dashboard*: the page shows one moment, never one older than what it showed
  when it asked, and in the end the last one;
- *event loop*: no timer is lost, doubled or late by a period;
- *router*: a packet is passed up once, sent once where duplicates are
  detected, goes no further than its hop limit, and arrives;
- *what a router keeps*: the newest position, a neighbour flag that means
  something, byte counts that are exact, no more dropped than needed, a flush
  whenever something contends;
- *lifetime*: never prolonged, charged up to rounding;
- *congestion control*: no queue is stuck, order and lifetimes are kept, the
  interval follows the load and settles;
- *certificates*: only accepted tickets are cached, stations come to trust each
  other in spite of losses, and requests end.

## Modules

### Simulator and dashboard

- `Platoon.tla` - the protocol: both threads of every station, brokers and
  radio. One action per branch of the code:
  - main thread, from `startSimul`: `Connect`, `FailConnect`, `FirstCam`,
    `Repeat`, `StartCheck`, `CheckKey`/`CheckSizeChanged`/`CheckEmptyKey`/
    `CheckEnd` (the loop of `leaderCheck`, one key per step, because the network
    thread runs in between), `Lead`, `Move`;
  - network thread: `on_connect`, and `on_message2` .. `on_message5` as
    disjunctions of the branches they share (`InsertKey`, `RxCam`, `RxOwnDenm`, `RxSet`,
    `RxRepeat`, `IgnoreAsk`, `RxReply`, `RxMergeReply`) and of those that
    differ (`AnswerAsk` and `AnswerMerge` at station 0; `FailAsk1`,
    `FailAsk2`, `FailAsk3`, `FailMerge1`: the code raises there;
    `AskToMerge` at station 2; `IgnoreMerge3`);
  - environment: `Lose`, `Unblock`.

  The state keeps the names of the source: `msgNum`, `checkTime`,
  `currentGroup`, `repeatDenm`, `interval` (counted from 1), `groupID`,
  `group`, `overlord`. `run` is `curr_distance`, `synced` says that
  `vals["speed"]` and `vals["checkTime"]` have the values of `sync_stats`,
  `seen` and `surr` are the keys, in insertion order, and the last elements of
  `mySurroudings`, `blank` the key whose list is still empty, `rx` is the state
  of the network thread and `err` the exception that ended the process.
- `Membership.tla` - what the protocol promises of groups: leaders are declared
  once and for ever, a station follows only another station that leads, nobody
  has a group before somebody leads. `Platoon` implements it
  (`MembershipSpec`; the mapping takes `member` from `groupID` and `leaders`
  from `currentGroup`).
- `Bearing.tla` - the arithmetic of `check` in whole degrees, for every
  heading, against the angle on the circle.
- `Dashboard.tla` - `message` (which may fail to write), `Called`, `Query`,
  `Return` (`getLocations`, one query per step), `Restart` and `connect` of the
  backend; `Poll`, `Refused`, `Settle` of the page. `moments` keeps every
  content the database has had, so that an answer can be compared with them.

### Vanetza

- `Lifetime.tla` - encode, decode and `reduce_lifetime`; a tie in the rounding
  may go either way.
- `PacketBuffer.tla`, `CbfPacketBuffer.tla` - the two buffers, one action per
  operation, over `Lifetime`. When `add` of the latter compares a dangling
  iterator, both outcomes are possible.
- `Contention.tla` - what `CbfPacketBuffer` promises: packets enter and leave
  once, silently or handed over. Shown by `ContentionSpec`.
- `LocationTable.tla` - table, expiring map, duplicate list and circular order
  of timestamps, driven by what the router does when it indicates a packet.
- `Router.tla` - several routers in a radio network: `request`, beacons, the
  three indications, simple, greedy, contention based and advanced forwarding,
  store-carry-forward, duplicate detection, `decide_pass_up`. It uses the
  buffers and the table as their own modules describe them: when a buffered
  packet or an entry expires is left open, and a contention timer may run out
  at any time.
- `Runtime.tla` - the runtime, its trigger and the callbacks in it. A thread
  has a stack of calls that are not finished; an action runs the topmost up to
  its next call of `trigger()`.
- `FlowControl.tla` - queues, triggers, drops and both rate controls.
- `Queues.tla` - what the buffers and queues have in common: elements that
  leave from within (`remove_if`) and elements that enter in the order of their
  deadlines (`ordered_non_unique`).
- `DccStates.tla` - the fully meshed and the gradual state machine.
- `Certificates.tla` - sign header policy, cache, verification and renewal.

### Model checking and proofs

- `MCPlatoon.tla` gives constants for the protocol; `MCGroups.tla` and
  `MCProgress.tla` add further instances of `Platoon`; `MCCertificates.tla`
  lets a scenario, chosen by the initial state, lose CAMs or renew a ticket.
- `MCGeonet.tla`, `MCStation.tla`, `MCEventually.tla` put several components
  into one run: a variable `scenario`, chosen by the initial state, names the
  one that moves, and the others rest. One component is extended
  (`LocationTable`, `Lifetime`, `CbfPacketBuffer`, in this order), the others
  are instances. They do not interact there; where components interact
  (`Router`, `Runtime`, `Platoon`, `Dashboard`) they are in one module.
- Proofs, each module about the one it is named after: `PlatoonProofs.tla`,
  `DashboardProofs.tla`, `RuntimeProofs.tla`, `CertificatesProofs.tla`.
  `BufferProofs.tla` is about both buffers of a router, `CbfPacketBuffer` and
  `PacketBuffer`; `DccProofs.tla` about congestion control: `FlowControl` and
  `DccStates`. `StationProofs.tla` is about `Lifetime` and
  `Bearing`, and about the station that `MCStation` puts together;
  `GeonetProofs.tla` about `LocationTable`, and what a router keeps together
  in `MCGeonet`. In these two the components are instances of the modules with
  their proofs, whose theorems can so be cited for them.

Definitions marked "seeded fault" are mistakes one could make in the code (a
forgotten `str()`, a compared `subCauseCode` without its `causeCode`, a trigger
that is not scheduled, ...). No action uses them; each is put in the place of
the definition after it to see that a property notices.

### Abstractions

- A group is a sequence of digits with a flag for its Python type. A
  `sequenceNumber` is those digits: it parses unless it has a leading zero, and
  it can be encoded up to five digits (the digits are 0..3, the limit 65535).
- The road is a line. `check` with the constant heading 90 of every CAM says
  whether the other car is behind; with `Bends` a car behind may be missed.
- Each handler is one step, as is each segment of the main loop between two
  accesses to shared data that a handler can disturb. The first CAM of a station
  is two steps: the `defaultdict` inserts a key with an empty list (`InsertKey`)
  before the position is appended (`RxCam`), and `leaderCheck` raises an
  IndexError if it reads the list in between. Inside `RxSet` and inside
  `Move` the two fields `speed` and `checkTime` are written and read together.
- `vals["location"]` is `()` exactly while the car has not moved (`pos` is 0).
- After an integer group meets an ask at stations 2 and 3 the code stores a sum
  before it raises; only the type of that group matters afterwards.
- External, modelled from how the code uses it: paho (an exception in a
  callback ends its thread, and with it reading and writing), mosquitto (a
  message reaches the subscribers in order), the radio between two containers
  (in order per sender, lossy on the links of `Lossy`), InfluxDB (`LAST` finds the point
  written last). The positions of a CAM arrive as they were sent, although the
  `socktap` sources of the repository use the integer units of ETSI: the
  containers run a prebuilt image.
- Messages to a station whose process or network thread has ended are dropped.
  The last CAM of a route may be lost with the process that queued it (`Move`);
  what was published just before an exception is taken as sent.
- `connect()` raises at stations of `Unreachable`, for their broker or for that
  of the page (`FailConnect`). A broker that answers with a result code other
  than 0 gets no subscription; the client connects again, which is an
  `on_connect` that comes late.
- Vanetza: time is relative (ticks left, ticks since) wherever only differences
  matter. Geometry is given: distances to the centre of the area, who is
  inside, which sectors. The average packet data rate is a test that may fail
  (`RateLimited`). Timers of equal expiry may fire in any order. The buffers of
  `Router` count with contending counters, the default: after the test whether
  the packet is in the buffer, a counter of 0 is below any `CbfMaxCounter` of at
  least 1. `vanetzaFadingCbfCounter` (off in `mib.cpp:56`) is modelled in the
  buffer, not in `Router`. `CbfPacketBuffer.flush` is one step: its callback
  hands packets to the link layer, where the runtime may be triggered (the
  nesting is that of `Runtime`); what is called there (beacons, position
  updates, packets of the applications) does not use this buffer, whose next
  flush is scheduled only afterwards, so only time moves on meanwhile, which the
  model leaves out. `add` is
  called for packets the router has just not found in the buffer, with timeouts
  of at least `itsGnCbfMinTime`; a timeout of zero and a packet inserted in vain
  do not occur. Packets are
  identified by source and sequence number, their contents left out. Channel
  loads are whole percents. Signatures are valid and certificates within their
  restrictions.

### Bounds

*Simulator.* `CheckEvery`, `SyncCheck` and `RepeatEvery` are 10, 300 and 10 in
the code and 2, 2..4 and 1..2 here; their order is kept, so a car checks before
and after it joins a group and a leader repeats its announcement several times
before the route ends. `Distances` bounds the run of every car. In `front_pair`
the broker of station 1 may refuse (`Unreachable`), elsewhere none does. `MaxQueue` and
`MaxBusy` make a *main thread* wait while messages are undelivered; handlers
never wait. One message per link already allows what the hazards name (the
requests that end a network thread, two leaders, an overlord); two are needed for positions to be reordered, hence `front_pair`.
`ParkAt` stops main threads in the configurations with a third station or a
listener. Beyond the bounds are two alternatives of `AnswerMerge`, a merge
request that reaches station 0 before its first move or after it copied a
member list: they need two leaders at the rear besides station 0 (1.4 million
states with a route of one segment of length 2, where both are reached). The
theorems cover them.

*Dashboard.* `MaxMessages` 3 and `MaxRestarts` 1: a point may be lost before or
after others, and a restart hits each query. Two connections make answers
overlap.

*Vanetza.* `PacketBuffer`: four packets, one larger than the buffer; `AgeCap`
lies beyond every lifetime. `CbfPacketBuffer`: three packets for four bytes,
timeouts that differ by more than a late trigger (`MaxStep` 2), `MaxCount`
stops the counter where the router stops looking at it (run `eventually`);
with fading counters two packets, `FadeTicks` four times the longest timeout,
as in the MIB (run `geonet`). `LocationTable`: one station
(entries do not interact), 14 timestamps, more than twice the life of an entry
plus the longest delay, so that time goes around during a run; `MaxAccepted`
is twice the length of the duplicate list. `Router`: three routers and a hop
limit of 3, enough for a copy to come back to every router; counts of `up` and
`down` stop at "too often". `Runtime`: `MaxClock` 6 covers two beacon periods
and three position updates; the clock may advance inside any callback.
`FlowControl`: in `station` five packets, three of one profile, and queues of
two, so that packets of a queue can change places; requests up to `LastRequest`,
and `MaxTime` covers the longest interval after the last. `DccStates`:
windows of 2 and 4 samples instead of 10 and 50, all thresholds among the
loads. `Certificates`: half seconds; the hour an authority is cached is scaled
down to just more than the two seconds of a ticket, so that it expires too.
`Lifetime`: all 256 bytes; queueing times around every tie and threshold.

## Runs

| Run | Instance | Shows |
|---|---|---|
| `front_pair` | stations 0, 1, two messages per link; the broker of 1 may refuse | `TypeOK`, `CheckNeverSkipped`, `LeaderCrashNeedsRival`, `MalformedOnlyAfterZero`, `RouteFollowed`, `PositionsAdvance`, `AnnouncementsAreTrue` |
| `late_stations` | 0 drives, 2 and 3 hardly start; one block failed, the other is lifted while driving; messages from 2 to 0 are lost | `MergeIsTraceable`, `FollowersFollowLeaders` with three stations: joining and merging across the blocks |
| `groups` | stations 2, 3, where a leader dies on the first question; stations 0, 2 with losses, bends, blocks lifted while driving; stations 1, 2, where 1 dies on a merge request | `PairsImplementMembership`, the refinement of `Membership` |
| `progress` | stations 0, 1; 0 and a listener 1 | liveness: `DrivingTerminates`, `ListenerGetsAGroup`; `MembershipSpec` |
| `geonet` | what a router keeps; three routers with each algorithm, frames lost | `NewestPositionKept`, `NeighbourIsNear`, `TableIsSound` (duplicate window, recent position), `BuffersAreSound` (store: bytes, one place, order; contention with fading counters: list, timers, bytes, capacity, counters), `LeastDropped`, `FloodIsBounded` (hop limit, passed up once, sent once) |
| `station` | event loop, flow control, state machines, late certificates, lifetimes, `check`, dashboard | `TimersAreKept`, `NothingIsStuck`, `InOrderAndInTime`, `LoadDecides`, `CachedIsAccepted`, `CheckIsRight`, `PageIsConsistent`, `LifetimeNeverGrows`, `AgesWithinRounding` |
| `trust` | two stations, two authorities; one CAM in a row missed, or a renewal | `OneMissedMessage`; liveness: `MutualTrust`, `RequestsEnd` |
| `eventually` | the contention buffer; else one scenario per property | `BufferIsSound` (list, timers, bytes, capacity, counters), `FlushInTime`, `ContentionSpec`; liveness: `FloodEnds`, `Delivered`, `ContentionEnds`, `QueuesDrain`, `IntervalSettles`, `PageConverges` |
| `own_echo` | stations 0, 1 | violated: `OwnGroupMeansLeader` |
| `ask_unanswered` | stations 2, 3 | violated: `AskIsAnswered` |
| `leading_zero` | stations 0, 1 | violated: `SequenceNumbersFit` |
| `two_threads` | io thread and MQTT thread | violated: `SameThread` |

The violated properties state what comments, the ASN.1 module and the header of
the runtime say; `PROJECT.json` quotes them under "findings".

The invariants of `geonet`, `station` and `eventually` that have the word sound
or kept in them join the parts that one component's state is made of, its type invariant
among them; the parts are defined, each with its comment, in the component's
module.

Deadlock is checked everywhere. Where a component may rest for good, a
stuttering step says so: `Finished` in `Platoon`, `Outlived` and `Returned` in
`MCStation`, `AtRest` in `MCEventually`.

### Fairness

- `progress`: the main thread of every process is scheduled (`WF` of
  `startSimul`; it never blocks on anything but sleeps and the bounds), and the
  MQTT client connects, subscribes and hands over what its broker has for it
  (`WF` of `on_connect` and of `on_message` per link). Losses are off: a leader
  repeats only as long as it drives, so under losses a listener may stay without
  a group.
- `trust`: time goes on, every station sends its CAMs, each frame arrives or is
  lost. Where frames are lost, a kind of message that is sent again and again
  (ticket, chain, request) gets through again and again (`SF`), which is what a
  radio link that loses some frames and not all does; no more than `MaxMissed`
  CAMs in a row are lost. In the scenario with a renewal nothing is lost.
- `eventually`: the runtime calls what is due (beacon and contention timers,
  `Trigger`, `trigger`), frames that are under way arrive (losses are off: the
  code has no retransmission), measurements go on, and for the dashboard the
  interval fires, the backend reconnects, its event loop goes on and every
  request is answered or refused. Restarts and failing writes are not fair: they
  may happen or not, up to their bound.

## Deviations met without a run of their own

Behaviours that the models contain and that a reader may not expect. No text of
the repository rules them out, or the code does not reach them today.

- `check` misses cars behind for headings from 170 on; every CAM of the
  simulator has heading 90.
- `Lifetime`: stays shorter than half a step of the base are not charged at
  all, so a packet that is flushed often does not age.
- `CbfPacketBuffer` accepts one packet larger than its capacity when empty, a
  flush may be called before anything is due after `update`, and a fading
  counter that has expired is counted on when its packet returns before
  `drop_expired`.
- `LocationTable`: with an expiry of 0, the default, the neighbour flag of a
  station that has driven away stays as long as its entry is refreshed by
  forwarded packets. `NeighbourIsNear` and its theorem speak of finite expiries.
- `Platoon`: a station in a group goes on checking against positions that are
  no longer recorded and may declare itself a second leader; station 0 lists an
  asker again for every request, until the number is too large to be encoded;
  station 2 repeats its merge request with every repeat it hears, and each is
  answered. No property forbids these; what follows from a second leader is the
  subject of `LeaderCrashNeedsRival` and `MergeIsTraceable`.
- `Certificates`: the authority of a chain is cached before the time of the
  message is checked; `CachedIsAccepted` is about tickets.
- `Runtime`: a packet is stamped before the nested trigger that may update the
  position; `reset` calls callbacks that an earlier one of the same round has
  cancelled; the system time passed on as a steady clock may be set back.
- `FlowControl`: the interval between two packets can be undercut by a trigger
  that was scheduled for a packet dropped since; when a queue is full the drop
  hook gets the new packet instead of the dropped one; one period after its
  first message a burst allows one message more than its limit.

## Proofs

| Theorem | States |
|---|---|
| `TypeCorrect` | `Spec => []TypeOK` of `Platoon` |
| `CheckNotSkipped` | `Spec => []CheckNeverSkipped` |
| `FollowersFollow` | `Spec => []FollowersFollowLeaders` |
| `CrashNeedsRival` | `Spec => []LeaderCrashNeedsRival` |
| `MergeTraceable` | `Spec => []MergeIsTraceable` |
| `ImplementsMembership` | `Spec => MembershipSpec` |
| `RouteIsFollowed` | `Spec => []RouteFollowed` |
| `PositionsNeverGoBack` | `Spec => PositionsAdvance` |
| `MalformedNeedsZero` | `Spec => []MalformedOnlyAfterZero` |
| `AnnouncementsTrue` | `Spec => []AnnouncementsAreTrue` |
| `CheckSound`, `CheckComplete` | the two invariants of `Bearing` |
| `BooksAreRight` | `Spec => [](TypeOK /\ Accounting)` of `PacketBuffer` |
| `OnceAndInOrder` | `Spec => [](AtMostOnce /\ OldestFirst)` of `PacketBuffer` |
| `DropsNoMore` | `Spec => LeastDropped` of `PacketBuffer` |
| `BuffersSound`, `DropsLeast`, `TableOfRouter` (of `GeonetProofs`) | `GeonetSpec` implies `[]BuffersAreSound`, `LeastDropped`, and what the location table promises |
| `NeverStalls`, `PlacesHold` | `Spec => []NoStall`, `Spec => []OnePlace` of `FlowControl` |
| `OrderHolds`, `LifetimesHold` | `Spec => InOrder`, `Spec => NeverTooLate` of `FlowControl` |
| `TimersHold` | `Spec => [](TypeOK /\ OneBeacon /\ TimersKept /\ RepetitionWithinMaximum)` of `Runtime` |
| `IoTimerArmed` | `Prompt` implies `Spec => []ArmedInTime` of `Runtime` |
| `NothingStuck`, `KeptTimers`, `OrderAndTime`, `LoadsDecide`, `AcceptedIsCached`, `CheckRight`, `PageConsistent` (of `StationProofs`) | `StationSpec` implies the property of `MCStation` of that name |
| `PageConsistent` | `Spec => PageIsConsistent` of `Dashboard` |
| `NeverGrows`, `AgesCorrectly` | `Spec => LifetimeNeverGrows`, `Spec => AgesWithinRounding` of `Lifetime` |
| `NewestIsKept`, `NeighboursAreNear`, `SoundTable` | `Spec => []NewestPositionKept`, `Spec => []NeighbourIsNear`, `Spec => []TableIsSound` of `LocationTable` |
| `BooksAgree`, `FlushIsScheduled` | `Spec => []BufferIsSound`, `Spec => []FlushInTime` of `CbfPacketBuffer` |
| `ImplementsContention` | `Spec => ContentionSpec` |
| `CountedWhileContending` | `Outlasts` implies `Spec => []ContendingIsCounted`, for fading counters |
| `LoadAnswered`, `ShorterAfterQuiet`, `StepsTowards` | `Spec => []LoadIsAnswered`, `Spec => ShorterOnlyAfterQuiet`, `Spec => OneStepTowards` of `DccStates` |
| `OnlyAcceptedCached` | `Spec => []CachedIsAccepted` of `Certificates` |
| `MissedMessagesSurvived` | `Covered => (Spec => OneMissedMessage)` |

What they assume of the constants are the named assumptions of the component's
module, and nothing else but `Covered`, `Outlasts` and `Prompt` (below). Those of
`Platoon`, `Lifetime`, `LocationTable` and `Certificates` are `ASSUME`d there;
the two buffers, `Runtime`, `FlowControl`, `Dashboard` and `DccStates` are
instances in the MC modules, so theirs are hypotheses of the theorems, and the MC modules
`ASSUME` them for each instance (`StationAssumption`, `GeonetAssumption`): TLC
evaluates them.

The theorems on `Platoon` hold for every set of stations within 0..3, all
periods, speeds and routes, any pairs that are blocked, unblocked or lossy, and
any bound on the queues. Of the periods they need
`1 < CheckEvery <= SyncCheck`, which 10 and 300 satisfy.

*Types.* `TypeOK` is inductive. The lemmas on `Publish`, `Take` and `Deafen`
say which messages these leave in flight, and are used again below.

*The leader check.* `CheckNeverSkipped` is inductive together with `TypeOK`.
The argument is that `msgNum` moves by one only after the equality test has
failed, and that the network thread can only raise the period.

*Leaders and followers.* `FollowersFollowLeaders`, `LeaderCrashNeedsRival` and
`MergeIsTraceable` are not inductive: a station changes because of a message,
and nothing in them constrains messages. The invariant `Safety` adds
`MessagesTrue` (what a message in flight tells of the stations: an announcement
comes from a leader, a question from somebody who has heard another leader, a
join reply names somebody with a rival, a merge request comes from station 2 in
a group), `IntegerNeedsRival` (an integer group was copied from such a
message), `LeadersSkipCheck` and `RunsWithoutError`: a leader is never inside
`leaderCheck`, where the network thread can cause a RuntimeError or an
IndexError, so that only the integer group can end it. They survive because leaders never step down and a group is never
given back (`Stays`); so a step has to be checked only for what it sends
(`OnlySent`). Each of the four lemmas `MainMessages`, `RxMessages`,
`MainStations`, `RxStations` treats one thread and one half of the invariant.

*Refinement.* A step of `Lead` is `Elect` (or stutters), `RxSet` is `Follow`,
and the echo of an own DENM is `Claim`: `MessagesTrue` gives the leader that
`Follow` and `Claim` need.

*Positions and route.* That a recorded position never goes back is no invariant
of the stations alone: the CAMs on a link have to be in order, none behind what
the receiver has recorded and none ahead of the sender (`Route`). Publishing
appends a position at least as far as all before, taking and losing remove the
first. `RouteFollowed` also relates the position of a car to the recursive sum
`DrivenAfter` of its segments and to the part `run` of the current one.

*Lists of members.* `Lists` says of every list, at a station and in flight,
which stations it can name: those that have connected. A set or repeat DENM
ends with its sender; the set DENM of a station other than 0 names none twice. The JSON of
an own DENM is malformed only if the list starts with a zero in front of
another digit, which traces back to a leader other than 0 to whom a CAM of
station 0 was the first to arrive.

*Bearing.* For every heading `check` never takes a car for one behind that is
not, and it finds every car behind for headings below 170. The invariant
`Answered` says that the result is what `check` returned; the arithmetic lemmas
do the rest.

*Dashboard.* A picture is right about the moment it names (`Faithful`), and
`BoardInv` says so of the markers and of every answer under way. Answers stay
right because the history of the database only grows (`StaysFaithful`), and a
new one is right because no message is handled while `getLocations` runs: the
positions collected so far are those of the last moment (`Working`). That an
answer is not older than its question needs the poll to remember the moment
shown then (`Timely`), and that a station never loses its last position
(`History`).

*Lifetime.* For every byte and every set of queueing times (`Stays`, any set of
integers). The byte is split into multiplier and base (`DecodeRange`), and
rounding goes to the nearest multiple of the base `encode` chooses
(`RoundNearest`). The rest is never rounded above what there was
(`RoundNotAbove`): the old lifetime is a multiple of the base of the rest, since
each base divides the next, and the rest of a lifetime with a finer base is too
short for `encode` to choose a coarser one. The type invariant is all the
induction needs.

*Location table.* `TableInv` speaks of one entry at a time. `PositionTrue` gives
every timestamp its age in ticks: while an entry lives, the ages in it are
bounded by its lifetime and the longest delay, less than half a turn of the
clock (`LocationTableAssumption`), so the circular order is the order of ages
(`OrderedByAge`). `FlagTrue` bounds the flag by the time since the station was
heard. The duplicate list is the tail of the numbers accepted (`Window`); that
it holds each number once makes equal numbers a list apart (`Apart`).
`ForeverAssumption` says that a finite flag is shorter than `time_point::max()`.

*Contention buffer.* `BufferInv` joins four parts. `Lists`: the list, the timers
and the lifetimes are about the same packets, and the list has each once.
`Counters`: without fading, exactly the packets that contend are counted. `Flushes`: a callback
is scheduled whenever there is a timer, and while `update` may leave it where
it is, it lies no later than a timeout. `Fits`: the bytes stored are the sum
of the lengths, within the capacity or a single packet. The sum is a fold of
the community modules; that taking a packet out or adding one changes it by
its length is proved by induction on the set of packets, and how many
the head drop takes is the least number that makes room.

With fading counters `Counters` is replaced by `Lasting`: the counter of
whatever contends has at least as much life left as the timer (`Spare`), for
each call of `add` or `update` renews both. Hence `Outlasts`: the life of a
counter covers the longest timeout and a late trigger. `mib.cpp:57` makes it
four times the longest timeout.

*Packet buffer.* `StoreInv` joins `Books` (the bytes stored are the sum of the
lengths of the nodes, at most the capacity), `Matches` (every node is about a
packet that arrived with it, and nodes are in the order of arrival) and `Gone`
(what has been sent is not among the nodes). A flush is a recursion over the
nodes: a lemma on functions defined by recursion gives what it has sent and kept
after each. `push` is treated as the two things it does, dropping from the
head (`Thinned`) and then storing; that it drops no more than needed is the
least number of nodes whose bytes make room (`Needed`).

*Flow control.* The operators of `FlowControl` take the state and return the next,
as the methods of the class work on their members, one after another. So the
invariant (`Good`) is one of such a state, and each method has a lemma that says
what it needs and what it leaves: `drop_expired`, `enqueue`, `TransmitNext`,
`ScheduleNext`. `Waits` is the part `NoStall` rests on: whenever a queue
holds a packet a trigger is scheduled. `InOrder` is about both ways a packet can
be overtaken: as long as a packet is queued, nothing of its profile that came
after it, or is still to come, is transmitted or put before it (`Ahead`). So a request that
is transmitted at once must find its queue empty, and a queue is emptied from
its front. The proof says of each method that what is left of a queue is a part
of it in the old order (`Orderly`). Filters of a queue are described by which elements they keep, in which
order, and no longer by the recursion that computes them (`Queues`).

*Event loop.* A callback may trigger the runtime, which calls others before the
first is through, so the invariant (`RunInv`) speaks of what is still to be
called: each timer is either in the queue or in the frame of a `reset` that has
swapped the queue out, and in one of them only (`Split`); of the beacon timer
that is so unless a packet is being passed down, whose frame will schedule it.
Between taking a callback and the end of its action one timer is `Missing`, and
each method has a lemma that says which timer it brings back. A repetition in the
queue carries what is left of its maximum, and `Event` demands that it, and all
that is left after it, end within the request: that is inductive, the deadline
alone is not. `Threads` may be any set: the timers do not depend on the callbacks
of one thread excluding those of another between their steps (a data race within
one is what `SameThread` is about).

For the io timer, `ArmInv` says that it is set no later than the first callback, or
`trigger()` is on some stack and will set it. The one operation that changes the
queue outside of it is the beacon timer a passed packet restarts: its new deadline
is later than that of the next position update (`Soon`), which is in the queue.
So `Prompt` wants positions to be updated at least as often as beacons are sent,
1 s (`router_context.cpp`) against 3 s (`mib.cpp:31`), no resets, and that packets
always flow: a packet suppressed for want of a position fix triggers nothing, and
a repetition its request has scheduled waits for the next trigger.

*DCC state machines.* For all loads from 0 to 100, windows of any lengths (the
short one shorter) and any increasing limits of the gradual machine. `DccInv`
adds to types what each state knows of the window: the relaxed state has not
seen the short window above its limit (`RelaxedLow`), the active state is in the
substate of the greatest load of the long window (`InSubstate`), and a load that
asks for the restrictive state has not lasted longer than the short window there
(`NotForLong`). The last one is needed because the relaxed state is left only
for the active one, so such a load is answered one measurement late. The rest is
about the least and greatest load of a window: one more load drops the last one
and moves the others (`Pushed`), and the interval a load demands never decreases
with the load.

*Certificates.* `CertInv` adds to types and `CachedIsAccepted` the `Order` of
tickets on a link: the one accepted last is not newer than what is under way,
and that not newer than the sender's own. Without it a late ticket could take
the place of a newer one that stays in the cache. `MissedMessagesSurvived` needs
time as well (`TimeInv`): a CAM under way is as old as the time since its sender
sent it (`Aging`), and a ticket in use has spent no more of its life in the
cache than the CAMs missed since and the time since the last one account for
(`Recent`).
Its hypothesis `Covered` is
`(MaxMissed + 1) * CamPeriod + MaxDelay <= TicketLife` and
`MaxDelay <= MaxAge`; the two seconds a ticket is cached and CAMs every second
satisfy it for one missed CAM only without a delay. It is needed: with a delay
of half a second TLC finds a CAM whose ticket has just expired.

*Composition.* In `MCStation` and `MCGeonet` only the component moves that the
initial state names, and the others rest. So every behaviour is one of each
component's own specification, if it starts in an initial state of it and
stutters (`...Runs`), and the component's theorem applies: the properties the
runs check are proved of the specification the runs check.

*Induction.* The theorems of the library that take a predicate as a parameter
cannot be used with the installed provers. Where a proof is by induction
(`DrivenAfter`, byte sums, head drop), a lemma takes the least number for which
the claim fails, which exists since `<` is well-founded on the naturals.

Only model-checked:

- liveness (`DrivingTerminates`, `ListenerGetsAGroup`, `MutualTrust`,
  `RequestsEnd` and the rest of `eventually`): fairness and `ENABLED` are out of
  the prover's reach;
- that the relation kept by pairs implements `Membership` in `groups`
  (`PairsImplementMembership`): the same claim as `ImplementsMembership`, for
  an instance with fewer stations;
- `Router`, where the routers' tables, buffers and the frames in the air are
  related by folds and filters over all of them.

## Not modelled

- *ASN.1.* Of some 210,000 lines of C and C++ under `vanetza/`, about 170,000
  are generated: the codecs of `vanetza/asn1` by asn1c and the converters
  `tools/socktap/asn1json.*` by a script. They are tables and converters of one
  structure each, without state between calls; a model of them would repeat
  them.
- *Cryptography, certificate formats, regions*: computations of Crypto++,
  serialisation, polygon geometry.
- *LIMERIC and the smoothing of channel loads*: floating-point control laws
  whose correctness is numerical. The destructor of `limeric.cpp` cancels a
  scope its callback was not scheduled with; that is a defect of one line that
  needs no model.
- *BTP*: a table of ports that is filled at start.
- *Path history*: floating-point geometry, not used by `socktap`.
- *Access, network, positioning*: raw sockets, byte buffers, gpsd.
- *The bridges field by field*: `Platoon` and `Runtime` contain what the CAM
  and DENM applications do to the protocol and to the event loop; the
  conversion of each JSON field is left out, as are the CPM, VAM, SPATEM and
  MAPEM applications, which repeat the pattern and get nothing from the
  simulator.
- *Router*: parsing and serialisation of headers, duplicate address detection,
  the length of contention timeouts (floating point).
- *Spare stations* (`on_message6` .. `on_message8`): `main` starts four.
- *Route acquisition*: an HTTP request and geodesy; `Distances` stands for it.
- *Frontend template and other tools of Vanetza*: presentation, and command
  line tools nothing here starts.

## Plan

1. Done: `Platoon`, `Membership`, `Bearing`; their safety and refinement proved.
2. Done: `Dashboard`, and of Vanetza `Lifetime` (proved), the buffers with
   `Contention`, `LocationTable`, `Router`, `Runtime`, `FlowControl`,
   `DccStates`, `Certificates`; liveness of each.
3. Done: proofs about `Platoon` (positions, route, lists), `Dashboard`,
   `LocationTable`, `CbfPacketBuffer`, `PacketBuffer`, `Runtime`, `FlowControl`,
   `DccStates` and `Certificates`, and of the properties of the station and of
   what a router keeps, which are composed of them.
4. A proof still worth having: `FloodIsBounded`, that a router passes a packet up
   once and keeps it within its hop limit.
