---------------------------- MODULE Certificates ----------------------------
(***************************************************************************)
(* How stations come to know each other's certificates                     *)
(* (security/sign_header_policy, certificate_cache and verify_service).    *)
(* A CAM carries its signer's authorization ticket once a second and a     *)
(* digest of it otherwise.  A receiver looks a digest up in its cache and  *)
(* asks for what it misses in its own next CAM: the ticket, or the         *)
(* certificate of the authority that has signed it, which comes as chain.  *)
(*                                                                         *)
(* Signatures are valid, all authorities are signed by a root every        *)
(* station trusts, and all certificates are within their restrictions.     *)
(* All times are relative to now, in units of half a second.               *)
(***************************************************************************)
EXTENDS Integers, FiniteSets

CONSTANTS
  Stations, Authorities,
  Authority,        \* station -> the authority that signs its tickets
  CertificatePeriod,\* a ticket is due this long after the last
  TicketLife,       \* how long the cache keeps a ticket
  AuthorityLife,    \* how long the cache keeps an authority
  MaxAge,           \* generation_time_past_ca
  CamPeriod,        \* the longest time between two CAMs of a station
  MaxMissed,        \* bound on the CAMs a receiver misses in a row
  MaxDelay,         \* bound on the time a message is under way
  Others,           \* the stations that send messages other than CAMs
  Renewals          \* bound on the tickets each station gets after its first

ASSUME CertificatesAssumption ==
  /\ Authority \in [Stations -> Authorities] /\ \A a \in Authorities : a \notin Stations \X Nat
  /\ {CertificatePeriod, TicketLife, AuthorityLife, MaxAge, CamPeriod} \subseteq Nat \ {0}
  /\ MaxMissed \in Nat /\ MaxDelay \in Nat /\ Renewals \in [Stations -> Nat] /\ Others \subseteq Stations

VARIABLES
  own,              \* station -> its current ticket
  policy,           \* station -> state of DefaultSignHeaderPolicy
  cache,            \* station -> time left for each certificate
  quiet,            \* station -> time since its last CAM
  air,              \* sender, receiver -> the message under way, if any
  missed,           \* sender, receiver -> CAMs lost in a row
  known,            \* history: sender, receiver -> the ticket accepted last, if any
  last              \* history: sender, receiver -> report on the last message

vars == <<own, policy, cache, quiet, air, missed, known, last>>

Tickets == UNION {{s} \X (0..Renewals[s]) : s \in Stations}
Ids == Tickets \cup Authorities
Links == {l \in Stations \X Stations : l[1] # l[2]}
Issuer(ticket) == Authority[ticket[1]]

-----------------------------------------------------------------------------
(***************************************************************************)
(* CertificateCache.  A certificate that has expired is as good as absent, *)
(* as every operation drops it first.                                      *)
(***************************************************************************)
Absent == -1
Lifetime(id) == IF id \in Tickets THEN TicketLife ELSE AuthorityLife

LookupOnly(c, id) == [found |-> c[id] # Absent, cache |-> c]    \* seeded fault
lookup(c, id) ==
  [found |-> c[id] # Absent, cache |-> IF c[id] # Absent THEN [c EXCEPT ![id] = Lifetime(id)] ELSE c]
insert(c, id) == [c EXCEPT ![id] = Lifetime(id)]

-----------------------------------------------------------------------------
(***************************************************************************)
(* DefaultSignHeaderPolicy.                                                *)
(***************************************************************************)
NoRequests == [next |-> 0, unknown |-> {}, cert |-> FALSE, chain |-> FALSE]

Kind(p) == IF p.chain THEN "chain" ELSE IF p.next > 0 /\ ~p.cert THEN "digest" ELSE "certificate"
Cam(s) == [cam |-> TRUE, kind |-> Kind(policy[s]), ticket |-> own[s], requests |-> policy[s].unknown, age |-> 0]
Other(s) == [cam |-> FALSE, kind |-> "certificate", ticket |-> own[s], requests |-> {}, age |-> 0]

PreparedKept(p) == [p EXCEPT !.next = IF Kind(p) = "digest" THEN p.next ELSE CertificatePeriod]   \* seeded fault
Prepared(p) == [NoRequests EXCEPT !.next = IF Kind(p) = "digest" THEN p.next ELSE CertificatePeriod]

request_unrecognized_certificate(p, id) == [p EXCEPT !.unknown = @ \cup {id}]

-----------------------------------------------------------------------------
(***************************************************************************)
(* straight_verify_service of station r for the message m: its cache and   *)
(* policy afterwards and the report.                                       *)
(***************************************************************************)
Requested(p, r, m) == [p EXCEPT !.cert = @ \/ own[r] \in m.requests, !.chain = @ \/ Authority[r] \in m.requests]

\* The certificate the signature is checked with: the one in the message or in
\* the cache.  A chain brings its authority into the cache.
Signer(c, p, m) ==
  LET hit == lookup(c, m.ticket) IN
  CASE m.kind = "certificate" ->
         [found |-> TRUE, cache |-> IF m.cam THEN hit.cache ELSE c,
          policy |-> [p EXCEPT !.cert = @ \/ (m.cam /\ ~hit.found)]]
    [] m.kind = "digest" -> [found |-> hit.found, cache |-> hit.cache, policy |-> p]
    [] m.kind = "chain"  -> [found |-> TRUE, cache |-> insert(c, Issuer(m.ticket)), policy |-> p]

check_certificate(c, ticket) == lookup(c, Issuer(ticket))

IssuerUnasked(c, p, m) ==                                    \* seeded fault
  LET hit == check_certificate(c, m.ticket) IN
  IF m.kind = "digest" THEN [report |-> "success", cache |-> insert(c, m.ticket), policy |-> p]
  ELSE IF hit.found THEN [report |-> "success", cache |-> insert(hit.cache, m.ticket), policy |-> p]
  ELSE [report |-> "invalid certificate", cache |-> hit.cache, policy |-> p]
CachedFirst(c, p, m) ==                                      \* seeded fault
  LET hit == check_certificate(c, m.ticket) IN
  IF m.kind = "digest" \/ hit.found THEN [report |-> "success", cache |-> insert(hit.cache, m.ticket), policy |-> p]
  ELSE [report |-> "invalid certificate", cache |-> insert(hit.cache, m.ticket),
        policy |-> request_unrecognized_certificate(p, Issuer(m.ticket))]
\* A certificate from the cache was checked before.
Checked(c, p, m) ==
  LET hit == check_certificate(c, m.ticket) IN
  IF m.kind = "digest" THEN [report |-> "success", cache |-> insert(c, m.ticket), policy |-> p]
  ELSE IF hit.found THEN [report |-> "success", cache |-> insert(hit.cache, m.ticket), policy |-> p]
  ELSE [report |-> "invalid certificate", cache |-> hit.cache,
        policy |-> request_unrecognized_certificate(p, Issuer(m.ticket))]

verify(r, m) ==
  LET s == Signer(cache[r], Requested(policy[r], r, m), m) IN
  IF ~s.found THEN [report |-> "signer not found", cache |-> s.cache,
                    policy |-> request_unrecognized_certificate(s.policy, m.ticket)]
  ELSE IF m.cam /\ m.age > MaxAge THEN [report |-> "invalid timestamp", cache |-> s.cache, policy |-> s.policy]
  ELSE Checked(s.cache, s.policy, m)

-----------------------------------------------------------------------------
Init ==
  /\ own = [s \in Stations |-> <<s, 0>>]
  /\ policy = [s \in Stations |-> NoRequests]
  /\ cache = [s \in Stations |-> [id \in Ids |-> IF id = Authority[s] THEN AuthorityLife ELSE Absent]]
  /\ quiet = [s \in Stations |-> 0]
  /\ air = [l \in Links |-> {}] /\ missed = [l \in Links |-> 0]
  /\ known = [l \in Links |-> {}] /\ last = [l \in Links |-> "none"]

\* A broadcast reaches those the last message has reached already.
Sent(s, m) == [l \in Links |-> IF l[1] = s THEN {m} ELSE air[l]]
AirIsFree(s) == \A l \in Links : l[1] = s => air[l] = {}

SendCam(s) ==
  /\ AirIsFree(s) /\ quiet[s] > 0
  /\ air' = Sent(s, Cam(s)) /\ policy' = [policy EXCEPT ![s] = Prepared(@)]
  /\ quiet' = [quiet EXCEPT ![s] = 0]
  /\ UNCHANGED <<own, cache, missed, known, last>>

\* A message that is no CAM always has the ticket and leaves the requests alone.
SendOther(s) ==
  /\ s \in Others /\ AirIsFree(s) /\ air' = Sent(s, Other(s))
  /\ UNCHANGED <<own, policy, cache, quiet, missed, known, last>>

\* own_certificate() renews a ticket that ends within the hour.
Renew(s) ==
  /\ own[s][2] < Renewals[s] /\ own' = [own EXCEPT ![s] = <<s, own[s][2] + 1>>]
  /\ UNCHANGED <<policy, cache, quiet, air, missed, known, last>>

Deliver(l) ==
  \E m \in air[l] :
    LET r == l[2] v == verify(r, m) IN
    /\ air' = [air EXCEPT ![l] = {}] /\ missed' = [missed EXCEPT ![l] = IF m.cam THEN 0 ELSE @]
    /\ cache' = [cache EXCEPT ![r] = v.cache] /\ policy' = [policy EXCEPT ![r] = v.policy]
    /\ last' = [last EXCEPT ![l] = v.report]
    /\ known' = [known EXCEPT ![l] = IF v.report = "success" THEN {m.ticket} ELSE @]
    /\ UNCHANGED <<own, quiet>>

Lose(l) ==
  \E m \in air[l] :
    /\ m.cam => missed[l] < MaxMissed
    /\ missed' = [missed EXCEPT ![l] = IF m.cam THEN @ + 1 ELSE @]
    /\ air' = [air EXCEPT ![l] = {}]
    /\ UNCHANGED <<own, policy, cache, quiet, known, last>>

Less(t) == IF t > 0 THEN t - 1 ELSE 0
Tick ==
  /\ \A s \in Stations : quiet[s] < CamPeriod
  /\ \A l \in Links : \A m \in air[l] : m.age < MaxDelay
  /\ quiet' = [s \in Stations |-> quiet[s] + 1]
  /\ policy' = [s \in Stations |-> [policy[s] EXCEPT !.next = Less(@)]]
  /\ cache' = [s \in Stations |-> [id \in Ids |-> IF cache[s][id] = Absent THEN Absent ELSE cache[s][id] - 1]]
  /\ air' = [l \in Links |-> {[m EXCEPT !.age = @ + 1] : m \in air[l]}]
  /\ UNCHANGED <<own, missed, known, last>>

Next ==
  \/ \E s \in Stations : SendCam(s) \/ SendOther(s) \/ Renew(s)
  \/ \E l \in Links : Deliver(l) \/ Lose(l)
  \/ Tick

Spec == Init /\ [][Next]_vars

\* Stations go on sending CAMs, time goes on, and a link that carries some kind
\* of message again and again delivers it again and again.
DeliverKind(l, kind) == (\E m \in air[l] : m.cam /\ m.kind = kind) /\ Deliver(l)
DeliverRequest(l) == (\E m \in air[l] : Authority[l[2]] \in m.requests) /\ Deliver(l)
FairSpec ==
  /\ Spec /\ WF_vars(Tick) /\ \A s \in Stations : WF_vars(SendCam(s))
  /\ \A l \in Links : WF_vars(Deliver(l) \/ Lose(l)) /\ SF_vars(DeliverRequest(l))
  /\ \A l \in Links : SF_vars(DeliverKind(l, "certificate")) /\ SF_vars(DeliverKind(l, "chain"))

-----------------------------------------------------------------------------
Reports == {"none", "success", "signer not found", "invalid timestamp", "invalid certificate"}
TypeOK ==
  /\ \A s \in Stations : /\ own[s] \in Tickets /\ own[s][1] = s /\ quiet[s] \in 0..CamPeriod
                         /\ policy[s].next \in 0..CertificatePeriod /\ policy[s].unknown \subseteq Ids
                         /\ \A id \in Ids : cache[s][id] \in Absent..Lifetime(id)
  /\ \A l \in Links : missed[l] \in 0..MaxMissed /\ last[l] \in Reports /\ Cardinality(air[l]) <= 1

(***************************************************************************)
(* "Puts a (validated) certificate into the cache": a station has a ticket *)
(* in its cache only if it has accepted a message signed with it, so that  *)
(* nobody is taken for checked because of a digest or a chain alone.       *)
(***************************************************************************)
CachedIsAccepted ==
  \A l \in Links : \A n \in 0..Renewals[l[1]] :
    cache[l[2]][<<l[1], n>>] # Absent => \E t \in known[l] : t[2] >= n

(***************************************************************************)
(* "there must be a CAM with the authorization ticket every one second, we *)
(* choose two seconds here to account for one missed message": a receiver  *)
(* that has accepted a ticket finds it for every further CAM, although it  *)
(* misses up to one CAM in a row and CAMs may have a digest only.          *)
(***************************************************************************)
FindsTicket(l) ==
  Deliver(l) /\ (\E m \in air[l] : m.cam /\ m.ticket \in known[l]) => last'[l] # "signer not found"
OneMissedMessage == [][\A l \in Links : FindsTicket(l)]_vars

(***************************************************************************)
(* Stations that hear each other come to trust each other, whoever has     *)
(* signed their tickets: each accepts messages of the other again and      *)
(* again, after every renewal and every loss.                              *)
(***************************************************************************)
MutualTrust == \A l \in Links : []<>(last[l] = "success" /\ known[l] = {own[l[1]]})

(***************************************************************************)
(* When nothing is lost the requests come to an end: stations that know    *)
(* each other ask for nothing, although tickets and authorities in their   *)
(* caches would expire within seconds.                                     *)
(***************************************************************************)
Settles == <>[](\A s \in Stations : policy[s].unknown = {} /\ ~policy[s].cert /\ ~policy[s].chain)
=============================================================================
