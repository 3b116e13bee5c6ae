------------------------- MODULE CertificatesProofs -------------------------
(***************************************************************************)
(* The exchange of certificates for every set of stations and authorities, *)
(* all lives and periods, every number of losses in a row, every delay and *)
(* every number of renewals.                                               *)
(***************************************************************************)
EXTENDS Certificates, FiniteSetTheorems, TLAPS

\* Messages, policies and caches.
Kinds == {"digest", "certificate", "chain"}
Messages == [cam : BOOLEAN, kind : Kinds, ticket : Tickets, requests : SUBSET Ids, age : 0..MaxDelay]
Policies == [next : 0..CertificatePeriod, unknown : SUBSET Ids, cert : BOOLEAN, chain : BOOLEAN]
Caches == {c \in [Ids -> Int] : \A id \in Ids : c[id] \in Absent..Lifetime(id)}

Types ==
  /\ own \in [Stations -> Tickets] /\ \A s \in Stations : own[s][1] = s
  /\ policy \in [Stations -> Policies] /\ cache \in [Stations -> Caches]
  /\ quiet \in [Stations -> 0..CamPeriod]
  /\ air \in [Links -> SUBSET Messages]
  /\ missed \in [Links -> 0..MaxMissed]
  /\ known \in [Links -> SUBSET Tickets] /\ last \in [Links -> Reports]

(***************************************************************************)
(* Tickets are pairs of a station and a number; none is an authority.      *)
(***************************************************************************)
LEMMA TicketIs ==
  ASSUME NEW t
  PROVE  /\ t \in Tickets <=> /\ t \in Stations \X Nat /\ t[2] \in 0..Renewals[t[1]]
         /\ t \in Tickets => t \notin Authorities /\ Lifetime(t) = TicketLife /\ Issuer(t) \in Authorities /\ t \in Ids
<1>1. ASSUME t \in Tickets PROVE t \in Stations \X Nat /\ t[2] \in 0..Renewals[t[1]]
  <2>1. PICK s \in Stations : t \in {s} \X (0..Renewals[s])
    BY <1>1 DEF Tickets
  <2>2. Renewals[s] \in Nat
    BY CertificatesAssumption
  <2> QED
    BY <2>1, <2>2
<1>2. ASSUME t \in Stations \X Nat, t[2] \in 0..Renewals[t[1]] PROVE t \in Tickets
  <2>1. t \in {t[1]} \X (0..Renewals[t[1]]) /\ t[1] \in Stations
    BY <1>2
  <2> QED
    BY <2>1 DEF Tickets
<1>3. ASSUME t \in Tickets PROVE t \notin Authorities /\ Lifetime(t) = TicketLife /\ Issuer(t) \in Authorities /\ t \in Ids
  BY <1>1, <1>3, CertificatesAssumption DEF Lifetime, Issuer, Ids
<1> QED
  BY <1>1, <1>2, <1>3

(***************************************************************************)
(* Authorities are no tickets and live as long as AuthorityLife.           *)
(***************************************************************************)
LEMMA AuthorityIs ==
  ASSUME NEW a \in Authorities
  PROVE  a \notin Tickets /\ a \in Ids /\ Lifetime(a) = AuthorityLife
BY TicketIs DEF Ids, Lifetime

(***************************************************************************)
(* CertificateCache::lookup extends the life of what it finds and changes  *)
(* nothing otherwise.                                                      *)
(***************************************************************************)
LEMMA Looking ==
  ASSUME NEW c, NEW id
  PROVE  /\ c[id] # Absent => lookup(c, id) = [found |-> TRUE, cache |-> insert(c, id)]
         /\ c[id] = Absent => lookup(c, id) = [found |-> FALSE, cache |-> c]
<1>1. CASE c[id] # Absent
  <2>1. (c[id] # Absent) = TRUE
    BY <1>1
  <2> QED
    BY <1>1, <2>1 DEF lookup, insert
<1>2. CASE c[id] = Absent
  <2>1. (c[id] # Absent) = FALSE
    BY <1>2
  <2> QED
    BY <1>2, <2>1 DEF lookup
<1> QED
  BY <1>1, <1>2

(***************************************************************************)
(* A life is a number of ticks, and none is the mark of what is absent.    *)
(***************************************************************************)
LEMMA Lifetimes ==
  ASSUME NEW id \in Ids
  PROVE  Lifetime(id) \in Nat /\ Absent < Lifetime(id) /\ Absent \in Int
BY CertificatesAssumption DEF Lifetime, Absent

(***************************************************************************)
(* CertificateCache::insert, and a lookup that finds, give one certificate *)
(* its full life and leave the others alone: no life gets shorter.         *)
(***************************************************************************)
LEMMA Refreshing ==
  ASSUME NEW c \in Caches, NEW id \in Ids
  PROVE  /\ insert(c, id) \in Caches
         /\ insert(c, id)[id] = Lifetime(id) /\ insert(c, id)[id] # Absent
         /\ \A i \in Ids : insert(c, id)[i] >= c[i] /\ (i # id => insert(c, id)[i] = c[i])
<1> DEFINE d == insert(c, id)
<1>0. d = [c EXCEPT ![id] = Lifetime(id)]
  BY DEF insert
<1> HIDE DEF d
<1>1. Lifetime(id) \in Nat /\ Absent < Lifetime(id) /\ Absent \in Int
  BY Lifetimes
<1>2. c \in [Ids -> Int] /\ \A i \in Ids : c[i] \in Absent..Lifetime(i)
  BY DEF Caches
<1>3. d \in [Ids -> Int] /\ d[id] = Lifetime(id) /\ \A i \in Ids : i # id => d[i] = c[i]
  BY <1>0, <1>1, <1>2
<1>4. \A i \in Ids : d[i] \in Absent..Lifetime(i)
  BY <1>1, <1>2, <1>3
<1>5. d \in Caches
  BY <1>3, <1>4 DEF Caches
<1>6. \A i \in Ids : d[i] >= c[i]
  BY <1>1, <1>2, <1>3
<1> QED
  BY <1>1, <1>3, <1>5, <1>6 DEF d

(***************************************************************************)
(* The policy keeps its type whatever is requested of it.                  *)
(***************************************************************************)
LEMMA PolicyIs ==
  ASSUME NEW p \in Policies, NEW b \in BOOLEAN, NEW d \in BOOLEAN, NEW id \in Ids
  PROVE  /\ [p EXCEPT !.cert = @ \/ b] \in Policies
         /\ [p EXCEPT !.cert = @ \/ b, !.chain = @ \/ d] \in Policies
         /\ request_unrecognized_certificate(p, id) \in Policies
<1>1. p.cert \in BOOLEAN /\ p.chain \in BOOLEAN /\ p.unknown \in SUBSET Ids
  BY DEF Policies
<1>2. (p.cert \/ b) \in BOOLEAN /\ (p.chain \/ d) \in BOOLEAN /\ p.unknown \cup {id} \in SUBSET Ids
  BY <1>1
<1>3. \A x, y \in BOOLEAN : [p EXCEPT !.cert = x] \in Policies /\ [p EXCEPT !.cert = x, !.chain = y] \in Policies
  BY DEF Policies
<1>4. \A u \in SUBSET Ids : [p EXCEPT !.unknown = u] \in Policies
  BY DEF Policies
<1>5. [p EXCEPT !.cert = p.cert \/ b] \in Policies /\ [p EXCEPT !.cert = p.cert \/ b, !.chain = p.chain \/ d] \in Policies
  BY <1>2, <1>3, Zenon
<1>6. [p EXCEPT !.unknown = p.unknown \cup {id}] \in Policies
  BY <1>2, <1>4, Zenon
<1> QED
  BY <1>5, <1>6, Zenon DEF request_unrecognized_certificate

(***************************************************************************)
(* verify_service up to the signature: the cache only gets longer lives or *)
(* an authority, a signer is missing only for a digest of a ticket that is *)
(* not cached, and a CAM with its ticket or digest refreshes a ticket that *)
(* is.                                                                     *)
(***************************************************************************)
LEMMA SignerIs ==
  ASSUME NEW c \in Caches, NEW p \in Policies, NEW m \in Messages, NEW s, s = Signer(c, p, m)
  PROVE  /\ s.cache \in Caches /\ s.policy \in Policies /\ s.found \in BOOLEAN
         /\ \A i \in Ids : s.cache[i] >= c[i]
         /\ \A i \in Ids : s.cache[i] # c[i] => c[i] # Absent \/ i \in Authorities
         /\ ~s.found => m.kind = "digest" /\ c[m.ticket] = Absent
         /\ m.cam /\ m.kind # "chain" /\ c[m.ticket] # Absent => s.cache[m.ticket] = TicketLife
         /\ m.kind = "chain" => s.cache[Issuer(m.ticket)] # Absent
<1> DEFINE t == m.ticket
           a == Issuer(t)
<1>1. m.kind \in Kinds /\ t \in Tickets /\ m.cam \in BOOLEAN
  BY DEF Messages
<1>2. t \in Ids /\ Lifetime(t) = TicketLife /\ a \in Authorities
  BY <1>1, TicketIs
<1>3. a \in Ids
  BY <1>2 DEF Ids
<1>c. \A i \in Ids : c[i] >= c[i]
  BY DEF Caches
<1> HIDE DEF t, a
<1>4. CASE m.kind = "certificate"
  <2>1. s = [found |-> TRUE, cache |-> IF m.cam THEN lookup(c, t).cache ELSE c,
             policy |-> [p EXCEPT !.cert = @ \/ (m.cam /\ ~lookup(c, t).found)]]
    BY <1>4 DEF Signer, t
  <2>2. s.found = TRUE /\ s.cache = (IF m.cam THEN lookup(c, t).cache ELSE c)
        /\ s.policy = [p EXCEPT !.cert = @ \/ (m.cam /\ ~lookup(c, t).found)]
    BY <2>1
  <2>3. s.policy \in Policies
    <3>1. (m.cam /\ ~lookup(c, t).found) \in BOOLEAN
      OBVIOUS
    <3> QED
      BY <2>2, <3>1, <1>2, PolicyIs, Zenon
  <2>4. CASE m.cam /\ c[t] # Absent
    <3>1. s.cache = insert(c, t)
      BY <2>2, <2>4, Looking
    <3>2. s.cache \in Caches /\ (\A i \in Ids : s.cache[i] >= c[i]) /\ s.cache[t] = TicketLife
          /\ \A i \in Ids : s.cache[i] # c[i] => c[i] # Absent \/ i \in Authorities
      BY <1>2, <2>4, <3>1, Refreshing
    <3> QED
      BY <1>4, <2>2, <2>3, <3>2, Zenon DEF t
  <2>5. CASE ~(m.cam /\ c[t] # Absent)
    <3>1. s.cache = c
      BY <2>2, <2>5, Looking
    <3> QED
      BY <1>4, <1>c, <2>2, <2>3, <2>5, <3>1 DEF t
  <2> QED
    BY <2>4, <2>5
<1>5. CASE m.kind = "digest"
  <2>1. s = [found |-> lookup(c, t).found, cache |-> lookup(c, t).cache, policy |-> p]
    BY <1>5 DEF Signer, t
  <2>2. s.found = lookup(c, t).found /\ s.cache = lookup(c, t).cache /\ s.policy = p
    BY <2>1
  <2>4. CASE c[t] # Absent
    <3>1. s.cache = insert(c, t) /\ s.found = TRUE
      BY <2>2, <2>4, Looking
    <3>2. s.cache \in Caches /\ (\A i \in Ids : s.cache[i] >= c[i]) /\ s.cache[t] = TicketLife
          /\ \A i \in Ids : s.cache[i] # c[i] => c[i] # Absent \/ i \in Authorities
      BY <1>2, <2>4, <3>1, Refreshing
    <3> QED
      BY <1>5, <2>2, <3>1, <3>2, Zenon DEF t
  <2>5. CASE c[t] = Absent
    <3>1. s.cache = c /\ s.found = FALSE
      BY <2>2, <2>5, Looking
    <3> QED
      BY <1>5, <1>c, <2>2, <2>5, <3>1 DEF t
  <2> QED
    BY <2>4, <2>5
<1>6. CASE m.kind = "chain"
  <2>1. s = [found |-> TRUE, cache |-> insert(c, a), policy |-> p]
    BY <1>6 DEF Signer, t, a
  <2>2. s.found = TRUE /\ s.cache = insert(c, a) /\ s.policy = p
    BY <2>1
  <2>3. s.cache \in Caches /\ (\A i \in Ids : s.cache[i] >= c[i]) /\ s.cache[a] # Absent
        /\ \A i \in Ids : s.cache[i] # c[i] => c[i] # Absent \/ i \in Authorities
    BY <1>2, <1>3, <2>2, Refreshing
  <2> QED
    BY <1>6, <2>2, <2>3, Zenon DEF t, a
<1> QED
  BY <1>1, <1>4, <1>5, <1>6 DEF Kinds

(***************************************************************************)
(* verify_service from check_certificate on: the ticket of the message is  *)
(* the only thing inserted, and it is exactly if the report is success,    *)
(* which a chain with its issuer in the cache always gets.                 *)
(***************************************************************************)
LEMMA CheckedIs ==
  ASSUME NEW c \in Caches, NEW p \in Policies, NEW m \in Messages, NEW v, v = Checked(c, p, m)
  PROVE  /\ v.cache \in Caches /\ v.policy \in Policies /\ v.report \in {"success", "invalid certificate"}
         /\ \A i \in Ids : v.cache[i] >= c[i]
         /\ \A i \in Ids : v.cache[i] # c[i] => c[i] # Absent \/ (i = m.ticket /\ v.report = "success")
         /\ v.report = "success" => v.cache[m.ticket] = TicketLife
         /\ c[m.ticket] = TicketLife => v.cache[m.ticket] = TicketLife
         /\ m.kind = "chain" /\ c[Issuer(m.ticket)] # Absent => v.report = "success"
<1> DEFINE t == m.ticket
           a == Issuer(t)
           d == lookup(c, a).cache
<1>1. t \in Tickets
  BY DEF Messages
<1>2. t \in Ids /\ Lifetime(t) = TicketLife /\ a \in Authorities /\ t \notin Authorities
  BY <1>1, TicketIs
<1>3. a \in Ids /\ a # t
  BY <1>2 DEF Ids
<1>4. \A i \in Ids : c[i] >= c[i]
  BY DEF Caches
<1> HIDE DEF t, a
<1>5. CASE m.kind = "digest"
  <2>1. v = [report |-> "success", cache |-> insert(c, t), policy |-> p]
    BY <1>5 DEF Checked, t
  <2>2. v.report = "success" /\ v.cache = insert(c, t) /\ v.policy = p
    BY <2>1
  <2> QED
    BY <1>2, <1>5, <2>2, Refreshing DEF t, a
<1>6. CASE m.kind # "digest" /\ c[a] # Absent
  <2>1. lookup(c, a) = [found |-> TRUE, cache |-> insert(c, a)]
    BY <1>6, Looking
  <2>2. d = insert(c, a) /\ lookup(c, a).found = TRUE
    BY <2>1
  <2> HIDE DEF d
  <2>3. d \in Caches /\ \A i \in Ids : d[i] >= c[i] /\ (i # a => d[i] = c[i])
    BY <1>3, <2>2, Refreshing
  <2>4. v = [report |-> "success", cache |-> insert(d, t), policy |-> p]
    BY <1>6, <2>2 DEF Checked, check_certificate, t, a, d
  <2>5. v.report = "success" /\ v.cache = insert(d, t) /\ v.policy = p
    BY <2>4
  <2>6. v.cache \in Caches /\ v.cache[t] = TicketLife /\ \A i \in Ids : v.cache[i] >= d[i] /\ (i # t => v.cache[i] = d[i])
    BY <1>2, <2>3, <2>5, Refreshing
  <2>7. \A i \in Ids : v.cache[i] \in Int /\ d[i] \in Int /\ c[i] \in Int
    BY <2>3, <2>6 DEF Caches
  <2>8. \A i \in Ids : v.cache[i] >= c[i]
    BY <2>3, <2>6, <2>7
  <2>9. \A i \in Ids : v.cache[i] # c[i] => c[i] # Absent \/ i = t
    BY <1>6, <2>3, <2>6
  <2> QED
    BY <2>5, <2>6, <2>8, <2>9 DEF t
<1>7. CASE m.kind # "digest" /\ c[a] = Absent
  <2>1. lookup(c, a) = [found |-> FALSE, cache |-> c]
    BY <1>7, Looking
  <2>2. lookup(c, a).found = FALSE /\ lookup(c, a).cache = c
    BY <2>1
  <2>3. request_unrecognized_certificate(p, a) \in Policies
    BY <1>3, PolicyIs, Zenon
  <2>4. /\ v.report = "invalid certificate" /\ v.cache = c
        /\ v.policy = request_unrecognized_certificate(p, a)
    BY <1>7, <2>2 DEF Checked, check_certificate, t, a
  <2> QED
    BY <1>4, <1>7, <2>3, <2>4 DEF t, a
<1> QED
  BY <1>5, <1>6, <1>7

(***************************************************************************)
(* All of verify_service: no life gets shorter, only authorities and the   *)
(* ticket of an accepted message enter the cache, and a CAM that is not    *)
(* too old refreshes its ticket whichever way it carries it, accepted or   *)
(* not.                                                                    *)
(***************************************************************************)
LEMMA VerifyIs ==
  ASSUME Types, NEW r \in Stations, NEW m \in Messages
  PROVE  /\ verify(r, m).cache \in Caches /\ verify(r, m).policy \in Policies /\ verify(r, m).report \in Reports
         /\ \A i \in Ids : verify(r, m).cache[i] >= cache[r][i]
         /\ \A i \in Ids : verify(r, m).cache[i] # cache[r][i] =>
              cache[r][i] # Absent \/ i \in Authorities \/ (i = m.ticket /\ verify(r, m).report = "success")
         /\ verify(r, m).report = "success" => verify(r, m).cache[m.ticket] = TicketLife
         /\ verify(r, m).report = "signer not found" => cache[r][m.ticket] = Absent
         /\ m.cam /\ m.age <= MaxAge /\ cache[r][m.ticket] # Absent => verify(r, m).cache[m.ticket] = TicketLife
<1> DEFINE v == verify(r, m)
           c == cache[r]
           p == Requested(policy[r], r, m)
           s == Signer(c, p, m)
           w == Checked(s.cache, s.policy, m)
<1>1. c \in Caches /\ policy[r] \in Policies /\ m.ticket \in Tickets
  BY DEF Types, Messages
<1>2. m.ticket \in Ids /\ Issuer(m.ticket) \in Ids /\ Issuer(m.ticket) \in Authorities
  BY <1>1, TicketIs DEF Ids
<1>3. p \in Policies
  BY <1>1, <1>2, PolicyIs, Zenon DEF Requested
<1> HIDE DEF p
<1>4. /\ s.cache \in Caches /\ s.policy \in Policies /\ s.found \in BOOLEAN
      /\ \A i \in Ids : s.cache[i] >= c[i]
      /\ \A i \in Ids : s.cache[i] # c[i] => c[i] # Absent \/ i \in Authorities
      /\ ~s.found => m.kind = "digest" /\ c[m.ticket] = Absent
      /\ m.cam /\ m.kind # "chain" /\ c[m.ticket] # Absent => s.cache[m.ticket] = TicketLife
      /\ m.kind = "chain" => s.cache[Issuer(m.ticket)] # Absent
  BY <1>1, <1>3, SignerIs, Zenon
<1>5. ASSUME ~s.found
      PROVE  v.report = "signer not found" /\ v.cache = s.cache
             /\ v.policy = request_unrecognized_certificate(s.policy, m.ticket)
  BY <1>5 DEF verify, p
<1>a. ASSUME s.found, m.cam, m.age > MaxAge
      PROVE  v.report = "invalid timestamp" /\ v.cache = s.cache /\ v.policy = s.policy
  BY <1>a DEF verify, p
<1>b. ASSUME s.found, ~(m.cam /\ m.age > MaxAge)
      PROVE  v = w
  BY <1>b DEF verify, p
<1> HIDE DEF s, v
<1>6. /\ w.cache \in Caches /\ w.policy \in Policies /\ w.report \in {"success", "invalid certificate"}
      /\ \A i \in Ids : w.cache[i] >= s.cache[i]
      /\ \A i \in Ids : w.cache[i] # s.cache[i] =>
           s.cache[i] # Absent \/ (i = m.ticket /\ w.report = "success")
      /\ w.report = "success" => w.cache[m.ticket] = TicketLife
      /\ s.cache[m.ticket] = TicketLife => w.cache[m.ticket] = TicketLife
      /\ m.kind = "chain" /\ s.cache[Issuer(m.ticket)] # Absent => w.report = "success"
  BY <1>4, CheckedIs, Zenon
<1> HIDE DEF w
<1>7. \A i \in Ids : c[i] \in Int /\ s.cache[i] \in Int /\ w.cache[i] \in Int
  BY <1>1, <1>4, <1>6 DEF Caches
<1>8. CASE ~s.found
  <2>1. v.report = "signer not found" /\ v.cache = s.cache
        /\ v.policy = request_unrecognized_certificate(s.policy, m.ticket)
    BY <1>5, <1>8
  <2>2. v.policy \in Policies
    BY <1>2, <1>4, <2>1, PolicyIs, Zenon
  <2>3. v.report \in Reports /\ v.report # "success"
    BY <2>1 DEF Reports
  <2> QED
    BY <1>4, <1>8, <2>1, <2>2, <2>3, Zenon DEF v, c
<1>9. CASE s.found /\ m.cam /\ m.age > MaxAge
  <2>1. v.report = "invalid timestamp" /\ v.cache = s.cache /\ v.policy = s.policy
    BY <1>a, <1>9
  <2>2. v.report \in Reports /\ v.report # "success" /\ v.report # "signer not found"
    BY <2>1 DEF Reports
  <2>3. ~(m.age <= MaxAge)
    <3>1. m.age \in Int /\ MaxAge \in Int
      BY CertificatesAssumption DEF Messages
    <3> QED
      BY <1>9, <3>1
  <2> QED
    BY <1>4, <2>1, <2>2, <2>3, Zenon DEF v, c
<1>10. CASE s.found /\ ~(m.cam /\ m.age > MaxAge)
  <2>1. v = w
    BY <1>b, <1>10
  <2>2. v.report \in Reports /\ v.report # "signer not found"
    BY <1>6, <2>1 DEF Reports
  <2>3. \A i \in Ids : v.cache[i] >= c[i]
    <3> SUFFICES ASSUME NEW i \in Ids
                 PROVE  v.cache[i] >= c[i]
      OBVIOUS
    <3>1. v.cache[i] >= s.cache[i] /\ s.cache[i] >= c[i]
      BY <1>4, <1>6, <2>1
    <3>2. v.cache[i] \in Int /\ s.cache[i] \in Int /\ c[i] \in Int
      BY <1>7, <2>1
    <3> QED
      BY <3>1, <3>2
  <2>4. \A i \in Ids : v.cache[i] # c[i] =>
           c[i] # Absent \/ i \in Authorities \/ (i = m.ticket /\ v.report = "success")
    BY <1>4, <1>6, <2>1
  <2>5. m.cam /\ c[m.ticket] # Absent => v.cache[m.ticket] = TicketLife
    BY <1>4, <1>6, <2>1, Zenon
  <2> QED
    BY <1>6, <2>1, <2>2, <2>3, <2>4, <2>5, Zenon DEF v, c
<1> QED
  BY <1>4, <1>8, <1>9, <1>10, Zenon

-----------------------------------------------------------------------------
(***************************************************************************)
(* Both ends of a link are stations, and different ones.                   *)
(***************************************************************************)
LEMMA LinkIs == ASSUME NEW l \in Links PROVE l[1] \in Stations /\ l[2] \in Stations /\ l[1] # l[2]
BY DEF Links

(***************************************************************************)
(* prepare_header leaves a policy in its type.                             *)
(***************************************************************************)
LEMMA Preparing == ASSUME NEW p \in Policies PROVE Prepared(p) \in Policies
<1>1. p.next \in 0..CertificatePeriod /\ CertificatePeriod \in 0..CertificatePeriod
  BY CertificatesAssumption DEF Policies
<1>2. NoRequests \in Policies
  BY CertificatesAssumption DEF NoRequests, Policies
<1>3. \A n \in 0..CertificatePeriod : [NoRequests EXCEPT !.next = n] \in Policies
  BY <1>2 DEF Policies
<1> QED
  BY <1>1, <1>3, Zenon DEF Prepared

(***************************************************************************)
(* A CAM carries the current ticket of its sender.                         *)
(***************************************************************************)
LEMMA CamIs ==
  ASSUME Types, NEW s \in Stations, NEW m, m = Cam(s)
  PROVE  m \in Messages /\ m.cam = TRUE /\ m.ticket = own[s] /\ m.age = 0
<1>1. policy[s] \in Policies /\ own[s] \in Tickets /\ 0 \in 0..MaxDelay
  BY CertificatesAssumption DEF Types
<1>2. policy[s].unknown \in SUBSET Ids
  BY <1>1 DEF Policies
<1>3. Kind(policy[s]) \in Kinds
  BY DEF Kind, Kinds
<1> QED
  BY <1>1, <1>2, <1>3 DEF Cam, Messages

(***************************************************************************)
(* Every other message does so, too.                                       *)
(***************************************************************************)
LEMMA OtherIs ==
  ASSUME Types, NEW s \in Stations, NEW m, m = Other(s)
  PROVE  m \in Messages /\ m.cam = FALSE /\ m.ticket = own[s] /\ m.age = 0
<1>1. own[s] \in Tickets /\ 0 \in 0..MaxDelay
  BY CertificatesAssumption DEF Types
<1> QED
  BY <1>1 DEF Other, Messages, Kinds

(***************************************************************************)
(* A broadcast fills the free links of its sender and no others.           *)
(***************************************************************************)
LEMMA SendingIs ==
  ASSUME Types, NEW s \in Stations, NEW m \in Messages, AirIsFree(s), air' = Sent(s, m)
  PROVE  /\ air' \in [Links -> SUBSET Messages]
         /\ \A l \in Links : l[1] = s => air[l] = {} /\ air'[l] = {m}
         /\ \A l \in Links : l[1] # s => air'[l] = air[l]
BY DEF Types, Sent, AirIsFree

\* Receiver l[2] takes the message m off the link l.
Taken(l, m) ==
  /\ air' = [air EXCEPT ![l] = {}] /\ missed' = [missed EXCEPT ![l] = IF m.cam THEN 0 ELSE @]
  /\ cache' = [cache EXCEPT ![l[2]] = verify(l[2], m).cache]
  /\ policy' = [policy EXCEPT ![l[2]] = verify(l[2], m).policy]
  /\ last' = [last EXCEPT ![l] = verify(l[2], m).report]
  /\ known' = [known EXCEPT ![l] = IF verify(l[2], m).report = "success" THEN {m.ticket} ELSE @]
  /\ UNCHANGED <<own, quiet>>

(***************************************************************************)
(* A delivery takes some message off its link.                             *)
(***************************************************************************)
LEMMA DeliveringIs ==
  ASSUME Types, NEW l \in Links, Deliver(l)
  PROVE  \E m \in air[l] : m \in Messages /\ Taken(l, m)
<1>1. air[l] \subseteq Messages
  BY DEF Types
<1> QED
  BY <1>1, Zenon DEF Deliver, Taken

(***************************************************************************)
(* The types hold initially.                                               *)
(***************************************************************************)
LEMMA TypesInit == Init => Types
<1> SUFFICES ASSUME Init
             PROVE  Types
  OBVIOUS
<1> USE DEF Init
<1>1. \A s \in Stations : <<s, 0>> \in Tickets
  <2> SUFFICES ASSUME NEW s \in Stations
               PROVE  <<s, 0>> \in Tickets
    OBVIOUS
  <2>1. Renewals[s] \in Nat
    BY CertificatesAssumption
  <2> QED
    BY <2>1, TicketIs
<1>2. own \in [Stations -> Tickets] /\ \A s \in Stations : own[s][1] = s
  BY <1>1
<1>3. policy \in [Stations -> Policies]
  <2>1. NoRequests \in Policies
    BY CertificatesAssumption DEF NoRequests, Policies
  <2> QED
    BY <2>1
<1>4. cache \in [Stations -> Caches]
  <2> SUFFICES ASSUME NEW s \in Stations
               PROVE  [id \in Ids |-> IF id = Authority[s] THEN AuthorityLife ELSE Absent] \in Caches
    OBVIOUS
  <2>1. Authority[s] \in Authorities /\ AuthorityLife \in Nat /\ Absent \in Int
    BY CertificatesAssumption DEF Absent
  <2>2. Lifetime(Authority[s]) = AuthorityLife
    BY <2>1, AuthorityIs
  <2>3. \A id \in Ids : (IF id = Authority[s] THEN AuthorityLife ELSE Absent) \in Absent..Lifetime(id)
    BY <2>1, <2>2, Lifetimes
  <2> QED
    BY <2>1, <2>3 DEF Caches
<1>5. /\ quiet \in [Stations -> 0..CamPeriod] /\ air \in [Links -> SUBSET Messages]
      /\ missed \in [Links -> 0..MaxMissed] /\ known \in [Links -> SUBSET Tickets]
  BY CertificatesAssumption
<1>6. last \in [Links -> Reports]
  BY DEF Reports
<1> QED
  BY <1>2, <1>3, <1>4, <1>5, <1>6 DEF Types

(***************************************************************************)
(* Sending keeps the types.                                                *)
(***************************************************************************)
LEMMA TypesSend ==
  ASSUME Types, NEW s \in Stations, SendCam(s) \/ SendOther(s)
  PROVE  Types'
<1>1. CASE SendCam(s)
  <2>1. Cam(s) \in Messages
    BY CamIs
  <2>2. air' \in [Links -> SUBSET Messages]
    BY <1>1, <2>1, SendingIs DEF SendCam
  <2>3. policy' \in [Stations -> Policies]
    <3>1. Prepared(policy[s]) \in Policies
      BY Preparing DEF Types
    <3> QED
      BY <1>1, <3>1 DEF SendCam, Types
  <2>4. quiet' \in [Stations -> 0..CamPeriod]
    BY <1>1, CertificatesAssumption DEF SendCam, Types
  <2> QED
    BY <1>1, <2>2, <2>3, <2>4 DEF SendCam, Types
<1>2. CASE SendOther(s)
  <2>1. Other(s) \in Messages
    BY OtherIs
  <2>2. air' \in [Links -> SUBSET Messages]
    BY <1>2, <2>1, SendingIs DEF SendOther
  <2> QED
    BY <1>2, <2>2 DEF SendOther, Types
<1> QED
  BY <1>1, <1>2

(***************************************************************************)
(* own_certificate keeps the types.                                        *)
(***************************************************************************)
LEMMA TypesRenew ==
  ASSUME Types, NEW s \in Stations, Renew(s)
  PROVE  Types'
<1>1. own[s] \in Tickets /\ own[s][1] = s
  BY DEF Types
<1>2. own[s][2] \in 0..Renewals[s] /\ Renewals[s] \in Nat
  BY <1>1, TicketIs, CertificatesAssumption
<1>3. own[s][2] + 1 \in Nat /\ own[s][2] + 1 \in 0..Renewals[s]
  BY <1>2 DEF Renew
<1>4. <<s, own[s][2] + 1>> \in Tickets
  BY <1>3, TicketIs
<1> QED
  BY <1>4 DEF Renew, Types

(***************************************************************************)
(* verify_service keeps the types.                                         *)
(***************************************************************************)
LEMMA TypesDeliver ==
  ASSUME Types, NEW l \in Links, Deliver(l)
  PROVE  Types'
<1> PICK m \in air[l] : m \in Messages /\ Taken(l, m)
  BY DeliveringIs
<1> USE DEF Taken
<1> DEFINE v == verify(l[2], m)
<1>1. l[2] \in Stations
  BY LinkIs
<1>2. v.cache \in Caches /\ v.policy \in Policies /\ v.report \in Reports
  BY <1>1, VerifyIs
<1>3. m.ticket \in Tickets
  BY DEF Messages
<1> HIDE DEF v
<1>4. cache' \in [Stations -> Caches] /\ policy' \in [Stations -> Policies] /\ last' \in [Links -> Reports]
  BY <1>2 DEF Types, v
<1>5. air' \in [Links -> SUBSET Messages] /\ known' \in [Links -> SUBSET Tickets]
  BY <1>3 DEF Types
<1>6. missed' \in [Links -> 0..MaxMissed]
  BY CertificatesAssumption DEF Types
<1> QED
  BY <1>4, <1>5, <1>6 DEF Types

(***************************************************************************)
(* A loss keeps the types.                                                 *)
(***************************************************************************)
LEMMA TypesLose ==
  ASSUME Types, NEW l \in Links, Lose(l)
  PROVE  Types'
<1> PICK m \in air[l] :
    /\ m.cam => missed[l] < MaxMissed
    /\ missed' = [missed EXCEPT ![l] = IF m.cam THEN @ + 1 ELSE @]
    /\ air' = [air EXCEPT ![l] = {}]
    /\ UNCHANGED <<own, policy, cache, quiet, known, last>>
  BY DEF Lose
<1>1. missed' \in [Links -> 0..MaxMissed]
  BY CertificatesAssumption DEF Types
<1> QED
  BY <1>1 DEF Types

(***************************************************************************)
(* Time keeps the types; a life that ends leaves nothing behind.           *)
(***************************************************************************)
LEMMA TypesTick ==
  ASSUME Types, Tick
  PROVE  Types'
<1> USE DEF Tick
<1>1. quiet' \in [Stations -> 0..CamPeriod]
  BY CertificatesAssumption DEF Types
<1>2. policy' \in [Stations -> Policies]
  <2> SUFFICES ASSUME NEW s \in Stations
               PROVE  [policy[s] EXCEPT !.next = Less(@)] \in Policies
    OBVIOUS
  <2>1. policy[s] \in Policies
    BY DEF Types
  <2>2. policy[s].next \in 0..CertificatePeriod /\ CertificatePeriod \in Nat
    BY <2>1, CertificatesAssumption DEF Policies
  <2>3. Less(policy[s].next) \in 0..CertificatePeriod
    BY <2>2 DEF Less
  <2> QED
    BY <2>1, <2>3 DEF Policies
<1>3. cache' \in [Stations -> Caches]
  <2> SUFFICES ASSUME NEW s \in Stations
               PROVE  cache'[s] \in Caches
    BY DEF Types
  <2>1. cache'[s] = [id \in Ids |-> IF cache[s][id] = Absent THEN Absent ELSE cache[s][id] - 1]
    OBVIOUS
  <2>2. cache[s] \in [Ids -> Int] /\ \A id \in Ids : cache[s][id] \in Absent..Lifetime(id)
    BY DEF Types, Caches
  <2>3. \A id \in Ids : cache'[s][id] \in Int /\ cache'[s][id] \in Absent..Lifetime(id)
    BY <2>1, <2>2, Lifetimes DEF Absent
  <2> QED
    BY <2>1, <2>3 DEF Caches
<1>4. air' \in [Links -> SUBSET Messages]
  <2> SUFFICES ASSUME NEW l \in Links, NEW m \in air[l]
               PROVE  [m EXCEPT !.age = @ + 1] \in Messages
    OBVIOUS
  <2>1. m \in Messages /\ m.age < MaxDelay
    BY DEF Types
  <2>2. m.age + 1 \in 0..MaxDelay
    BY <2>1, CertificatesAssumption DEF Messages
  <2> QED
    BY <2>1, <2>2 DEF Messages
<1> QED
  BY <1>1, <1>2, <1>3, <1>4 DEF Types

-----------------------------------------------------------------------------
(***************************************************************************)
(* Tickets come over a link in the order in which they are renewed: what   *)
(* was accepted is not newer than what is under way, and that not newer    *)
(* than the sender's own.  Without it a late ticket could take the place   *)
(* of a newer one that stays in the cache.                                 *)
(***************************************************************************)
Order ==
  \A l \in Links :
    /\ \A t \in known[l] : t[1] = l[1] /\ t[2] <= own[l[1]][2]
    /\ \A m \in air[l] : m.ticket[1] = l[1] /\ m.ticket[2] <= own[l[1]][2]
    /\ \A m \in air[l] : \A t \in known[l] : t[2] <= m.ticket[2]
    /\ \A m, n \in air[l] : m = n
    /\ \A t, u \in known[l] : t = u

\* The inductive invariant.
CertInv == Types /\ Order /\ CachedIsAccepted

(***************************************************************************)
(* Numbers of tickets are naturals, and a ticket is its station and        *)
(* number.                                                                 *)
(***************************************************************************)
LEMMA Numbers ==
  ASSUME Types
  PROVE  /\ \A s \in Stations : own[s][2] \in Nat
         /\ \A l \in Links : \A t \in known[l] : t[2] \in Nat /\ t = <<t[1], t[2]>> /\ t \in Ids /\ t \in Tickets
         /\ \A l \in Links : \A m \in air[l] : /\ m.ticket[2] \in Nat /\ m.ticket = <<m.ticket[1], m.ticket[2]>>
                                               /\ m \in Messages /\ m.ticket \in Ids /\ m.ticket \in Tickets
<1>1. \A t \in Tickets : t[2] \in Nat /\ t = <<t[1], t[2]>> /\ t \in Ids
  BY TicketIs
<1>2. \A m \in Messages : m.ticket \in Tickets
  BY DEF Messages
<1> QED
  BY <1>1, <1>2, LinkIs DEF Types

(***************************************************************************)
(* Sending keeps the order: the ticket is the sender's newest, and the     *)
(* link was free.                                                          *)
(***************************************************************************)
LEMMA OrderSend ==
  ASSUME Types, Order, NEW s \in Stations, SendCam(s) \/ SendOther(s)
  PROVE  Order'
<1>1. PICK m \in Messages : /\ AirIsFree(s) /\ air' = Sent(s, m) /\ m.ticket = own[s]
                            /\ UNCHANGED <<own, known>>
  <2>1. Cam(s) \in Messages /\ Cam(s).ticket = own[s]
    BY CamIs
  <2>2. Other(s) \in Messages /\ Other(s).ticket = own[s]
    BY OtherIs
  <2> QED
    BY <2>1, <2>2 DEF SendCam, SendOther
<1>2. /\ \A l \in Links : l[1] = s => air'[l] = {m}
      /\ \A l \in Links : l[1] # s => air'[l] = air[l]
  BY <1>1, SendingIs
<1>3. own[s][1] = s /\ own[s][2] \in Nat
  BY Numbers DEF Types
<1> SUFFICES ASSUME NEW l \in Links
             PROVE  /\ \A t \in known[l] : t[1] = l[1] /\ t[2] <= own[l[1]][2]
                    /\ \A n \in air'[l] : n.ticket[1] = l[1] /\ n.ticket[2] <= own[l[1]][2]
                    /\ \A n \in air'[l] : \A t \in known[l] : t[2] <= n.ticket[2]
                    /\ \A n, o \in air'[l] : n = o
                    /\ \A t, u \in known[l] : t = u
  BY <1>1 DEF Order
<1>4. CASE l[1] = s
  BY <1>1, <1>2, <1>3, <1>4 DEF Order
<1>5. CASE l[1] # s
  BY <1>2, <1>5 DEF Order
<1> QED
  BY <1>4, <1>5

(***************************************************************************)
(* A renewal keeps the order: own tickets get newer.                       *)
(***************************************************************************)
LEMMA OrderRenew ==
  ASSUME Types, Order, NEW s \in Stations, Renew(s)
  PROVE  Order'
<1>1. own' \in [Stations -> Tickets] /\ UNCHANGED <<air, known>> /\ \A r \in Stations : own'[r][2] >= own[r][2]
  <2>1. own[s][2] + 1 >= own[s][2]
    BY Numbers
  <2>2. own' = [own EXCEPT ![s] = <<s, own[s][2] + 1>>]
    BY DEF Renew
  <2>3. \A r \in Stations : own'[r] = IF r = s THEN <<s, own[s][2] + 1>> ELSE own[r]
    BY <2>2 DEF Types
  <2>4. Types'
    BY TypesRenew
  <2> QED
    BY <2>1, <2>3, <2>4, Numbers DEF Types, Renew
<1> SUFFICES ASSUME NEW l \in Links
             PROVE  /\ \A t \in known[l] : t[1] = l[1] /\ t[2] <= own'[l[1]][2]
                    /\ \A n \in air[l] : n.ticket[1] = l[1] /\ n.ticket[2] <= own'[l[1]][2]
                    /\ \A n \in air[l] : \A t \in known[l] : t[2] <= n.ticket[2]
                    /\ \A n, o \in air[l] : n = o
                    /\ \A t, u \in known[l] : t = u
  BY <1>1 DEF Order
<1>2. own'[l[1]][2] >= own[l[1]][2] /\ own[l[1]][2] \in Nat /\ own'[l[1]][2] \in Nat
  <2>1. own'[l[1]] \in Tickets
    BY <1>1, LinkIs
  <2> QED
    BY <1>1, <2>1, LinkIs, Numbers, TicketIs
<1>3. \A t \in known[l] : t[2] \in Nat
  BY Numbers
<1>4. \A n \in air[l] : n.ticket[2] \in Nat
  BY Numbers
<1> QED
  BY <1>2, <1>3, <1>4 DEF Order

(***************************************************************************)
(* A delivery keeps the order: nothing accepted is newer than what is      *)
(* accepted now.                                                           *)
(***************************************************************************)
LEMMA OrderDeliver ==
  ASSUME Types, Order, NEW l \in Links, Deliver(l)
  PROVE  Order'
<1> PICK m \in air[l] : m \in Messages /\ Taken(l, m)
  BY DeliveringIs
<1> USE DEF Taken
<1>1. \A k \in Links : air'[k] = IF k = l THEN {} ELSE air[k]
  BY DEF Types
<1>2. \A k \in Links : known'[k] = known[k] \/ (k = l /\ known'[k] = {m.ticket})
  BY DEF Types
<1>3. UNCHANGED own
  OBVIOUS
<1> SUFFICES ASSUME NEW k \in Links
             PROVE  /\ \A t \in known'[k] : t[1] = k[1] /\ t[2] <= own[k[1]][2]
                    /\ \A n \in air'[k] : n.ticket[1] = k[1] /\ n.ticket[2] <= own[k[1]][2]
                    /\ \A n \in air'[k] : \A t \in known'[k] : t[2] <= n.ticket[2]
                    /\ \A n, o \in air'[k] : n = o
                    /\ \A t, u \in known'[k] : t = u
  BY <1>3 DEF Order
<1>4. CASE k = l
  BY <1>1, <1>2, <1>4 DEF Order
<1>5. CASE k # l
  BY <1>1, <1>2, <1>5 DEF Order
<1> QED
  BY <1>4, <1>5

(***************************************************************************)
(* A loss keeps the order.                                                 *)
(***************************************************************************)
LEMMA OrderLose ==
  ASSUME Types, Order, NEW l \in Links, Lose(l)
  PROVE  Order'
<1>1. air' = [air EXCEPT ![l] = {}] /\ UNCHANGED <<own, known>>
  BY DEF Lose
<1>2. \A k \in Links : air'[k] \subseteq air[k]
  BY <1>1 DEF Types
<1> QED
  BY <1>1, <1>2 DEF Order

(***************************************************************************)
(* Messages under way get older and change in nothing else.                *)
(***************************************************************************)
LEMMA Ticking ==
  ASSUME Types, Tick, NEW l \in Links
  PROVE  /\ \A n \in air'[l] : \E m \in air[l] :
              n = [m EXCEPT !.age = @ + 1] /\ n.ticket = m.ticket /\ n.cam = m.cam /\ n.age = m.age + 1
         /\ \A m \in air[l] : \E n \in air'[l] : n.ticket = m.ticket /\ n.cam = m.cam
<1>1. air'[l] = {[m EXCEPT !.age = @ + 1] : m \in air[l]}
  BY DEF Tick
<1>2. \A m \in air[l] : [m EXCEPT !.age = @ + 1].ticket = m.ticket
                        /\ [m EXCEPT !.age = @ + 1].cam = m.cam /\ [m EXCEPT !.age = @ + 1].age = m.age + 1
  <2> SUFFICES ASSUME NEW m \in air[l]
               PROVE  [m EXCEPT !.age = @ + 1].ticket = m.ticket
                        /\ [m EXCEPT !.age = @ + 1].cam = m.cam /\ [m EXCEPT !.age = @ + 1].age = m.age + 1
    OBVIOUS
  <2>1. m \in Messages
    BY DEF Types
  <2> QED
    BY <2>1 DEF Messages
<1> QED
  BY <1>1, <1>2

(***************************************************************************)
(* Time keeps the order.                                                   *)
(***************************************************************************)
LEMMA OrderTick ==
  ASSUME Types, Order, Tick
  PROVE  Order'
<1>1. UNCHANGED <<own, known>> /\ \A l \in Links : air'[l] = {[m EXCEPT !.age = @ + 1] : m \in air[l]}
  BY DEF Tick
<1>2. \A l \in Links : \A n \in air'[l] : \E m \in air[l] : n = [m EXCEPT !.age = @ + 1] /\ n.ticket = m.ticket
  BY Ticking
<1> SUFFICES ASSUME NEW l \in Links
             PROVE  /\ \A t \in known[l] : t[1] = l[1] /\ t[2] <= own[l[1]][2]
                    /\ \A n \in air'[l] : n.ticket[1] = l[1] /\ n.ticket[2] <= own[l[1]][2]
                    /\ \A n \in air'[l] : \A t \in known[l] : t[2] <= n.ticket[2]
                    /\ \A n, o \in air'[l] : n = o
                    /\ \A t, u \in known[l] : t = u
  BY <1>1 DEF Order
<1>3. \A m, n \in air[l] : m = n
  BY DEF Order
<1>4. \A n, o \in air'[l] : n = o
  BY <1>2, <1>3
<1> QED
  BY <1>2, <1>4 DEF Order

-----------------------------------------------------------------------------
(***************************************************************************)
(* What verify_service puts into the cache.                                *)
(***************************************************************************)
LEMMA VerifyInserts ==
  ASSUME Types, NEW r \in Stations, NEW m \in Messages, NEW i \in Ids, verify(r, m).cache[i] # cache[r][i]
  PROVE  cache[r][i] # Absent \/ i \in Authorities \/ (i = m.ticket /\ verify(r, m).report = "success")
BY VerifyIs

(***************************************************************************)
(* A delivery keeps CachedIsAccepted: a ticket that is new in the cache is *)
(* the one accepted now, and one that was there is not newer.              *)
(***************************************************************************)
LEMMA CachedDeliver ==
  ASSUME Types, Order, CachedIsAccepted, NEW l \in Links, Deliver(l)
  PROVE  CachedIsAccepted'
<1> PICK m \in air[l] : m \in Messages /\ Taken(l, m)
  BY DeliveringIs
<1> USE DEF Taken
<1> DEFINE r == l[2]
           v == verify(r, m)
<1>1. r \in Stations
  BY LinkIs
<1>3. /\ \A k \in Links : cache'[k[2]] = IF k[2] = r THEN v.cache ELSE cache[k[2]]
      /\ \A k \in Links : known'[k] = IF k = l /\ v.report = "success" THEN {m.ticket} ELSE known[k]
  BY LinkIs DEF Types
<1>4. m.ticket[2] \in Nat /\ m.ticket = <<l[1], m.ticket[2]>> /\ \A t \in known[l] : t[2] \in Nat /\ t[2] <= m.ticket[2]
  BY Numbers DEF Order
<1> SUFFICES ASSUME NEW k \in Links, NEW n \in 0..Renewals[k[1]], cache'[k[2]][<<k[1], n>>] # Absent
             PROVE  \E t \in known'[k] : t[2] >= n
  BY DEF CachedIsAccepted
<1> DEFINE i == <<k[1], n>>
<1>5. i \in Tickets /\ i \in Ids /\ i \notin Authorities /\ n \in Nat
  <2>1. Renewals[k[1]] \in Nat /\ k[1] \in Stations
    BY LinkIs, CertificatesAssumption
  <2>2. n \in Nat
    BY <2>1
  <2>3. i \in Tickets
    BY <2>1, <2>2, TicketIs
  <2> QED
    BY <2>2, <2>3, TicketIs
<1>6. CASE cache[k[2]][i] # Absent
  <2>1. PICK t \in known[k] : t[2] >= n
    BY <1>6 DEF CachedIsAccepted
  <2>2. CASE k = l /\ v.report = "success"
    <3>1. m.ticket[2] >= n
      BY <1>4, <1>5, <2>1, <2>2
    <3> QED
      BY <1>3, <2>2, <3>1
  <2>3. CASE ~(k = l /\ v.report = "success")
    BY <1>3, <2>1, <2>3
  <2> QED
    BY <2>2, <2>3
<1>7. CASE cache[k[2]][i] = Absent
  <2>a. k[2] = r /\ v.cache[i] # cache[r][i]
    BY <1>3, <1>7
  <2>1. k[2] = r /\ i = m.ticket /\ v.report = "success"
    BY <1>1, <1>5, <1>7, <2>a, VerifyInserts DEF v
  <2>2. k = l
    BY <1>4, <2>1 DEF Links
  <2>3. m.ticket \in known'[k] /\ m.ticket[2] >= n
    BY <1>3, <1>5, <2>1, <2>2
  <2> QED
    BY <2>3
<1> QED
  BY <1>6, <1>7

(***************************************************************************)
(* Time keeps CachedIsAccepted, since it only removes.                     *)
(***************************************************************************)
LEMMA CachedTick ==
  ASSUME Types, CachedIsAccepted, Tick
  PROVE  CachedIsAccepted'
<1> SUFFICES ASSUME NEW k \in Links, NEW n \in 0..Renewals[k[1]], cache'[k[2]][<<k[1], n>>] # Absent
             PROVE  \E t \in known[k] : t[2] >= n
  BY DEF CachedIsAccepted, Tick
<1>1. <<k[1], n>> \in Ids /\ k[2] \in Stations
  <2>1. Renewals[k[1]] \in Nat /\ k[1] \in Stations /\ k[2] \in Stations
    BY LinkIs, CertificatesAssumption
  <2>2. n \in Nat
    BY <2>1
  <2> QED
    BY <2>1, <2>2, TicketIs
<1>2. cache[k[2]][<<k[1], n>>] # Absent
  BY <1>1 DEF Tick
<1> QED
  BY <1>2 DEF CachedIsAccepted

(***************************************************************************)
(* Nobody's ticket is cached initially, only the own authority.            *)
(***************************************************************************)
LEMMA CachedInit ==
  ASSUME Init
  PROVE  CachedIsAccepted
<1> SUFFICES ASSUME NEW k \in Links, NEW n \in 0..Renewals[k[1]]
             PROVE  cache[k[2]][<<k[1], n>>] = Absent
  BY DEF CachedIsAccepted
<1>1. Renewals[k[1]] \in Nat /\ k[1] \in Stations /\ k[2] \in Stations
  BY LinkIs, CertificatesAssumption
<1>2. n \in Nat
  BY <1>1
<1>3. <<k[1], n>> \in Tickets
  BY <1>1, <1>2, TicketIs
<1>4. <<k[1], n>> \in Ids /\ <<k[1], n>> # Authority[k[2]]
  BY <1>1, <1>3, TicketIs, CertificatesAssumption
<1> QED
  BY <1>1, <1>4 DEF Init

(***************************************************************************)
(* The invariant holds initially.                                          *)
(***************************************************************************)
LEMMA CertInvInit == Init => CertInv
<1>1. Init => Order
  BY DEF Init, Order
<1> QED
  BY <1>1, TypesInit, CachedInit DEF CertInv

(***************************************************************************)
(* Every step keeps the invariant.                                         *)
(***************************************************************************)
LEMMA CertInvStep == CertInv /\ [Next]_vars => CertInv'
<1> SUFFICES ASSUME Types, Order, CachedIsAccepted, [Next]_vars
             PROVE  Types' /\ Order' /\ CachedIsAccepted'
  BY DEF CertInv
<1>1. ASSUME NEW s \in Stations, SendCam(s) \/ SendOther(s)
      PROVE  Types' /\ Order' /\ CachedIsAccepted'
  <2>1. CachedIsAccepted'
    BY <1>1 DEF CachedIsAccepted, SendCam, SendOther
  <2> QED
    BY <1>1, <2>1, TypesSend, OrderSend
<1>2. ASSUME NEW s \in Stations, Renew(s)
      PROVE  Types' /\ Order' /\ CachedIsAccepted'
  <2>1. CachedIsAccepted'
    BY <1>2 DEF CachedIsAccepted, Renew
  <2> QED
    BY <1>2, <2>1, TypesRenew, OrderRenew
<1>3. ASSUME NEW l \in Links, Deliver(l)
      PROVE  Types' /\ Order' /\ CachedIsAccepted'
  BY <1>3, TypesDeliver, OrderDeliver, CachedDeliver
<1>4. ASSUME NEW l \in Links, Lose(l)
      PROVE  Types' /\ Order' /\ CachedIsAccepted'
  <2>1. CachedIsAccepted'
    BY <1>4 DEF CachedIsAccepted, Lose
  <2> QED
    BY <1>4, <2>1, TypesLose, OrderLose
<1>5. ASSUME Tick
      PROVE  Types' /\ Order' /\ CachedIsAccepted'
  BY <1>5, TypesTick, OrderTick, CachedTick
<1>6. CASE UNCHANGED vars
  BY <1>6 DEF vars, Types, Order, CachedIsAccepted
<1> QED
  BY <1>1, <1>2, <1>3, <1>4, <1>5, <1>6 DEF Next

(***************************************************************************)
(* The invariant implies the types the runs check.                         *)
(***************************************************************************)
LEMMA TypesImply == CertInv => TypeOK
<1> SUFFICES ASSUME Types, Order
             PROVE  TypeOK
  BY DEF CertInv
<1>1. ASSUME NEW s \in Stations
      PROVE  /\ own[s] \in Tickets /\ own[s][1] = s /\ quiet[s] \in 0..CamPeriod
             /\ policy[s].next \in 0..CertificatePeriod /\ policy[s].unknown \subseteq Ids
             /\ \A id \in Ids : cache[s][id] \in Absent..Lifetime(id)
  BY DEF Types, Policies, Caches
<1>2. ASSUME NEW l \in Links
      PROVE  missed[l] \in 0..MaxMissed /\ last[l] \in Reports /\ Cardinality(air[l]) <= 1
  <2>1. CASE air[l] = {}
    <3>1. Cardinality(air[l]) = 0
      BY <2>1, FS_EmptySet
    <3> QED
      BY <3>1 DEF Types
  <2>2. CASE air[l] # {}
    <3>1. PICK m \in air[l] : TRUE
      BY <2>2
    <3>2. air[l] = {m}
      BY DEF Order
    <3>3. Cardinality(air[l]) = 1
      BY <3>2, FS_Singleton
    <3> QED
      BY <3>3 DEF Types
  <2> QED
    BY <2>1, <2>2
<1> QED
  BY <1>1, <1>2 DEF TypeOK

(***************************************************************************)
(* CertInv holds in every reachable state.                                 *)
(***************************************************************************)
THEOREM CertInvHolds == Spec => []CertInv
BY CertInvInit, CertInvStep, PTL DEF Spec

(***************************************************************************)
(* Certificates: every variable keeps its type, for every set of stations  *)
(* and authorities, all lives, delays and renewals.                        *)
(***************************************************************************)
THEOREM TypeCorrect == Spec => []TypeOK
BY CertInvHolds, TypesImply, PTL

(***************************************************************************)
(* verify_service and CertificateCache: a station has a ticket in its      *)
(* cache only if it has accepted a message signed with it or with a newer  *)
(* one of the same station, however late messages arrive, whatever is lost *)
(* or renewed and whatever requests, chains and digests do to the cache on *)
(* the way.                                                                *)
(***************************************************************************)
THEOREM OnlyAcceptedCached == Spec => []CachedIsAccepted
<1>1. CertInv => CachedIsAccepted
  BY DEF CertInv
<1> QED
  BY <1>1, CertInvHolds, PTL

-----------------------------------------------------------------------------
(***************************************************************************)
(* The age of a ticket in the cache.  Since it was refreshed last, as many *)
(* CAMs of its station were lost as missed counts, each sent at most a     *)
(* period after the one before; a CAM under way was sent another period    *)
(* later, and since then quiet has passed.  It matters for tickets that    *)
(* are still in use: the current one, and that of the message under way.   *)
(***************************************************************************)
CamUnderWay(l) == \E m \in air[l] : m.cam
Elapsed(l) == missed[l] * CamPeriod + (IF CamUnderWay(l) THEN CamPeriod ELSE 0) + quiet[l[1]]
InUse(l, t) == t = own[l[1]] \/ \E m \in air[l] : m.ticket = t
Aging == \A l \in Links : \A m \in air[l] : m.cam => m.age = quiet[l[1]]
Recent ==
  \A l \in Links : \A t \in known[l] : InUse(l, t) => TicketLife - cache[l[2]][t] <= Elapsed(l)

\* It is inductive if Covered holds.
TimeInv == CertInv /\ Aging /\ Recent

(***************************************************************************)
(* The products that occur are natural numbers.                            *)
(***************************************************************************)
LEMMA Product ==
  /\ CamPeriod \in Nat /\ TicketLife \in Nat /\ 0 * CamPeriod = 0
  /\ \A k \in Nat : k * CamPeriod \in Nat /\ (k + 1) * CamPeriod = k * CamPeriod + CamPeriod
<1>1. CamPeriod \in Nat /\ TicketLife \in Nat
  BY CertificatesAssumption
<1> QED
  BY <1>1

(***************************************************************************)
(* The terms of Elapsed are natural numbers.                               *)
(***************************************************************************)
LEMMA Amounts ==
  ASSUME Types, NEW l \in Links
  PROVE  /\ missed[l] \in Nat /\ missed[l] * CamPeriod \in Nat /\ quiet[l[1]] \in Nat /\ quiet[l[1]] <= CamPeriod
         /\ Elapsed(l) \in Nat
         /\ \A i \in Ids : cache[l[2]][i] \in Int
<1>1. missed[l] \in Nat /\ quiet[l[1]] \in Nat /\ quiet[l[1]] <= CamPeriod
  BY LinkIs, CertificatesAssumption DEF Types
<1>2. missed[l] * CamPeriod \in Nat /\ CamPeriod \in Nat
  BY <1>1, Product
<1>3. \A i \in Ids : cache[l[2]][i] \in Int
  BY LinkIs DEF Types, Caches
<1> QED
  BY <1>1, <1>2, <1>3 DEF Elapsed

(***************************************************************************)
(* A CAM under way counts as one more period, and the time since the last  *)
(* one starts again.                                                       *)
(***************************************************************************)
LEMMA RecentSendCam ==
  ASSUME TimeInv, NEW s \in Stations, SendCam(s)
  PROVE  Aging' /\ Recent'
<1>1. Types /\ Types'
  BY TypesSend DEF TimeInv, CertInv
<1> DEFINE m == Cam(s)
<1>2. m \in Messages /\ m.cam = TRUE /\ m.ticket = own[s] /\ m.age = 0
  BY <1>1, CamIs
<1>3. /\ \A l \in Links : l[1] = s => air[l] = {} /\ air'[l] = {m}
      /\ \A l \in Links : l[1] # s => air'[l] = air[l]
  BY <1>1, <1>2, SendingIs DEF SendCam
<1>4. /\ UNCHANGED <<own, cache, missed, known>>
      /\ \A r \in Stations : quiet'[r] = IF r = s THEN 0 ELSE quiet[r]
  BY <1>1 DEF SendCam, Types
<1> HIDE DEF m
<1>5. Aging'
  <2> SUFFICES ASSUME NEW l \in Links, NEW n \in air'[l], n.cam
               PROVE  n.age = quiet'[l[1]]
    BY DEF Aging
  <2>1. CASE l[1] = s
    BY <1>2, <1>3, <1>4, <2>1, LinkIs
  <2>2. CASE l[1] # s
    BY <1>3, <1>4, <2>2, LinkIs DEF TimeInv, Aging
  <2> QED
    BY <2>1, <2>2
<1>6. Recent'
  <2> SUFFICES ASSUME NEW l \in Links, NEW t \in known[l], InUse(l, t)'
               PROVE  TicketLife - cache[l[2]][t] <= Elapsed(l)'
    BY <1>4 DEF Recent
  <2>1. t \in Ids /\ cache[l[2]][t] \in Int /\ TicketLife \in Nat
    BY <1>1, Numbers, Amounts, Product
  <2>2. CASE l[1] = s
    <3>1. InUse(l, t)
      BY <1>2, <1>3, <1>4, <2>2 DEF InUse
    <3>2. ~CamUnderWay(l) /\ CamUnderWay(l)'
      BY <1>2, <1>3, <2>2 DEF CamUnderWay
    <3>3. Elapsed(l) = missed[l] * CamPeriod + 0 + quiet[l[1]]
      BY <3>2 DEF Elapsed
    <3>4. Elapsed(l)' = missed[l] * CamPeriod + CamPeriod + 0
      BY <1>4, <2>2, <3>2 DEF Elapsed
    <3>5. TicketLife - cache[l[2]][t] <= Elapsed(l)
      BY <3>1 DEF TimeInv, Recent
    <3>6. missed[l] * CamPeriod \in Nat /\ quiet[l[1]] \in Nat /\ quiet[l[1]] <= CamPeriod /\ CamPeriod \in Nat
      BY <1>1, Amounts, Product
    <3> QED
      BY <2>1, <3>3, <3>4, <3>5, <3>6
  <2>3. CASE l[1] # s
    <3>1. InUse(l, t) /\ (CamUnderWay(l)' <=> CamUnderWay(l)) /\ quiet'[l[1]] = quiet[l[1]]
      BY <1>3, <1>4, <2>3, LinkIs DEF InUse, CamUnderWay
    <3>2. Elapsed(l)' = Elapsed(l)
      BY <1>4, <3>1 DEF Elapsed
    <3> QED
      BY <3>1, <3>2 DEF TimeInv, Recent
  <2> QED
    BY <2>2, <2>3
<1> QED
  BY <1>5, <1>6

(***************************************************************************)
(* Messages that are no CAMs do not count.                                 *)
(***************************************************************************)
LEMMA RecentSendOther ==
  ASSUME TimeInv, NEW s \in Stations, SendOther(s)
  PROVE  Aging' /\ Recent'
<1>1. Types
  BY DEF TimeInv, CertInv
<1> DEFINE m == Other(s)
<1>2. m \in Messages /\ m.cam = FALSE /\ m.ticket = own[s]
  BY <1>1, OtherIs
<1>3. /\ \A l \in Links : l[1] = s => air[l] = {} /\ air'[l] = {m}
      /\ \A l \in Links : l[1] # s => air'[l] = air[l]
  BY <1>1, <1>2, SendingIs DEF SendOther
<1>4. UNCHANGED <<own, cache, missed, known, quiet>>
  BY DEF SendOther
<1> HIDE DEF m
<1>5. \A l \in Links : \A n \in air'[l] : n.cam => n \in air[l]
  BY <1>2, <1>3
<1>6. \A l \in Links : CamUnderWay(l)' <=> CamUnderWay(l)
  BY <1>2, <1>3 DEF CamUnderWay
<1>7. \A l \in Links : \A t : InUse(l, t)' => InUse(l, t)
  BY <1>2, <1>3, <1>4 DEF InUse
<1>8. \A l \in Links : Elapsed(l)' = Elapsed(l)
  BY <1>4, <1>6 DEF Elapsed
<1> QED
  BY <1>4, <1>5, <1>7, <1>8 DEF TimeInv, Aging, Recent

(***************************************************************************)
(* A renewal only puts tickets out of use.                                 *)
(***************************************************************************)
LEMMA RecentRenew ==
  ASSUME TimeInv, NEW s \in Stations, Renew(s)
  PROVE  Aging' /\ Recent'
<1>1. Types /\ Order
  BY DEF TimeInv, CertInv
<1>2. UNCHANGED <<air, cache, missed, known, quiet>>
  BY DEF Renew
<1>3. \A r \in Stations : own'[r] = IF r = s THEN <<s, own[s][2] + 1>> ELSE own[r]
  BY <1>1 DEF Renew, Types
<1>4. ASSUME NEW l \in Links, NEW t \in known[l], InUse(l, t)'
      PROVE  InUse(l, t)
  <2>1. CASE l[1] = s
    <3>1. t[2] \in Nat /\ own[s][2] \in Nat /\ t[2] <= own[s][2]
      BY <1>1, <2>1, Numbers DEF Order
    <3>2. t # own'[l[1]]
      BY <1>3, <2>1, <3>1
    <3> QED
      BY <1>2, <1>4, <3>2 DEF InUse
  <2>2. CASE l[1] # s
    BY <1>2, <1>3, <1>4, <2>2, LinkIs DEF InUse
  <2> QED
    BY <2>1, <2>2
<1>5. \A l \in Links : Elapsed(l)' = Elapsed(l)
  BY <1>2 DEF Elapsed, CamUnderWay
<1> QED
  BY <1>2, <1>4, <1>5 DEF TimeInv, Aging, Recent

(***************************************************************************)
(* A loss turns the CAM under way into one that was missed.                *)
(***************************************************************************)
LEMMA RecentLose ==
  ASSUME TimeInv, NEW l \in Links, Lose(l)
  PROVE  Aging' /\ Recent'
<1>1. Types /\ Order
  BY DEF TimeInv, CertInv
<1> PICK m \in air[l] :
    /\ m.cam => missed[l] < MaxMissed
    /\ missed' = [missed EXCEPT ![l] = IF m.cam THEN @ + 1 ELSE @]
    /\ air' = [air EXCEPT ![l] = {}]
    /\ UNCHANGED <<own, policy, cache, quiet, known, last>>
  BY DEF Lose
<1>2. \A k \in Links : air'[k] = IF k = l THEN {} ELSE air[k]
  BY <1>1 DEF Types
<1>3. \A k \in Links : missed'[k] = IF k = l /\ m.cam THEN missed[k] + 1 ELSE missed[k]
  BY <1>1 DEF Types
<1>4. UNCHANGED <<own, cache, quiet, known>>
  OBVIOUS
<1>5. Aging'
  BY <1>2, <1>4 DEF TimeInv, Aging
<1>6. \A k \in Links : Elapsed(k)' = Elapsed(k)
  <2> SUFFICES ASSUME NEW k \in Links
               PROVE  Elapsed(k)' = Elapsed(k)
    OBVIOUS
  <2>1. CASE k # l
    <3>1. CamUnderWay(k)' <=> CamUnderWay(k)
      BY <1>2, <2>1 DEF CamUnderWay
    <3> QED
      BY <1>3, <1>4, <2>1, <3>1 DEF Elapsed
  <2>2. CASE k = l /\ m.cam
    <3>1. CamUnderWay(k) /\ ~CamUnderWay(k)'
      BY <1>2, <2>2 DEF CamUnderWay
    <3>2. Elapsed(k) = missed[k] * CamPeriod + CamPeriod + quiet[k[1]]
      BY <3>1 DEF Elapsed
    <3>3. Elapsed(k)' = (missed[k] + 1) * CamPeriod + 0 + quiet[k[1]]
      BY <1>3, <1>4, <2>2, <3>1 DEF Elapsed
    <3>4. missed[k] \in Nat /\ missed[k] * CamPeriod \in Nat /\ quiet[k[1]] \in Nat /\ CamPeriod \in Nat
      BY <1>1, Amounts, Product
    <3>5. (missed[k] + 1) * CamPeriod = missed[k] * CamPeriod + CamPeriod
      BY <3>4, Product
    <3> QED
      BY <3>2, <3>3, <3>4, <3>5
  <2>3. CASE k = l /\ ~m.cam
    <3>1. ~CamUnderWay(k) /\ ~CamUnderWay(k)'
      BY <1>1, <1>2, <2>3 DEF CamUnderWay, Order
    <3> QED
      BY <1>3, <1>4, <2>3, <3>1 DEF Elapsed
  <2> QED
    BY <2>1, <2>2, <2>3
<1>7. \A k \in Links : \A t : InUse(k, t)' => InUse(k, t)
  BY <1>2, <1>4 DEF InUse
<1>8. Recent'
  BY <1>4, <1>6, <1>7 DEF TimeInv, Recent
<1> QED
  BY <1>5, <1>8

(***************************************************************************)
(* Time passes for the cache and for the sender alike.                     *)
(***************************************************************************)
LEMMA RecentTick ==
  ASSUME TimeInv, Tick
  PROVE  Aging' /\ Recent'
<1>1. Types
  BY DEF TimeInv, CertInv
<1>2. UNCHANGED <<own, missed, known>> /\ \A r \in Stations : quiet'[r] = quiet[r] + 1
  BY DEF Tick
<1>3. Aging'
  <2> SUFFICES ASSUME NEW l \in Links, NEW n \in air'[l], n.cam
               PROVE  n.age = quiet'[l[1]]
    BY DEF Aging
  <2>1. PICK m \in air[l] : n.cam = m.cam /\ n.age = m.age + 1
    BY <1>1, Ticking
  <2> QED
    BY <1>2, <2>1, LinkIs DEF TimeInv, Aging
<1>4. Recent'
  <2> SUFFICES ASSUME NEW l \in Links, NEW t \in known[l], InUse(l, t)'
               PROVE  TicketLife - cache'[l[2]][t] <= Elapsed(l)'
    BY <1>2 DEF Recent
  <2>1. \A n \in air'[l] : \E m \in air[l] : n.ticket = m.ticket /\ n.cam = m.cam
    BY <1>1, Ticking
  <2>2. \A m \in air[l] : \E n \in air'[l] : n.ticket = m.ticket /\ n.cam = m.cam
    BY <1>1, Ticking
  <2>3. CamUnderWay(l)' <=> CamUnderWay(l)
    BY <2>1, <2>2 DEF CamUnderWay
  <2>4. InUse(l, t)
    BY <1>2, <2>1 DEF InUse
  <2>5. TicketLife - cache[l[2]][t] <= Elapsed(l)
    BY <2>4 DEF TimeInv, Recent
  <2>6. t \in Ids /\ cache[l[2]][t] \in Int /\ TicketLife \in Nat /\ Elapsed(l) \in Nat
    BY <1>1, Numbers, Amounts, Product
  <2>7. Elapsed(l)' = Elapsed(l) + 1
    <3>1. Elapsed(l)' = missed[l] * CamPeriod + (IF CamUnderWay(l) THEN CamPeriod ELSE 0) + (quiet[l[1]] + 1)
      BY <1>2, <2>3, LinkIs DEF Elapsed
    <3>2. missed[l] * CamPeriod \in Nat /\ quiet[l[1]] \in Nat /\ CamPeriod \in Nat
      BY <1>1, Amounts, Product
    <3> QED
      BY <3>1, <3>2 DEF Elapsed
  <2>8. cache'[l[2]][t] >= cache[l[2]][t] - 1 /\ cache'[l[2]][t] \in Int
    <3>1. cache'[l[2]][t] = IF cache[l[2]][t] = Absent THEN Absent ELSE cache[l[2]][t] - 1
      BY <2>6, LinkIs DEF Tick
    <3> QED
      BY <2>6, <3>1 DEF Absent
  <2> QED
    BY <2>5, <2>6, <2>7, <2>8
<1> QED
  BY <1>3, <1>4

\* The life of a ticket covers MaxMissed missed CAMs, none of which would be
\* too old.
Covered == (MaxMissed + 1) * CamPeriod + MaxDelay <= TicketLife /\ MaxDelay <= MaxAge

(***************************************************************************)
(* Fewer periods missed are less time.                                     *)
(***************************************************************************)
LEMMA Monotone == ASSUME NEW k \in 0..MaxMissed PROVE k * CamPeriod <= MaxMissed * CamPeriod
<1>1. MaxMissed \in Nat /\ CamPeriod \in Nat /\ k \in Nat /\ MaxMissed - k \in Nat
  BY CertificatesAssumption
<1>2. (MaxMissed - k) * CamPeriod >= 0
  BY <1>1
<1>3. (MaxMissed - k) * CamPeriod = MaxMissed * CamPeriod - k * CamPeriod
  BY <1>1
<1>4. MaxMissed * CamPeriod \in Nat /\ k * CamPeriod \in Nat
  BY <1>1
<1> QED
  BY <1>2, <1>3, <1>4

(***************************************************************************)
(* The ticket of a CAM under way that was accepted before has not expired, *)
(* and the CAM is not too old.                                             *)
(***************************************************************************)
LEMMA StillThere ==
  ASSUME Covered, TimeInv, NEW l \in Links, NEW m \in air[l], m.cam, m.ticket \in known[l]
  PROVE  cache[l[2]][m.ticket] # Absent /\ m.age <= MaxAge
<1>1. Types
  BY DEF TimeInv, CertInv
<1>2. m.age \in 0..MaxDelay /\ m.age = quiet[l[1]] /\ m.ticket \in Ids
  BY <1>1, Numbers DEF TimeInv, Aging, Messages
<1>3. MaxDelay \in Nat /\ MaxAge \in Nat /\ TicketLife \in Nat /\ CamPeriod \in Nat /\ MaxMissed \in Nat
  BY CertificatesAssumption
<1>4. TicketLife - cache[l[2]][m.ticket] <= Elapsed(l)
  BY DEF TimeInv, Recent, InUse
<1>5. Elapsed(l) = missed[l] * CamPeriod + CamPeriod + quiet[l[1]]
  BY DEF Elapsed, CamUnderWay
<1>6. missed[l] \in 0..MaxMissed
  BY <1>1 DEF Types
<1>7. missed[l] * CamPeriod <= MaxMissed * CamPeriod /\ missed[l] * CamPeriod \in Nat /\ MaxMissed * CamPeriod \in Nat
      /\ (MaxMissed + 1) * CamPeriod = MaxMissed * CamPeriod + CamPeriod
  BY <1>1, <1>3, <1>6, Amounts, Product, Monotone
<1>8. cache[l[2]][m.ticket] \in Int
  BY <1>1, <1>2, Amounts
<1>9. cache[l[2]][m.ticket] >= 0
  BY <1>2, <1>3, <1>4, <1>5, <1>7, <1>8 DEF Covered
<1> QED
  BY <1>2, <1>3, <1>9 DEF Covered, Absent

(***************************************************************************)
(* A delivery refreshes the ticket, if it is still in use.                 *)
(***************************************************************************)
LEMMA RecentDeliver ==
  ASSUME Covered, TimeInv, NEW l \in Links, Deliver(l)
  PROVE  Aging' /\ Recent'
<1>1. Types /\ Order
  BY DEF TimeInv, CertInv
<1> DEFINE r == l[2]
<1>3. PICK m \in air[l] : m \in Messages /\ Taken(l, m)
  BY <1>1, DeliveringIs
<1>4. r \in Stations /\ m \in Messages
  BY <1>3, LinkIs
<1> DEFINE v == verify(r, m)
<1>5. /\ v.cache \in Caches
      /\ \A i \in Ids : v.cache[i] >= cache[r][i]
      /\ v.report = "success" => v.cache[m.ticket] = TicketLife
      /\ m.cam /\ m.age <= MaxAge /\ cache[r][m.ticket] # Absent => v.cache[m.ticket] = TicketLife
  BY <1>1, <1>4, VerifyIs
<1> HIDE DEF v
<1>6. /\ \A k \in Links : air'[k] = IF k = l THEN {} ELSE air[k]
      /\ \A k \in Links : missed'[k] = IF k = l /\ m.cam THEN 0 ELSE missed[k]
      /\ \A k \in Links : cache'[k[2]] = IF k[2] = r THEN v.cache ELSE cache[k[2]]
      /\ \A k \in Links : known'[k] = IF k = l /\ v.report = "success" THEN {m.ticket} ELSE known[k]
  <2>1. cache' = [cache EXCEPT ![r] = v.cache]
    BY <1>3 DEF v, Taken
  <2>2. known' = [known EXCEPT ![l] = IF v.report = "success" THEN {m.ticket} ELSE @]
    BY <1>3 DEF v, Taken
  <2>3. \A k \in Links : cache'[k[2]] = IF k[2] = r THEN v.cache ELSE cache[k[2]]
    BY <1>1, <2>1, LinkIs DEF Types
  <2>4. \A k \in Links : known'[k] = IF k = l /\ v.report = "success" THEN {m.ticket} ELSE known[k]
    BY <1>1, <2>2 DEF Types
  <2>5. \A k \in Links : missed'[k] = IF k = l /\ m.cam THEN 0 ELSE missed[k]
    BY <1>1, <1>3 DEF Types, Taken
  <2>6. \A k \in Links : air'[k] = IF k = l THEN {} ELSE air[k]
    BY <1>1, <1>3 DEF Types, Taken
  <2> QED
    BY <2>3, <2>4, <2>5, <2>6, Zenon
<1>7. UNCHANGED <<own, quiet>>
  BY <1>3 DEF Taken
<1>8. Aging'
  BY <1>6, <1>7 DEF TimeInv, Aging
<1>9. Recent'
  <2> SUFFICES ASSUME NEW k \in Links, NEW t \in known'[k], InUse(k, t)'
               PROVE  TicketLife - cache'[k[2]][t] <= Elapsed(k)'
    BY DEF Recent
  <2>t. Types'
    BY <1>1, TypesDeliver
  <2>n. Elapsed(k)' \in Nat /\ t \in Ids /\ TicketLife \in Nat
    <3>1. Elapsed(k)' \in Nat
      <4>1. missed'[k] \in 0..MaxMissed /\ quiet'[k[1]] \in 0..CamPeriod
        BY <2>t, LinkIs DEF Types
      <4>2. missed'[k] \in Nat /\ quiet'[k[1]] \in Nat
        BY <4>1, CertificatesAssumption
      <4> QED
        BY <4>2, Product DEF Elapsed
    <3>2. t \in Tickets
      BY <2>t DEF Types
    <3> QED
      BY <3>1, <3>2, Product, TicketIs
  <2>1. CASE k # l
    <3>1. t \in known[k] /\ InUse(k, t) /\ (CamUnderWay(k)' <=> CamUnderWay(k)) /\ missed'[k] = missed[k]
      BY <1>6, <1>7, <2>1 DEF InUse, CamUnderWay
    <3>2. Elapsed(k)' = Elapsed(k)
      BY <1>7, <3>1 DEF Elapsed
    <3>3. TicketLife - cache[k[2]][t] <= Elapsed(k)
      BY <3>1 DEF TimeInv, Recent
    <3>4. cache[k[2]][t] \in Int /\ cache'[k[2]][t] \in Int
      BY <1>1, <2>n, <2>t, LinkIs DEF Types, Caches
    <3>5. cache'[k[2]][t] >= cache[k[2]][t]
      <4>1. CASE k[2] = r
        BY <1>5, <1>6, <2>n, <4>1
      <4>2. CASE k[2] # r
        BY <1>6, <3>4, <4>2
      <4> QED
        BY <4>1, <4>2
    <3> QED
      BY <2>n, <3>2, <3>3, <3>4, <3>5
  <2>2. CASE k = l /\ v.report = "success"
    <3>1. t = m.ticket /\ cache'[k[2]][t] = TicketLife
      BY <1>5, <1>6, <2>2
    <3> QED
      BY <2>n, <3>1
  <2>3. CASE k = l /\ v.report # "success"
    <3>1. t \in known[l] /\ t = own[l[1]]
      BY <1>6, <1>7, <2>3 DEF InUse
    <3>2. CASE m.cam
      <4>1. t = m.ticket
        <5>1. /\ t[1] = l[1] /\ m.ticket[1] = l[1] /\ t[2] <= m.ticket[2] /\ m.ticket[2] <= t[2]
          BY <1>1, <3>1 DEF Order
        <5>2. t[2] \in Nat /\ m.ticket[2] \in Nat /\ t = <<t[1], t[2]>> /\ m.ticket = <<m.ticket[1], m.ticket[2]>>
          BY <1>1, <3>1, Numbers
        <5>3. t[2] = m.ticket[2]
          BY <5>1, <5>2
        <5> QED
          BY <5>1, <5>2, <5>3
      <4>2. cache[r][m.ticket] # Absent /\ m.age <= MaxAge
        BY <3>1, <3>2, <4>1, StillThere
      <4>3. cache'[k[2]][t] = TicketLife
        BY <1>5, <1>6, <2>3, <3>2, <4>1, <4>2
      <4> QED
        BY <2>n, <4>3
    <3>3. CASE ~m.cam
      <4>1. ~CamUnderWay(l) /\ ~CamUnderWay(l)' /\ missed'[l] = missed[l]
        BY <1>1, <1>6, <3>3 DEF CamUnderWay, Order
      <4>2. Elapsed(l)' = Elapsed(l)
        BY <1>7, <4>1 DEF Elapsed
      <4>3. TicketLife - cache[r][t] <= Elapsed(l)
        BY <3>1 DEF TimeInv, Recent, InUse
      <4>4. cache'[r][t] >= cache[r][t]
        BY <1>5, <1>6, <2>n
      <4>5. cache[r][t] \in Int /\ cache'[r][t] \in Int
        BY <1>1, <1>4, <2>n, <2>t DEF Types, Caches
      <4> QED
        BY <2>3, <2>n, <4>2, <4>3, <4>4, <4>5
    <3> QED
      BY <3>2, <3>3
  <2> QED
    BY <2>1, <2>2, <2>3
<1> QED
  BY <1>8, <1>9

(***************************************************************************)
(* The invariant with its times holds initially.                           *)
(***************************************************************************)
LEMMA TimeInvInit == Init => TimeInv
<1>1. Init => Aging /\ Recent
  BY DEF Init, Aging, Recent
<1> QED
  BY <1>1, CertInvInit DEF TimeInv

(***************************************************************************)
(* Every step keeps it.                                                    *)
(***************************************************************************)
LEMMA TimeInvStep ==
  ASSUME Covered, TimeInv, [Next]_vars
  PROVE  TimeInv'
<1>1. CertInv'
  BY CertInvStep DEF TimeInv
<1>2. Aging' /\ Recent'
  <2>1. CASE UNCHANGED vars
    BY <2>1 DEF vars, TimeInv, Aging, Recent, InUse, Elapsed, CamUnderWay
  <2>2. CASE Next
    BY <2>2, RecentSendCam, RecentSendOther, RecentRenew, RecentDeliver, RecentLose, RecentTick DEF Next
  <2> QED
    BY <2>1, <2>2
<1> QED
  BY <1>1, <1>2 DEF TimeInv

(***************************************************************************)
(* certificate_cache.cpp chooses the life of a ticket "to account for one  *)
(* missed message": whoever has accepted a ticket finds it for every       *)
(* further CAM, certificate, digest or chain, if MaxMissed + 1 periods and *)
(* the delay of a message fit into its life.                               *)
(***************************************************************************)
THEOREM MissedMessagesSurvived ==
  ASSUME Covered
  PROVE  Spec => OneMissedMessage
<1>1. TimeInv /\ [Next]_vars => TimeInv'
  BY TimeInvStep
<1>2. TimeInv => \A l \in Links : FindsTicket(l)
  <2> SUFFICES ASSUME TimeInv, NEW l \in Links, Deliver(l), NEW m \in air[l], m.cam, m.ticket \in known[l]
               PROVE  last'[l] # "signer not found"
    BY DEF FindsTicket
  <2>1. Types /\ Order
    BY DEF TimeInv, CertInv
  <2>2. \E n \in air[l] : n \in Messages /\ last' = [last EXCEPT ![l] = verify(l[2], n).report]
    BY <2>1, DeliveringIs DEF Taken
  <2>3. m \in Messages /\ last' = [last EXCEPT ![l] = verify(l[2], m).report]
    BY <2>1, <2>2 DEF Order
  <2>4. cache[l[2]][m.ticket] # Absent
    BY StillThere
  <2>5. verify(l[2], m).report # "signer not found"
    BY <2>1, <2>3, <2>4, LinkIs, VerifyIs
  <2>6. last'[l] = verify(l[2], m).report
    BY <2>1, <2>3 DEF Types
  <2> QED
    BY <2>5, <2>6
<1> QED
  BY <1>1, <1>2, TimeInvInit, PTL DEF Spec, OneMissedMessage
=============================================================================
