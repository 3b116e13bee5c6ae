--------------------------- MODULE MCCertificates ---------------------------
(***************************************************************************)
(* Two stations with tickets of different authorities.  Times are in half  *)
(* seconds; the hour an authority is cached is scaled down to just more    *)
(* than a ticket, so that it expires too.  The initial state chooses a     *)
(* scenario: in the first receivers miss up to one CAM in a row and no     *)
(* ticket is renewed, in the second nothing is lost and s1 renews its own. *)
(***************************************************************************)
EXTENDS Certificates, TLC

CONSTANTS s1, s2, aa1, aa2

VARIABLE scenario

TwoStations == {s1, s2}
OneEach     == (s1 :> aa1) @@ (s2 :> aa2)
FirstRenews == (s1 :> 1) @@ (s2 :> 0)

TrustInit == scenario \in {"losing", "renewing"} /\ Init

TrustNext ==
  /\ Next /\ UNCHANGED scenario
  /\ IF scenario = "losing" THEN UNCHANGED own ELSE UNCHANGED missed

\* The fairness of Certificates in each scenario.
TrustSpec ==
  /\ TrustInit /\ [][TrustNext]_<<vars, scenario>>
  /\ WF_vars(Tick) /\ \A s \in Stations : WF_vars(SendCam(s))
  /\ \A l \in Links :
       /\ WF_vars(scenario = "losing" /\ (Deliver(l) \/ Lose(l)))
       /\ WF_vars(scenario = "renewing" /\ Deliver(l))
       /\ SF_vars(scenario = "losing" /\ DeliverRequest(l))
       /\ SF_vars(scenario = "losing" /\ DeliverKind(l, "certificate"))
       /\ SF_vars(scenario = "losing" /\ DeliverKind(l, "chain"))

-----------------------------------------------------------------------------
(***************************************************************************)
(* Settles of Certificates: when nothing is lost the requests for          *)
(* certificates and chains come to an end, also after a renewal.           *)
(***************************************************************************)
RequestsEnd == scenario = "renewing" => Settles
=============================================================================
