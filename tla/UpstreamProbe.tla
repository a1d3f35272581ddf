--------------------------- MODULE UpstreamProbe ---------------------------
(***************************************************************************)
(* The diagnosis of the AI Core endpoint: run_upstream_diagnostics         *)
(* (ai_core_probe_runner.py) sends a GET, then a POST of "{}", classifies  *)
(* each answer (ai_core_probe.py) and sums both up for the operator        *)
(* (docs/m14.7).  The upstream is external and changes between the two     *)
(* requests, and between a request and its answer.                         *)
(*                                                                         *)
(* An answer is its status and what its text says, as far as the           *)
(* classification reads it.  Status 0 stands for no connection (URLError). *)
(***************************************************************************)

(* External: what can be the matter with the upstream.                     *)
Conditions ==
  {"suspended", "down", "forbidding", "unregistered", "unscoped", "healthy"}

Texts == {"service_suspended", "method_forbidden", "unregistered_service", "missing_scope", "receipt"}

Says(status, texts) == [status |-> status, texts |-> texts]

(* External: how an upstream in each condition answers.  The pair of       *)
(* "suspended" is what docs/m14.6 observed; the POST has no attestation in *)
(* it, so that a healthy service may refuse it.                            *)
AnswersTo(condition, method) ==
  CASE condition = "suspended" /\ method = "GET"  -> {Says(503, {"service_suspended"})}
    [] condition = "suspended" /\ method = "POST" -> {Says(503, {"service_suspended"}),
                                                      Says(403, {"method_forbidden"})}
    [] condition = "down"                         -> {Says(503, {}), Says(0, {})}
    [] condition = "forbidding" /\ method = "POST" -> {Says(403, {"method_forbidden"})}
    [] condition = "unregistered" /\ method = "POST" -> {Says(400, {"unregistered_service"}),
                                                         Says(403, {"unregistered_service"})}
    [] condition = "unscoped" /\ method = "POST"  -> {Says(400, {"missing_scope"}),
                                                      Says(403, {"missing_scope"})}
    [] condition = "healthy" /\ method = "POST"   -> {Says(200, {"receipt"}), Says(400, {})}
    [] OTHER                                      -> {Says(404, {})}

(* classify_submit_probe                                                   *)
Classify(answer) ==
  CASE answer.status = 503 /\ "service_suspended" \in answer.texts -> "upstream_service_suspended"
    [] answer.status = 503 /\ "service_suspended" \notin answer.texts -> "upstream_unavailable"
    [] answer.status = 403 /\ "method_forbidden" \in answer.texts -> "edge_method_forbidden"
    [] OTHER ->
         IF "unregistered_service" \in answer.texts THEN "registry_unregistered_service"
         ELSE IF "missing_scope" \in answer.texts THEN "registry_missing_scope"
         ELSE IF answer.status \in {200, 201, 202} /\ "receipt" \in answer.texts
              THEN "attestation_submitted"
         ELSE "unknown"

(* Defect: the POST, the request that matters, is judged first.            *)
SummaryOfThePostFirst(get, post) ==
  CASE post = "edge_method_forbidden" -> "upstream_gateway_method_policy_or_route_mapping"
    [] post \in {"registry_unregistered_service", "registry_missing_scope"} ->
         "registry_prerequisite_not_met"
    [] post = "attestation_submitted" -> "submit_path_healthy"
    [] OTHER -> IF get \in {"upstream_service_suspended", "upstream_unavailable"}
                THEN "upstream_availability_incident" ELSE "needs_manual_upstream_triage"

(* _build_summary                                                          *)
Summary(get, post) ==
  IF get \in {"upstream_service_suspended", "upstream_unavailable"}
  THEN "upstream_availability_incident"
  ELSE CASE post = "edge_method_forbidden" -> "upstream_gateway_method_policy_or_route_mapping"
         [] post \in {"registry_unregistered_service", "registry_missing_scope"} ->
              "registry_prerequisite_not_met"
         [] post = "attestation_submitted" -> "submit_path_healthy"
         [] OTHER -> "needs_manual_upstream_triage"

VARIABLES
  upstream,   \* the condition the upstream is in
  probe       \* [stage, get, summary, seen]: a run of the script
probeVars == <<upstream, probe>>

(* "seen", for the properties only: the conditions since the run began.    *)
NoProbe == [stage |-> "idle", get |-> "none", summary |-> "none", seen |-> {}]

ProbeInit == upstream \in Conditions /\ probe = NoProbe

UpstreamChanges ==
  /\ upstream' \in Conditions \ {upstream}
  /\ probe' = IF probe.stage \in {"GET", "POST"}
              THEN [probe EXCEPT !.seen = @ \cup {upstream'}] ELSE probe

BeginDiagnosis ==
  /\ probe.stage \notin {"GET", "POST"}
  /\ probe' = [NoProbe EXCEPT !.stage = "GET", !.seen = {upstream}]
  /\ UNCHANGED upstream

(* _probe(submit_url, "GET")                                               *)
GetAnswered ==
  /\ probe.stage = "GET"
  /\ \E a \in AnswersTo(upstream, "GET") :
       probe' = [probe EXCEPT !.stage = "POST", !.get = Classify(a)]
  /\ UNCHANGED upstream

(* _probe(submit_url, "POST", "{}"), then _build_summary.                  *)
PostAnswered ==
  /\ probe.stage = "POST"
  /\ \E a \in AnswersTo(upstream, "POST") :
       probe' = [probe EXCEPT !.stage = "done", !.summary = Summary(probe.get, Classify(a))]
  /\ UNCHANGED upstream

(* A timeout while the answer is read is not a URLError: the run ends with *)
(* no diagnosis.                                                           *)
ReadTimesOut ==
  /\ probe.stage \in {"GET", "POST"}
  /\ probe' = [probe EXCEPT !.stage = "raised"]
  /\ UNCHANGED upstream

ProbeNext ==
  \/ UpstreamChanges
  \/ BeginDiagnosis
  \/ GetAnswered
  \/ PostAnswered
  \/ ReadTimesOut

-----------------------------------------------------------------------------
ProbeTypeOK ==
  /\ upstream \in Conditions
  /\ probe.stage \in {"idle", "GET", "POST", "done", "raised"}
  /\ probe.get \in {"none", "upstream_service_suspended", "upstream_unavailable",
                    "edge_method_forbidden", "registry_unregistered_service",
                    "registry_missing_scope", "attestation_submitted", "unknown"}
  /\ probe.seen \subseteq Conditions
  /\ (probe.summary # "none") <=> (probe.stage = "done")

(* What the operator may be told of an upstream that stays as it is.       *)
Truthful ==
  [suspended    |-> {"upstream_availability_incident"},
   down         |-> {"upstream_availability_incident", "needs_manual_upstream_triage"},
   forbidding   |-> {"upstream_gateway_method_policy_or_route_mapping"},
   unregistered |-> {"registry_prerequisite_not_met"},
   unscoped     |-> {"registry_prerequisite_not_met"},
   healthy      |-> {"submit_path_healthy", "needs_manual_upstream_triage"}]

(* The "truthful buckets" of docs/m14.7: the summary is true of a          *)
(* condition the upstream was in during the run, so that it is exact when  *)
(* nothing changed.  Two summaries need a change: a manual triage, and the *)
(* blame put on the gateway's method policy when the service that was      *)
(* suspended between the two requests answers the POST at its edge.        *)
DiagnosisFits ==
  probe.stage = "done" =>
    \/ \E c \in probe.seen : probe.summary \in Truthful[c]
    \/ /\ \E c, d \in probe.seen : c # d
       /\ \/ probe.summary = "needs_manual_upstream_triage"
          \/ /\ probe.summary = "upstream_gateway_method_policy_or_route_mapping"
             /\ "suspended" \in probe.seen
=============================================================================
