--------------------------- MODULE AdminRequests ----------------------------
(***************************************************************************)
(* The requests of the admin API (internal/admin) and what is computed from *)
(* them, without state: which are refused, and what the others answer.  The *)
(* listen address, the paths and the version never change and are left out  *)
(* of the answers, and so is the credential, of which a client only ever    *)
(* sees "<redacted>".                                                       *)
(***************************************************************************)
EXTENDS Metrics

CONSTANTS
    Texts,          \* what a client may send as target_base_url
    TrimRight,      \* TrimRight[t]: t without the slashes at its end
    ValidURL,       \* the texts that have a scheme and a host for url.Parse
    NoBody          \* a body that does not decode; an answer with nothing to tell

ASSUME RequestAssumption ==
    /\ NoBody \notin Texts
    /\ ValidURL \subseteq Texts
    /\ TrimRight \in [Texts -> Texts]

\* "other": a method that the path does not take.
Request == [op : {"status", "config", "put", "metrics", "diagnostics", "other"},
            text : Texts \cup {NoBody}, token : BOOLEAN]

\* validateTargetBaseURL of a body that decodes.
ValidTarget(text) == text \in Texts /\ TrimRight[text] \in ValidURL

\* Mutant: a body that decodes is taken as it is.
RefusalUnvalidated(req) ==
    CASE ~req.token                                           -> 401
      [] req.token /\ req.op = "other"                        -> 405
      [] req.token /\ req.op = "put" /\ req.text \notin Texts  -> 400
      [] OTHER                                                -> 200

\* requireToken, then the handler's method check, then the checks of a PUT.
Refusal(req) ==
    CASE ~req.token                                        -> 401
      [] req.token /\ req.op = "other"                     -> 405
      [] req.token /\ req.op = "put" /\ ~ValidTarget(req.text) -> 400
      [] OTHER                                             -> 200

\* What a request that is not refused answers when it finds this target and these
\* records.  The target is never empty, so the status is always the same.
Body(req, target, recs) ==
    CASE req.op \in {"config", "put"} -> target
      [] req.op = "metrics"           -> MetricsFromTelemetry(recs)
      [] req.op = "diagnostics"       -> FailureCategories(recs)
      [] OTHER                        -> NoBody
=============================================================================
