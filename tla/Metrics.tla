------------------------------ MODULE Metrics -------------------------------
(* The summary of telemetry records that the admin API hands out             *)
(* (internal/admin, metricsFromTelemetry).                                   *)
EXTENDS Integers, Sequences, FiniteSetsExt

\* Mutant: the counts leave out the successful requests.
MetricsOfFailures(recs) ==
    LET failed == {i \in DOMAIN recs : recs[i].kind # "none"}
    IN [requests |-> Len(recs), errors |-> Cardinality(failed), latency |-> 0,
        statuses |-> [s \in {recs[i].status : i \in failed} |->
                          Cardinality({i \in failed : recs[i].status = s})],
        failures |-> [k \in {recs[i].kind : i \in failed} |->
                          Cardinality({i \in failed : recs[i].kind = k})]]

\* metricsFromTelemetry: the maps have an entry for what occurs and for nothing else.
MetricsFromTelemetry(recs) ==
    LET all == DOMAIN recs
        failed == {i \in all : recs[i].kind # "none"}
        total == MapThenSumSet(LAMBDA i : recs[i].latency, all)
    IN [requests |-> Len(recs),
        errors |-> Cardinality(failed),
        latency |-> IF recs = <<>> THEN 0 ELSE total \div Len(recs),
        statuses |-> [s \in {recs[i].status : i \in all} |->
                          Cardinality({i \in all : recs[i].status = s})],
        failures |-> [k \in {recs[i].kind : i \in failed} |->
                          Cardinality({i \in failed : recs[i].kind = k})]]

FailureCategories(recs) == MetricsFromTelemetry(recs).failures
=============================================================================
