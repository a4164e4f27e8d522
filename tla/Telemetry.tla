----------------------------- MODULE Telemetry ------------------------------
(***************************************************************************)
(* MemoryTelemetryStore of internal/observability: an append-only slice of  *)
(* request records under one mutex, pruned by explicit Cleanup calls only.  *)
(* Each operation holds the mutex from start to end, so each is one step.   *)
(***************************************************************************)
EXTENDS Integers, Sequences, SequencesExt, Selection

CONSTANTS
    MaxRecords,     \* RetentionPolicy.MaxRecords; 0 means the default
    MaxAge,         \* RetentionPolicy.MaxAge; 0 means the default
    DefaultRecords, \* DefaultRetentionPolicy(): 1000 records
    DefaultAge      \* and 24 hours

ASSUME RetentionAssumption ==
    /\ MaxRecords \in Int /\ MaxAge \in Int
    /\ DefaultRecords \in Nat \ {0} /\ DefaultAge \in Nat \ {0}

VARIABLE records    \* in the order the requests completed

ErrorKind == {"none", "proxy_error", "upstream_status"}

\* An error of the proxy itself hides the upstream's status.
ClassifyProxyError(status, failed) ==
    CASE failed                    -> "proxy_error"
      [] ~failed /\ status >= 500  -> "upstream_status"
      [] ~failed /\ status < 500   -> "none"

BuildRequestTelemetry(r, status, latency, startedAt, kind) ==
    [req |-> r, status |-> status, latency |-> latency, startedAt |-> startedAt, kind |-> kind]

\* normalizeRetentionPolicy: a policy cannot switch either limit off.
RecordLimit == IF MaxRecords <= 0 THEN DefaultRecords ELSE MaxRecords
AgeLimit == IF MaxAge <= 0 THEN DefaultAge ELSE MaxAge

\* The zero time is never too old.
TooOld(record, now) == record.startedAt # 0 /\ record.startedAt < now - AgeLimit

\* Mutant: the first records are kept instead of the last.
RetentionKeepsHead(recs, now) ==
    LET young == Only(recs, {record \in ToSet(recs) : ~TooOld(record, now)})
    IN IF Len(young) > RecordLimit THEN SubSeq(young, 1, RecordLimit) ELSE young

\* applyRetentionPolicy: first by age, then the last RecordLimit of the rest.
ApplyRetentionPolicy(recs, now) ==
    LET young == Only(recs, {record \in ToSet(recs) : ~TooOld(record, now)})
    IN IF Len(young) > RecordLimit
       THEN SubSeq(young, Len(young) - RecordLimit + 1, Len(young))
       ELSE young

Record(record) == records' = Append(records, record)

Cleanup(now, confirm) ==
    records' = IF confirm THEN ApplyRetentionPolicy(records, now) ELSE records

Recorded(r) == {i \in DOMAIN records : records[i].req = r}
=============================================================================
