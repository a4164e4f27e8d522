------------------------------- MODULE Proxy --------------------------------
(***************************************************************************)
(* The live request path of internal/proxy: one goroutine per request runs  *)
(* transparentProxy, which forwards the request, relays the response and    *)
(* records one telemetry entry.  The upstream provider, the client and the  *)
(* net/http server that frames the response are external: they act between  *)
(* any two steps of a handler.                                              *)
(***************************************************************************)
EXTENDS Telemetry, Metrics, FiniteSets

CONSTANTS
    Requests,       \* the requests a client sends, each once
    Responses,      \* the responses an upstream may begin
    MaxChunks,      \* bound: the chunks of an upstream body
    MaxTime         \* bound: the last instant of the clock

\* A response: its status, whether it is an event stream, whether a
\* Content-Length announces its size, and its size in chunks.
Response == [status : Nat, sse : BOOLEAN, framed : BOOLEAN, size : 0 .. MaxChunks]

ASSUME ProxyAssumption ==
    /\ MaxChunks \in Nat /\ MaxTime \in Nat \ {0}
    /\ Responses \subseteq Response

VARIABLES
    clock,
    req,            \* req[r]: the handler of r
    up,             \* up[r]: the upstream's side of r
    client,         \* client[r]: what the client of r has seen
    pruned          \* history: requests whose record a Cleanup removed

vars == <<records, clock, req, up, client, pruned>>

BadGateway == [status |-> 502, sse |-> FALSE, framed |-> FALSE, size |-> 0]

\* "read": the chunks io.Copy has written to the ResponseWriter; "failed": copyErr.
Handler == [pc : {"idle", "do", "copy", "report", "return", "done"},
            started : 0 .. MaxTime, resp : Response, read : 0 .. MaxChunks,
            failed : BOOLEAN]

TypeOK ==
    /\ clock \in 1 .. MaxTime
    /\ req \in [Requests -> Handler]
    /\ up \in [Requests -> [emitted : 0 .. MaxChunks, state : {"open", "eof", "aborted"}]]
    /\ client \in [Requests -> [state : {"waiting", "gone", "complete", "broken"},
                                got : 0 .. MaxChunks]]
    /\ records \in Seq([req : Requests, status : Nat, latency : Nat, startedAt : Nat,
                        kind : ErrorKind])
    /\ pruned \subseteq Requests

Init ==
    /\ records = <<>>
    /\ clock = 1
    /\ req = [r \in Requests |-> [pc |-> "idle", started |-> 0, resp |-> BadGateway,
                                  read |-> 0, failed |-> FALSE]]
    /\ up = [r \in Requests |-> [emitted |-> 0, state |-> "open"]]
    /\ client = [r \in Requests |-> [state |-> "waiting", got |-> 0]]
    /\ pruned = {}

Gone(r) == client[r].state = "gone"

-----------------------------------------------------------------------------
(* The handler.                                                             *)

\* recordTelemetry: one record, with the status the client is sent.
RecordTelemetry(r, status, failed) ==
    Record(BuildRequestTelemetry(r, status, clock - req[r].started, req[r].started,
                                 ClassifyProxyError(status, failed)))

At(r, pc) == req[r].pc = pc /\ UNCHANGED <<clock, pruned>>

Accept(r) ==
    /\ At(r, "idle")
    /\ req' = [req EXCEPT ![r].pc = "do", ![r].started = clock]
    /\ UNCHANGED <<records, up, client>>

\* Mutant: the error branch does not return.
UnreachableFallsThrough(r) ==
    /\ At(r, "do")
    /\ req' = [req EXCEPT ![r].pc = "report", ![r].resp = BadGateway, ![r].failed = TRUE]
    /\ RecordTelemetry(r, 502, TRUE)
    /\ UNCHANGED <<up, client>>

\* NewRequestWithContext or client.Do fails: the upstream is unreachable, or the
\* client has left and the request context is cancelled.  The failure is logged and
\* recorded, then answered with 502.
Unreachable(r) ==
    /\ At(r, "do")
    /\ req' = [req EXCEPT ![r].pc = "return", ![r].resp = BadGateway, ![r].failed = TRUE]
    /\ RecordTelemetry(r, 502, TRUE)
    /\ UNCHANGED <<up, client>>

\* client.Do returns once the upstream's header is there, also when it races with a
\* cancellation; headers and status are copied to the client.
Respond(r, resp) ==
    /\ At(r, "do")
    /\ req' = [req EXCEPT ![r].pc = "copy", ![r].resp = resp]
    /\ UNCHANGED <<records, up, client>>

\* Mutant: no Flush after a Write.
DeliverBuffered(r, n) == UNCHANGED client

\* flushWriter: an event stream is flushed after every Write.
Deliver(r, n) ==
    client' = IF req[r].resp.sse /\ ~Gone(r) THEN [client EXCEPT ![r].got = n] ELSE client

\* Mutant: the copy loop goes round once more.
CopyChunkTwice(r) ==
    /\ At(r, "copy")
    /\ req[r].read <= up[r].emitted
    /\ req' = [req EXCEPT ![r].read = @ + 1]
    /\ Deliver(r, req[r].read + 1)
    /\ UNCHANGED <<records, up>>

\* io.Copy moves the next chunk.  A Write after the client has left may still
\* succeed: it ends in the server's buffer.
CopyChunk(r) ==
    /\ At(r, "copy")
    /\ req[r].read < up[r].emitted
    /\ req' = [req EXCEPT ![r].read = @ + 1]
    /\ Deliver(r, req[r].read + 1)
    /\ UNCHANGED <<records, up>>

CopyEOF(r) ==
    /\ At(r, "copy")
    /\ req[r].read = up[r].emitted
    /\ up[r].state = "eof"
    /\ req' = [req EXCEPT ![r].pc = "report"]
    /\ UNCHANGED <<records, up, client>>

\* Mutant: the error of io.Copy is dropped.
CopyErrorIgnored(r) ==
    /\ At(r, "copy")
    /\ Gone(r) \/ (up[r].state = "aborted" /\ req[r].read = up[r].emitted)
    /\ req' = [req EXCEPT ![r].pc = "report"]
    /\ UNCHANGED <<records, up, client>>

\* Mutant: a cancelled request keeps waiting for the upstream.
CopyErrorUpstreamOnly(r) ==
    /\ At(r, "copy")
    /\ up[r].state = "aborted" /\ req[r].read = up[r].emitted
    /\ req' = [req EXCEPT ![r].pc = "report", ![r].failed = TRUE]
    /\ UNCHANGED <<records, up, client>>

\* The upstream breaks off, or the client has left: a Write fails, or the cancelled
\* context fails the Read.
CopyError(r) ==
    /\ At(r, "copy")
    /\ Gone(r) \/ (up[r].state = "aborted" /\ req[r].read = up[r].emitted)
    /\ req' = [req EXCEPT ![r].pc = "report", ![r].failed = TRUE]
    /\ UNCHANGED <<records, up, client>>

\* LogRequest and recordTelemetry, with the status already sent.
Report(r) ==
    /\ At(r, "report")
    /\ req' = [req EXCEPT ![r].pc = "return"]
    /\ RecordTelemetry(r, req[r].resp.status, req[r].failed)
    /\ UNCHANGED <<up, client>>

\* The handler returns normally, whatever copyErr was.  net/http then ends the
\* response: a chunked body gets its terminator; a body shorter than its
\* Content-Length cannot be completed and the connection is closed.
Return(r) ==
    LET h == req[r]
        whole == h.resp.framed => h.read = h.resp.size
    IN /\ At(r, "return")
       /\ req' = [req EXCEPT ![r].pc = "done"]
       /\ client' = IF Gone(r) THEN client
                    ELSE [client EXCEPT ![r] = [state |-> IF whole THEN "complete" ELSE "broken",
                                                got |-> h.read]]
       /\ UNCHANGED <<records, up>>

-----------------------------------------------------------------------------
(* The upstream, the client, the server's buffer and the operator.           *)

Flowing(r) == req[r].pc = "copy" /\ up[r].state = "open"

UpstreamEmit(r) ==
    /\ Flowing(r)
    /\ up[r].emitted < req[r].resp.size
    /\ up' = [up EXCEPT ![r].emitted = @ + 1]
    /\ UNCHANGED <<records, clock, req, client, pruned>>

UpstreamEnd(r) ==
    /\ Flowing(r)
    /\ up[r].emitted = req[r].resp.size
    /\ up' = [up EXCEPT ![r].state = "eof"]
    /\ UNCHANGED <<records, clock, req, client, pruned>>

UpstreamAbort(r) ==
    /\ Flowing(r)
    /\ up' = [up EXCEPT ![r].state = "aborted"]
    /\ UNCHANGED <<records, clock, req, client, pruned>>

\* The server's buffer fills up, and goes out without a Flush.
BufferFull(r) ==
    /\ req[r].pc = "copy"
    /\ client[r].state = "waiting"
    /\ client[r].got < req[r].read
    /\ client' = [client EXCEPT ![r].got = req[r].read]
    /\ UNCHANGED <<records, clock, req, up, pruned>>

ClientLeaves(r) ==
    /\ req[r].pc # "idle"
    /\ client[r].state = "waiting"
    /\ client' = [client EXCEPT ![r].state = "gone"]
    /\ UNCHANGED <<records, clock, req, up, pruned>>

\* Some caller runs the retention Cleanup; nothing in the program does by itself.
Prune(confirm) ==
    /\ records # <<>>
    /\ Cleanup(clock, confirm)
    /\ pruned' = pruned \cup ({records[i].req : i \in DOMAIN records}
                                \ {records'[i].req : i \in DOMAIN records'})
    /\ UNCHANGED <<clock, req, up, client>>

Tick ==
    /\ clock < MaxTime
    /\ clock' = clock + 1
    /\ UNCHANGED <<records, req, up, client, pruned>>

Step(r) ==
    \/ Unreachable(r)
    \/ CopyChunk(r)
    \/ CopyEOF(r)
    \/ CopyError(r)
    \/ Report(r)
    \/ Return(r)

Next ==
    \/ \E r \in Requests : Accept(r) \/ Step(r)
    \/ \E r \in Requests, resp \in Responses : Respond(r, resp)
    \/ \E r \in Requests : UpstreamEmit(r) \/ UpstreamEnd(r) \/ UpstreamAbort(r)
    \/ \E r \in Requests : BufferFull(r) \/ ClientLeaves(r)
    \/ \E confirm \in BOOLEAN : Prune(confirm)
    \/ Tick

Spec == Init /\ [][Next]_vars

\* The Go scheduler runs every handler that can run, and a cancelled context fails
\* the pending Do or Read.  The upstream owes nothing: there is no timeout.
FairSpec ==
    /\ Spec
    /\ \A r \in Requests : WF_vars(Step(r) /\ (req[r].pc = "do" => Gone(r)))

-----------------------------------------------------------------------------
(* Properties.                                                               *)

\* A request leaves exactly one telemetry record, when its handler is through, and
\* none is lost to concurrent handlers: it is in the store or a Cleanup removed it
\* (upstream.go, the three calls of recordTelemetry).
RecordedOnce ==
    \A r \in Requests :
        Cardinality(Recorded(r)) + (IF r \in pruned THEN 1 ELSE 0)
            = IF req[r].pc \in {"return", "done"} THEN 1 ELSE 0

\* A client that stayed and was handed less than the upstream's whole body is on
\* record: its entry carries the status it was sent and is never free of errors
\* (upstream.go, ClassifyProxyError of copyErr).
TruncationRecorded ==
    \A i \in DOMAIN records :
        LET r == records[i].req
        IN /\ records[i].status = req[r].resp.status
           /\ req[r].pc = "done" /\ client[r].state # "gone"
                /\ client[r].got < req[r].resp.size => records[i].kind = "proxy_error"
           /\ records[i].kind = "none" => up[r].state = "eof" /\ req[r].resp.status < 500

\* What the admin API would answer at any moment is true of the requests themselves,
\* handlers in progress and pruned records aside: each is counted once and under the
\* status its client was sent, every response that broke off or failed is among the
\* errors, no other is unless its client left, and the average is no longer than some
\* request took (server.go, metricsFromTelemetry of telemetrySnapshot).
MetricsHonest ==
    LET metrics == MetricsFromTelemetry(records)
        reported == {r \in Requests : req[r].pc \in {"return", "done"}} \ pruned
        bad == {r \in reported : up[r].state # "eof" \/ req[r].resp.status >= 500}
    IN /\ metrics.requests = Cardinality(reported)
       /\ metrics.statuses = [s \in {req[r].resp.status : r \in reported} |->
                                Cardinality({r \in reported : req[r].resp.status = s})]
       /\ Cardinality(bad) <= metrics.errors
       /\ metrics.errors <= Cardinality(bad \cup {r \in reported : Gone(r)})
       /\ metrics.errors = MapThenSumSet(LAMBDA k : metrics.failures[k], DOMAIN metrics.failures)
       /\ IF reported = {} THEN metrics.latency = 0
          ELSE \E r \in reported : metrics.latency <= clock - req[r].started

\* Telemetry and the metrics made of it hide no failure and invent none (upstream.go,
\* ClassifyProxyError; server.go, metricsFromTelemetry).
TelemetryHonest == TruncationRecorded /\ MetricsHonest

\* An event stream is never held back: whenever the handler waits for the upstream's
\* next event, the client has every event read so far (upstream.go, flushWriter).
StreamsPromptly ==
    \A r \in Requests :
        req[r].pc = "copy" /\ req[r].resp.sse /\ client[r].state = "waiting"
            => client[r].got = req[r].read

\* Retention takes the records that completed first: a Cleanup that drops a record
\* and keeps one that completed before it drops it for its age (telemetry.go,
\* applyRetentionPolicy), and it leaves no more than the limit.
RetentionKeepsLatest ==
    [][LET kept(i) == \E j \in DOMAIN records' : records'[j] = records[i]
       IN Len(records') < Len(records) =>
            /\ Len(records') <= RecordLimit
            /\ \A i, j \in DOMAIN records :
                 i < j /\ kept(i) /\ ~kept(j) => TooOld(records[j], clock)]_vars

\* A client that leaves frees its handler, however long the upstream stays silent
\* (upstream.go, NewRequestWithContext(r.Context())).
CancelReleases ==
    \A r \in Requests :
        Gone(r) /\ req[r].pc \in {"do", "copy"} ~> req[r].pc = "done"

-----------------------------------------------------------------------------
(* What README.md says of the proxy: "preserving provider-visible request and *)
(* response semantics".                                                      *)

\* A response that looks complete to its client is the upstream's whole response:
\* a broken upstream response never looks complete.
CompleteIsWhole ==
    \A r \in Requests :
        client[r].state = "complete" /\ req[r].resp.status # 502
            => up[r].state = "eof" /\ client[r].got = req[r].resp.size
=============================================================================
