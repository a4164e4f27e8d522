----------------------------- MODULE ProxyProofs -----------------------------
(***************************************************************************)
(* Machine-checked proofs about Proxy and the telemetry store, for any      *)
(* number of requests, chunks, records and instants and any retention       *)
(* policy.                                                                  *)
(***************************************************************************)
EXTENDS Proxy, LoopProofs, FiniteSetTheorems

Entry == [req : Requests, status : Nat, latency : Nat, startedAt : Nat, kind : ErrorKind]

Final == {"return", "done"}

Through(r) == req[r].pc \in Final

\* A request is on record, or was, when its handler has reported it; never twice.
OneRecord ==
    /\ \A i, j \in DOMAIN records : records[i].req = records[j].req => i = j
    /\ \A i \in DOMAIN records : records[i].req \notin pruned /\ Through(records[i].req)
    /\ \A r \in Requests : Through(r) /\ r \notin pruned
                             => \E i \in DOMAIN records : records[i].req = r
    /\ \A r \in pruned : Through(r)

\* A record tells what its handler saw.
RecordsAgree ==
    \A i \in DOMAIN records :
        LET h == req[records[i].req]
        IN /\ records[i].status = h.resp.status
           /\ records[i].kind = ClassifyProxyError(h.resp.status, h.failed)
           /\ records[i].latency <= clock - h.started

\* Nothing flows before the response has begun; what is copied was emitted, and an end
\* without an error is the end of the whole body.
Flow(r) ==
    /\ req[r].started <= clock
    /\ req[r].pc \in {"idle", "do"} =>
         /\ req[r].read = 0 /\ ~req[r].failed
         /\ up[r].emitted = 0 /\ up[r].state = "open"
         /\ client[r].got = 0
    /\ req[r].read <= up[r].emitted
    /\ req[r].pc = "copy" => ~req[r].failed /\ up[r].emitted <= req[r].resp.size
    /\ up[r].state = "eof" => up[r].emitted = req[r].resp.size
    /\ req[r].pc \in {"report", "return", "done"} /\ ~req[r].failed =>
         up[r].state = "eof" /\ req[r].read = up[r].emitted
    /\ req[r].failed => Gone(r) \/ up[r].state # "eof"
    /\ client[r].state \in {"complete", "broken"} => req[r].pc = "done"
    /\ req[r].pc = "done" /\ ~Gone(r) => client[r].got = req[r].read

Flows == \A r \in Requests : Flow(r)

ProxyInv == TypeOK /\ Flows /\ StreamsPromptly /\ OneRecord /\ RecordsAgree

-----------------------------------------------------------------------------
(* Retention.                                                                *)

\* e tells where each kept record stood; a record that is young enough and dropped
\* stood before every one that is kept.
KeepsLatest(e, kept, recs, now) ==
    /\ e \in [DOMAIN kept -> DOMAIN recs]
    /\ \A j \in DOMAIN kept : kept[j] = recs[e[j]]
    /\ \A j, k \in DOMAIN kept : j < k => e[j] < e[k]
    /\ \A i \in DOMAIN recs :
         ~TooOld(recs[i], now) => \/ \E j \in DOMAIN kept : e[j] = i
                                  \/ \A j \in DOMAIN kept : i < e[j]

\* The end of a sequence.
LEMMA Suffix ==
    ASSUME NEW S, NEW s \in Seq(S), NEW n \in Nat, Len(s) > n
    PROVE  LET t == SubSeq(s, Len(s) - n + 1, Len(s))
           IN /\ t \in Seq(S) /\ DOMAIN t = 1 .. n /\ Len(t) = n
              /\ \A j \in 1 .. n : Len(s) - n + j \in DOMAIN s /\ t[j] = s[Len(s) - n + j]
OBVIOUS

\* What applyRetentionPolicy keeps.
LEMMA Retention ==
    ASSUME NEW S, NEW recs \in Seq(S), NEW now
    PROVE  /\ ApplyRetentionPolicy(recs, now) \in Seq(S)
           /\ Len(ApplyRetentionPolicy(recs, now)) <= RecordLimit
           /\ \E e : KeepsLatest(e, ApplyRetentionPolicy(recs, now), recs, now)
<1> DEFINE wanted == {record \in ToSet(recs) : ~TooOld(record, now)}
           young == Only(recs, wanted)
           n == Len(young) - RecordLimit
           kept == ApplyRetentionPolicy(recs, now)
<1>1. young \in Seq(S) /\ Len(young) \in Nat
  BY OnlyPlaces
<1>2. PICK d : Places(d, young, recs, wanted, Len(recs))
  BY OnlyPlaces
<1>3. \A i \in DOMAIN recs : recs[i] \in wanted <=> ~TooOld(recs[i], now)
  BY DEF ToSet
<1>4. DOMAIN recs = 1 .. Len(recs) /\ Len(recs) \in Nat /\ DOMAIN young = 1 .. Len(young)
  BY <1>1
<1>5. RecordLimit \in Nat
  BY RetentionAssumption DEF RecordLimit
<1>6. kept = IF Len(young) > RecordLimit
             THEN SubSeq(young, Len(young) - RecordLimit + 1, Len(young)) ELSE young
  BY DEF ApplyRetentionPolicy
<1> HIDE DEF wanted, young, kept
<1>7. CASE ~(Len(young) > RecordLimit)
  <2>1. KeepsLatest(d, young, recs, now)
    BY <1>2, <1>3, <1>4 DEF KeepsLatest, Places
  <2> QED BY <1>1, <1>5, <1>6, <1>7, <2>1 DEF kept
<1>8. CASE Len(young) > RecordLimit
  <2> DEFINE e == [j \in 1 .. RecordLimit |-> d[n + j]]
  <2>1. /\ kept \in Seq(S) /\ DOMAIN kept = 1 .. RecordLimit /\ Len(kept) = RecordLimit
        /\ \A j \in 1 .. RecordLimit : n + j \in DOMAIN young /\ kept[j] = young[n + j]
    BY <1>1, <1>5, <1>6, <1>8, Suffix
  <2>2. n \in Nat /\ \A j \in 1 .. RecordLimit : e[j] = d[n + j]
    BY <1>1, <1>5, <1>8
  <2>3. e \in [DOMAIN kept -> DOMAIN recs]
    BY <1>2, <1>4, <2>1 DEF Places
  <2> HIDE DEF e
  <2>4. \A j \in DOMAIN kept : kept[j] = recs[e[j]]
    BY <1>2, <2>1, <2>2 DEF Places
  <2>5. ASSUME NEW j \in DOMAIN kept, NEW k \in DOMAIN kept, j < k PROVE e[j] < e[k]
    <3>1. n + j < n + k /\ n + j \in DOMAIN young /\ n + k \in DOMAIN young
      BY <1>5, <2>1, <2>2, <2>5
    <3>2. d[n + j] < d[n + k]
      BY <1>2, <3>1 DEF Places
    <3> QED BY <2>1, <2>2, <3>2
  <2>6. ASSUME NEW i \in DOMAIN recs, ~TooOld(recs[i], now),
               NEW j \in DOMAIN kept, ~(i < e[j])
        PROVE  \E k \in DOMAIN kept : e[k] = i
    <3>1. PICK q \in DOMAIN young : d[q] = i
      BY <1>2, <1>3, <1>4, <2>6 DEF Places
    <3>2. n + j \in DOMAIN young /\ e[j] = d[n + j] /\ q \in Nat /\ n + j \in Nat
      BY <1>1, <1>4, <2>1, <2>2
    <3>3. ~(q < n + j)
      BY <1>2, <2>6, <3>1, <3>2 DEF Places
    <3>4. q - n \in 1 .. RecordLimit /\ n + (q - n) = q
      BY <1>1, <1>4, <1>5, <2>1, <2>2, <3>2, <3>3
    <3>5. q - n \in DOMAIN kept
      BY <2>1, <3>4
    <3>6. e[q - n] = i
      BY <2>2, <3>1, <3>4, <3>5
    <3> QED BY <3>5, <3>6
  <2>7. KeepsLatest(e, kept, recs, now)
    BY <2>3, <2>4, <2>5, <2>6 DEF KeepsLatest
  <2> QED BY <1>5, <2>1, <2>7 DEF kept
<1> QED BY <1>7, <1>8

-----------------------------------------------------------------------------
(* The inductive invariant: what a step does to the requests.                *)

LEMMA InitProxy == Init => ProxyInv
<1> SUFFICES ASSUME Init PROVE ProxyInv
  OBVIOUS
<1> USE DEF Init
<1>1. TypeOK
  BY ProxyAssumption DEF TypeOK, Handler, Response, BadGateway, ErrorKind
<1>2. Flows /\ StreamsPromptly
  BY ProxyAssumption DEF Flows, Flow, StreamsPromptly, Gone
<1>3. OneRecord /\ RecordsAgree
  BY DEF OneRecord, RecordsAgree, Through, Final
<1> QED BY <1>1, <1>2, <1>3 DEF ProxyInv

LEMMA RecordTyped ==
    ASSUME TypeOK, Flows, NEW r \in Requests, NEW status \in Nat, NEW failed \in BOOLEAN,
           RecordTelemetry(r, status, failed)
    PROVE  records' \in Seq(Entry)
<1> DEFINE entry == BuildRequestTelemetry(r, status, clock - req[r].started, req[r].started,
                                          ClassifyProxyError(status, failed))
<1>1. clock - req[r].started \in Nat /\ req[r].started \in Nat
  BY ProxyAssumption DEF TypeOK, Handler, Flows, Flow
<1>2. ClassifyProxyError(status, failed) \in ErrorKind
  BY DEF ClassifyProxyError, ErrorKind
<1>3. entry \in Entry
  BY <1>1, <1>2 DEF BuildRequestTelemetry, Entry
<1>4. records \in Seq(Entry) /\ records' = Append(records, entry)
  BY DEF TypeOK, Entry, RecordTelemetry, Record
<1> QED BY <1>3, <1>4

\* The fields of a handler change one or two at a time.
LEMMA HandlerFields ==
    ASSUME NEW h \in Handler
    PROVE  /\ h = [pc |-> h.pc, started |-> h.started, resp |-> h.resp, read |-> h.read,
                   failed |-> h.failed]
           /\ h.started \in 0 .. MaxTime /\ h.resp \in Response /\ h.read \in 0 .. MaxChunks
           /\ h.failed \in BOOLEAN /\ h.resp.status \in Nat
           /\ \A pc \in {"idle", "do", "copy", "report", "return", "done"} :
                /\ [h EXCEPT !.pc = pc] \in Handler
                /\ \A now \in 0 .. MaxTime : [h EXCEPT !.pc = pc, !.started = now] \in Handler
                /\ \A resp \in Response :
                     /\ [h EXCEPT !.pc = pc, !.resp = resp] \in Handler
                     /\ [h EXCEPT !.pc = pc, !.resp = resp, !.failed = TRUE] \in Handler
                /\ [h EXCEPT !.pc = pc, !.failed = TRUE] \in Handler
           /\ \A n \in 0 .. MaxChunks : [h EXCEPT !.read = n] \in Handler
BY DEF Handler, Response

\* The handler of r.
LEMMA HandlerTyped ==
    ASSUME TypeOK, Flows, NEW r \in Requests,
           \/ Accept(r) \/ Step(r)
           \/ \E resp \in Responses : Respond(r, resp)
    PROVE  TypeOK'
<1>0. /\ req \in [Requests -> Handler] /\ req[r] \in Handler
      /\ clock \in 0 .. MaxTime /\ Responses \subseteq Response
  BY ProxyAssumption DEF TypeOK
<1>1. CASE Accept(r)
  <2>1. req' \in [Requests -> Handler]
    BY <1>0, <1>1, HandlerFields DEF Accept
  <2> QED BY <1>1, <2>1 DEF Accept, TypeOK, At
<1>2. ASSUME NEW resp \in Responses, Respond(r, resp) PROVE TypeOK'
  <2>1. req' \in [Requests -> Handler]
    BY <1>0, <1>2, HandlerFields DEF Respond
  <2> QED BY <1>2, <2>1 DEF Respond, TypeOK, At
<1>3. CASE Unreachable(r)
  <2>1. records' \in Seq(Entry)
    <3>1. RecordTelemetry(r, 502, TRUE)
      BY <1>3 DEF Unreachable
    <3>2. 502 \in Nat /\ TRUE \in BOOLEAN
      OBVIOUS
    <3> QED BY <3>1, <3>2, RecordTyped
  <2>2. req' \in [Requests -> Handler]
    <3>1. BadGateway \in Response
      BY ProxyAssumption DEF BadGateway, Response
    <3> QED BY <1>0, <1>3, <3>1, HandlerFields DEF Unreachable
  <2> QED BY <1>3, <2>1, <2>2 DEF Unreachable, TypeOK, At, Entry
<1>4. CASE CopyChunk(r)
  <2>1. req[r].read + 1 \in 0 .. MaxChunks
    <3>1. up[r].emitted \in 0 .. MaxChunks /\ req[r].read \in 0 .. MaxChunks
      BY <1>0, HandlerFields DEF TypeOK
    <3> QED BY <1>4, <3>1, ProxyAssumption DEF CopyChunk
  <2>2. req' \in [Requests -> Handler]
    BY <1>0, <1>4, <2>1, HandlerFields DEF CopyChunk
  <2>3. client' \in [Requests -> [state : {"waiting", "gone", "complete", "broken"},
                                  got : 0 .. MaxChunks]]
    BY <1>4, <2>1 DEF CopyChunk, Deliver, TypeOK
  <2> QED BY <1>4, <2>2, <2>3 DEF CopyChunk, TypeOK, At
<1>5. CASE CopyEOF(r)
  <2>1. req' \in [Requests -> Handler]
    BY <1>0, <1>5, HandlerFields DEF CopyEOF
  <2> QED BY <1>5, <2>1 DEF CopyEOF, TypeOK, At
<1>6. CASE CopyError(r)
  <2>1. req' \in [Requests -> Handler]
    BY <1>0, <1>6, HandlerFields DEF CopyError
  <2> QED BY <1>6, <2>1 DEF CopyError, TypeOK, At
<1>7. CASE Report(r)
  <2>1. records' \in Seq(Entry)
    <3>1. RecordTelemetry(r, req[r].resp.status, req[r].failed)
      BY <1>7 DEF Report
    <3>2. req[r].resp.status \in Nat /\ req[r].failed \in BOOLEAN
      BY <1>0, HandlerFields
    <3> QED BY <3>1, <3>2, RecordTyped
  <2>2. req' \in [Requests -> Handler]
    BY <1>0, <1>7, HandlerFields DEF Report
  <2> QED BY <1>7, <2>1, <2>2 DEF Report, TypeOK, At, Entry
<1>8. CASE Return(r)
  <2>1. req' \in [Requests -> Handler] /\ req[r].read \in 0 .. MaxChunks
    BY <1>0, <1>8, HandlerFields DEF Return
  <2>2. client' \in [Requests -> [state : {"waiting", "gone", "complete", "broken"},
                                  got : 0 .. MaxChunks]]
    BY <1>8, <2>1 DEF Return, TypeOK
  <2> QED BY <1>8, <2>1, <2>2 DEF Return, TypeOK, At
<1> QED BY <1>1, <1>2, <1>3, <1>4, <1>5, <1>6, <1>7, <1>8 DEF Step

Prompt(r) ==
    req[r].pc = "copy" /\ req[r].resp.sse /\ client[r].state = "waiting"
        => client[r].got = req[r].read

\* A step that concerns one request only.
LEMMA OneRequest ==
    ASSUME TypeOK, Flows, StreamsPromptly, NEW r \in Requests, clock' = clock,
           \A q \in Requests \ {r} : req'[q] = req[q] /\ up'[q] = up[q] /\ client'[q] = client[q],
           Flow(r)' /\ Prompt(r)'
    PROVE  Flows' /\ StreamsPromptly'
<1> SUFFICES ASSUME NEW q \in Requests PROVE Flow(q)' /\ Prompt(q)'
  BY DEF Flows, StreamsPromptly, Prompt
<1>1. Flow(q) /\ Prompt(q)
  BY DEF Flows, StreamsPromptly, Prompt
<1> QED BY <1>1 DEF Flow, Prompt, Gone

LEMMA HandlerFlows ==
    ASSUME TypeOK, Flows, StreamsPromptly, NEW r \in Requests,
           \/ Accept(r) \/ Step(r)
           \/ \E resp \in Responses : Respond(r, resp)
    PROVE  Flows' /\ StreamsPromptly'
<1> DEFINE h == req[r]
<1>0. /\ req \in [Requests -> Handler] /\ h \in Handler
      /\ Flow(r) /\ Prompt(r) /\ DOMAIN client = Requests /\ client[r].got \in Nat
      /\ up[r].emitted \in Nat /\ h.read \in Nat /\ h.started \in Nat /\ clock \in Nat
  BY ProxyAssumption DEF TypeOK, Flows, StreamsPromptly, Prompt, Handler
<1>1. CASE Accept(r)
  <2>1. /\ clock' = clock
        /\ \A q \in Requests \ {r} : req'[q] = req[q] /\ up'[q] = up[q] /\ client'[q] = client[q]
    BY <1>0, <1>1 DEF Accept, At
  <2>2. Flow(r)' /\ Prompt(r)'
    BY <1>0, <1>1 DEF Accept, At, Flow, Prompt, Gone
  <2> QED BY <2>1, <2>2, OneRequest
<1>2. ASSUME NEW resp \in Responses, Respond(r, resp) PROVE Flows' /\ StreamsPromptly'
  <2>1. /\ clock' = clock
        /\ \A q \in Requests \ {r} : req'[q] = req[q] /\ up'[q] = up[q] /\ client'[q] = client[q]
    BY <1>0, <1>2 DEF Respond, At
  <2>2. resp.size \in Nat
    BY ProxyAssumption DEF Response
  <2>3. /\ req'[r].pc = "copy" /\ req'[r].resp = resp /\ req'[r].read = h.read
        /\ req'[r].failed = h.failed /\ req'[r].started = h.started
    BY <1>0, <1>2 DEF Respond, At, Handler
  <2>4. h.pc = "do" /\ UNCHANGED <<clock, up, client>>
    BY <1>2 DEF Respond, At
  <2>5. Flow(r)' /\ Prompt(r)'
    BY <1>0, <2>2, <2>3, <2>4 DEF Flow, Prompt, Gone
  <2> QED BY <2>1, <2>5, OneRequest
<1>3. CASE Unreachable(r)
  <2>1. /\ clock' = clock
        /\ \A q \in Requests \ {r} : req'[q] = req[q] /\ up'[q] = up[q] /\ client'[q] = client[q]
    BY <1>0, <1>3 DEF Unreachable, BadGateway, At
  <2>2. Flow(r)' /\ Prompt(r)'
    BY <1>0, <1>3 DEF Unreachable, BadGateway, At, Flow, Prompt, Gone
  <2> QED BY <2>1, <2>2, OneRequest
<1>4. CASE CopyChunk(r)
  <2>1. /\ clock' = clock
        /\ \A q \in Requests \ {r} : req'[q] = req[q] /\ up'[q] = up[q] /\ client'[q] = client[q]
    BY <1>0, <1>4 DEF CopyChunk, Deliver, At
  <2>2. Flow(r)' /\ Prompt(r)'
    BY <1>0, <1>4 DEF CopyChunk, Deliver, At, Flow, Prompt, Gone
  <2> QED BY <2>1, <2>2, OneRequest
<1>5. CASE CopyEOF(r)
  <2>1. /\ clock' = clock
        /\ \A q \in Requests \ {r} : req'[q] = req[q] /\ up'[q] = up[q] /\ client'[q] = client[q]
    BY <1>0, <1>5 DEF CopyEOF, At
  <2>2. Flow(r)' /\ Prompt(r)'
    BY <1>0, <1>5 DEF CopyEOF, At, Flow, Prompt, Gone
  <2> QED BY <2>1, <2>2, OneRequest
<1>6. CASE CopyError(r)
  <2>1. /\ clock' = clock
        /\ \A q \in Requests \ {r} : req'[q] = req[q] /\ up'[q] = up[q] /\ client'[q] = client[q]
    BY <1>0, <1>6 DEF CopyError, At
  <2>2. Flow(r)' /\ Prompt(r)'
    BY <1>0, <1>6 DEF CopyError, At, Flow, Prompt, Gone
  <2> QED BY <2>1, <2>2, OneRequest
<1>7. CASE Report(r)
  <2>1. /\ clock' = clock
        /\ \A q \in Requests \ {r} : req'[q] = req[q] /\ up'[q] = up[q] /\ client'[q] = client[q]
    BY <1>0, <1>7 DEF Report, At
  <2>2. Flow(r)' /\ Prompt(r)'
    BY <1>0, <1>7 DEF Report, At, Flow, Prompt, Gone
  <2> QED BY <2>1, <2>2, OneRequest
<1>8. CASE Return(r)
  <2>1. /\ clock' = clock
        /\ \A q \in Requests \ {r} : req'[q] = req[q] /\ up'[q] = up[q] /\ client'[q] = client[q]
    BY <1>0, <1>8 DEF Return, At
  <2>2. Flow(r)' /\ Prompt(r)'
    BY <1>0, <1>8 DEF Return, At, Flow, Prompt, Gone
  <2> QED BY <2>1, <2>2, OneRequest
<1> QED BY <1>1, <1>2, <1>3, <1>4, <1>5, <1>6, <1>7, <1>8 DEF Step

\* The upstream and the client of r.
LEMMA OutsideFlows ==
    ASSUME TypeOK, Flows, StreamsPromptly, NEW r \in Requests,
           \/ UpstreamEmit(r) \/ UpstreamEnd(r) \/ UpstreamAbort(r)
           \/ BufferFull(r) \/ ClientLeaves(r)
    PROVE  TypeOK' /\ Flows' /\ StreamsPromptly'
<1> DEFINE h == req[r]
<1>0. /\ h \in Handler /\ Flow(r) /\ Prompt(r) /\ DOMAIN client = Requests /\ DOMAIN up = Requests
      /\ client[r].got \in Nat /\ up[r].emitted \in 0 .. MaxChunks /\ h.read \in 0 .. MaxChunks
      /\ h.resp.size \in 0 .. MaxChunks /\ h.started \in Nat /\ clock \in Nat
  BY ProxyAssumption DEF TypeOK, Flows, StreamsPromptly, Prompt, Handler, Response
<1>1. CASE UpstreamEmit(r)
  <2>1. /\ clock' = clock
        /\ \A q \in Requests \ {r} : req'[q] = req[q] /\ up'[q] = up[q] /\ client'[q] = client[q]
    BY <1>0, <1>1 DEF UpstreamEmit, Flowing
  <2>2. Flow(r)' /\ Prompt(r)'
    BY <1>0, <1>1 DEF UpstreamEmit, Flowing, Flow, Prompt, Gone
  <2>3. TypeOK'
    <3>1. up[r].emitted + 1 \in 0 .. MaxChunks
      BY <1>0, <1>1, ProxyAssumption DEF UpstreamEmit
    <3> QED BY <1>1, <3>1 DEF UpstreamEmit, TypeOK
  <2> QED BY <2>1, <2>2, <2>3, OneRequest
<1>2. CASE UpstreamEnd(r)
  <2>1. /\ clock' = clock
        /\ \A q \in Requests \ {r} : req'[q] = req[q] /\ up'[q] = up[q] /\ client'[q] = client[q]
    BY <1>0, <1>2 DEF UpstreamEnd, Flowing
  <2>2. Flow(r)' /\ Prompt(r)'
    BY <1>0, <1>2 DEF UpstreamEnd, Flowing, Flow, Prompt, Gone
  <2>3. TypeOK'
    BY <1>0, <1>2, ProxyAssumption DEF UpstreamEnd, Flowing, TypeOK
  <2> QED BY <2>1, <2>2, <2>3, OneRequest
<1>3. CASE UpstreamAbort(r)
  <2>1. /\ clock' = clock
        /\ \A q \in Requests \ {r} : req'[q] = req[q] /\ up'[q] = up[q] /\ client'[q] = client[q]
    BY <1>0, <1>3 DEF UpstreamAbort, Flowing
  <2>2. Flow(r)' /\ Prompt(r)'
    BY <1>0, <1>3 DEF UpstreamAbort, Flowing, Flow, Prompt, Gone
  <2>3. TypeOK'
    BY <1>0, <1>3, ProxyAssumption DEF UpstreamAbort, Flowing, TypeOK
  <2> QED BY <2>1, <2>2, <2>3, OneRequest
<1>4. CASE BufferFull(r)
  <2>1. /\ clock' = clock
        /\ \A q \in Requests \ {r} : req'[q] = req[q] /\ up'[q] = up[q] /\ client'[q] = client[q]
    BY <1>0, <1>4 DEF BufferFull
  <2>2. Flow(r)' /\ Prompt(r)'
    BY <1>0, <1>4 DEF BufferFull, Flow, Prompt, Gone
  <2>3. TypeOK'
    BY <1>0, <1>4, ProxyAssumption DEF BufferFull, TypeOK
  <2> QED BY <2>1, <2>2, <2>3, OneRequest
<1>5. CASE ClientLeaves(r)
  <2>1. /\ clock' = clock
        /\ \A q \in Requests \ {r} : req'[q] = req[q] /\ up'[q] = up[q] /\ client'[q] = client[q]
    BY <1>0, <1>5 DEF ClientLeaves
  <2>2. Flow(r)' /\ Prompt(r)'
    BY <1>0, <1>5 DEF ClientLeaves, Flow, Prompt, Gone
  <2>3. TypeOK'
    BY <1>0, <1>5, ProxyAssumption DEF ClientLeaves, TypeOK
  <2> QED BY <2>1, <2>2, <2>3, OneRequest
<1> QED BY <1>1, <1>2, <1>3, <1>4, <1>5

-----------------------------------------------------------------------------
(* What a step does to the records.                                          *)

LEMMA EntryTyped ==
    ASSUME TypeOK
    PROVE  /\ pruned \subseteq Requests /\ records \in Seq(Entry)
           /\ \A i \in DOMAIN records : records[i].req \in Requests /\ records[i].latency \in Nat
           /\ clock \in Nat /\ \A r \in Requests : req[r].started \in Nat
<1>1. pruned \subseteq Requests /\ records \in Seq(Entry)
  BY DEF TypeOK, Entry
<1>3. clock \in Nat /\ \A r \in Requests : req[r].started \in Nat
  BY ProxyAssumption DEF TypeOK, Handler
<1>2. \A i \in DOMAIN records : records[i] \in Entry
  BY <1>1
<1> QED BY <1>1, <1>2, <1>3 DEF Entry

\* A step that reports nothing, and takes nothing back of what was reported.
LEMMA NoReport ==
    ASSUME TypeOK, OneRecord, RecordsAgree, UNCHANGED <<records, pruned>>,
           clock' \in Nat, clock <= clock',
           \A r \in Requests : req'[r].pc \in Final <=> Through(r),
           \A r \in Requests : Through(r) => /\ req'[r].resp = req[r].resp
                                             /\ req'[r].failed = req[r].failed
                                             /\ req'[r].started = req[r].started
    PROVE  OneRecord' /\ RecordsAgree'
<1>1. /\ pruned \subseteq Requests
      /\ \A i \in DOMAIN records : records[i].req \in Requests /\ records[i].latency \in Nat
      /\ clock \in Nat /\ \A r \in Requests : req[r].started \in Nat
  BY EntryTyped
<1>2. OneRecord'
  BY <1>1 DEF OneRecord, Through
<1>3. RecordsAgree'
  <2> SUFFICES ASSUME NEW i \in DOMAIN records'
               PROVE  LET h == req'[records'[i].req]
                      IN /\ records'[i].status = h.resp.status
                         /\ records'[i].kind = ClassifyProxyError(h.resp.status, h.failed)
                         /\ records'[i].latency <= clock' - h.started
    BY DEF RecordsAgree, ClassifyProxyError
  <2> DEFINE r == records[i].req
  <2>1. r \in Requests /\ Through(r)
    BY <1>1 DEF OneRecord
  <2>2. req'[r].resp = req[r].resp /\ req'[r].failed = req[r].failed /\ req'[r].started = req[r].started
    BY <2>1
  <2>3. records[i].latency <= clock' - req[r].started
    BY <1>1, <2>1 DEF RecordsAgree
  <2> QED BY <2>2, <2>3 DEF RecordsAgree
<1> QED BY <1>2, <1>3

\* The step with which the handler of r reports.
LEMMA OneReport ==
    ASSUME TypeOK, OneRecord, RecordsAgree, NEW r \in Requests, pruned' = pruned,
           clock' = clock, req'[r].started = req[r].started,
           RecordTelemetry(r, req'[r].resp.status, req'[r].failed),
           ~Through(r), req'[r].pc \in Final, \A q \in Requests \ {r} : req'[q] = req[q]
    PROVE  OneRecord' /\ RecordsAgree'
<1> DEFINE entry == BuildRequestTelemetry(r, req'[r].resp.status, clock - req[r].started,
                        req[r].started,
                        ClassifyProxyError(req'[r].resp.status, req'[r].failed))
           n == Len(records) + 1
<1>1. /\ pruned \subseteq Requests /\ records \in Seq(Entry)
      /\ \A i \in DOMAIN records : records[i].req \in Requests
  BY EntryTyped
<1>2. /\ entry.req = r /\ entry.status = req'[r].resp.status
      /\ entry.kind = ClassifyProxyError(req'[r].resp.status, req'[r].failed)
      /\ entry.latency = clock - req[r].started
  BY DEF BuildRequestTelemetry
<1>3. records' = Append(records, entry)
  BY DEF RecordTelemetry, Record
<1> HIDE DEF entry
<1>4. /\ n \in Nat /\ DOMAIN records' = DOMAIN records \cup {n} /\ n \notin DOMAIN records
      /\ records'[n] = entry /\ \A i \in DOMAIN records : records'[i] = records[i]
  BY <1>1, <1>3
<1> HIDE DEF n
<1>5. \A i \in DOMAIN records : records[i].req # r /\ records[i].req \in Requests \ {r}
  BY <1>1 DEF OneRecord
<1>6. \A q \in Requests \ {r} : req'[q].pc \in Final <=> Through(q)
  BY DEF Through
<1>7. r \notin pruned
  BY DEF OneRecord
<1>8. OneRecord'
  <2>1. ASSUME NEW i \in DOMAIN records', NEW j \in DOMAIN records',
               records'[i].req = records'[j].req
        PROVE  i = j
    BY <1>2, <1>4, <1>5, <2>1 DEF OneRecord
  <2>2. ASSUME NEW i \in DOMAIN records'
        PROVE  records'[i].req \notin pruned' /\ req'[records'[i].req].pc \in Final
    <3>1. CASE i = n
      BY <1>2, <1>4, <1>7, <3>1
    <3>2. CASE i \in DOMAIN records
      BY <1>4, <1>5, <1>6, <3>2 DEF OneRecord
    <3> QED BY <1>4, <3>1, <3>2
  <2>3. ASSUME NEW q \in Requests, req'[q].pc \in Final, q \notin pruned'
        PROVE  \E i \in DOMAIN records' : records'[i].req = q
    BY <1>2, <1>4, <1>6, <2>3 DEF OneRecord
  <2>4. \A q \in pruned' : req'[q].pc \in Final
    BY <1>1, <1>6, <1>7 DEF OneRecord
  <2> QED BY <2>1, <2>2, <2>3, <2>4 DEF OneRecord, Through
<1>9. RecordsAgree'
  <2> SUFFICES ASSUME NEW i \in DOMAIN records'
               PROVE  LET h == req'[records'[i].req]
                      IN /\ records'[i].status = h.resp.status
                         /\ records'[i].kind = ClassifyProxyError(h.resp.status, h.failed)
                         /\ records'[i].latency <= clock' - h.started
    BY DEF RecordsAgree, ClassifyProxyError
  <2>1. CASE i = n
    <3>1. clock - req[r].started <= clock - req[r].started
      BY EntryTyped
    <3> QED BY <1>2, <1>4, <2>1, <3>1
  <2>2. CASE i \in DOMAIN records
    BY <1>4, <1>5, <2>2 DEF RecordsAgree
  <2> QED BY <1>4, <2>1, <2>2
<1> QED BY <1>8, <1>9

LEMMA HandlerRecords ==
    ASSUME ProxyInv, NEW r \in Requests,
           \/ Accept(r) \/ Step(r)
           \/ \E resp \in Responses : Respond(r, resp)
    PROVE  OneRecord' /\ RecordsAgree'
<1>0. /\ TypeOK /\ OneRecord /\ RecordsAgree
      /\ req \in [Requests -> Handler] /\ req[r] \in Handler
      /\ clock \in Nat /\ clock <= clock
  BY EntryTyped DEF ProxyInv, TypeOK
<1>1. CASE Accept(r)
  BY <1>0, <1>1, NoReport DEF Accept, At, Through, Final, Handler
<1>2. ASSUME NEW resp \in Responses, Respond(r, resp) PROVE OneRecord' /\ RecordsAgree'
  BY <1>0, <1>2, NoReport DEF Respond, At, Through, Final, Handler
<1>3. CASE Unreachable(r)
  <2>1. /\ req'[r].resp.status = 502 /\ req'[r].failed = TRUE
        /\ ~Through(r) /\ req'[r].pc \in Final /\ pruned' = pruned
        /\ clock' = clock /\ req'[r].started = req[r].started
        /\ \A q \in Requests \ {r} : req'[q] = req[q]
    BY <1>0, <1>3 DEF Unreachable, At, Through, Final, Handler, BadGateway
  <2>2. RecordTelemetry(r, req'[r].resp.status, req'[r].failed)
    BY <1>3, <2>1 DEF Unreachable
  <2> QED BY <1>0, <2>1, <2>2, OneReport
<1>4. CASE CopyChunk(r)
  BY <1>0, <1>4, NoReport DEF CopyChunk, At, Through, Final, Handler
<1>5. CASE CopyEOF(r)
  BY <1>0, <1>5, NoReport DEF CopyEOF, At, Through, Final, Handler
<1>6. CASE CopyError(r)
  BY <1>0, <1>6, NoReport DEF CopyError, At, Through, Final, Handler
<1>7. CASE Report(r)
  <2>1. /\ req'[r].resp = req[r].resp /\ req'[r].failed = req[r].failed
        /\ ~Through(r) /\ req'[r].pc \in Final /\ pruned' = pruned
        /\ clock' = clock /\ req'[r].started = req[r].started
        /\ \A q \in Requests \ {r} : req'[q] = req[q]
    BY <1>0, <1>7 DEF Report, At, Through, Final, Handler
  <2>2. RecordTelemetry(r, req'[r].resp.status, req'[r].failed)
    BY <1>7, <2>1 DEF Report
  <2> QED BY <1>0, <2>1, <2>2, OneReport
<1>8. CASE Return(r)
  BY <1>0, <1>8, NoReport DEF Return, At, Through, Final, Handler
<1> QED BY <1>1, <1>2, <1>3, <1>4, <1>5, <1>6, <1>7, <1>8 DEF Step

\* A Cleanup keeps a part of the records in their order, confirmed or not.
LEMMA PruneKeeps ==
    ASSUME TypeOK, NEW confirm \in BOOLEAN, Prune(confirm)
    PROVE  /\ records' \in Seq(Entry)
           /\ \E e : KeepsLatest(e, records', records, clock)
<1>1. records \in Seq(Entry)
  BY EntryTyped
<1>2. CASE confirm
  <2>1. records' = ApplyRetentionPolicy(records, clock)
    BY <1>2 DEF Prune, Cleanup
  <2> QED BY <1>1, <2>1, Retention
<1>3. CASE ~confirm
  <2>1. records' = records
    BY <1>3 DEF Prune, Cleanup
  <2>2. KeepsLatest([j \in DOMAIN records |-> j], records, records, clock)
    BY <1>1 DEF KeepsLatest
  <2> QED BY <1>1, <2>1, <2>2
<1> QED BY <1>2, <1>3

LEMMA PruneRecords ==
    ASSUME ProxyInv, NEW confirm \in BOOLEAN, Prune(confirm)
    PROVE  ProxyInv'
<1> DEFINE before == {records[i].req : i \in DOMAIN records}
           after == {records'[i].req : i \in DOMAIN records'}
<1>1. TypeOK /\ Flows /\ StreamsPromptly /\ OneRecord /\ RecordsAgree
  BY DEF ProxyInv
<1>2. /\ UNCHANGED <<clock, req, up, client>> /\ records' \in Seq(Entry)
      /\ pruned' = pruned \cup (before \ after)
  BY <1>1, PruneKeeps DEF Prune
<1>3. PICK e : KeepsLatest(e, records', records, clock)
  BY <1>1, PruneKeeps
<1>4. before \subseteq Requests
  BY <1>1, EntryTyped
<1>5. TypeOK'
  BY <1>1, <1>2, <1>4 DEF TypeOK, Entry
<1>6. Flows' /\ StreamsPromptly'
  BY <1>1, <1>2 DEF Flows, Flow, StreamsPromptly, Gone
<1>7. \A i \in DOMAIN records' : e[i] \in DOMAIN records /\ records'[i] = records[e[i]]
  BY <1>3 DEF KeepsLatest
<1>8. OneRecord'
  <2>1. ASSUME NEW i \in DOMAIN records', NEW j \in DOMAIN records',
               records'[i].req = records'[j].req
        PROVE  i = j
    <3>1. e[i] = e[j]
      BY <1>1, <1>7, <2>1 DEF OneRecord
    <3>2. i \in Nat /\ j \in Nat /\ e[i] \in Nat
      BY <1>2, <1>1, <1>7, EntryTyped
    <3>3. ~(i < j) /\ ~(j < i)
      BY <1>3, <3>1, <3>2 DEF KeepsLatest
    <3> QED BY <3>2, <3>3
  <2>2. ASSUME NEW i \in DOMAIN records'
        PROVE  records'[i].req \notin pruned' /\ req'[records'[i].req].pc \in Final
    <3>1. records'[i].req \in after
      OBVIOUS
    <3> HIDE DEF after
    <3> QED BY <1>1, <1>2, <1>7, <3>1 DEF OneRecord, Through
  <2>3. ASSUME NEW q \in Requests, req'[q].pc \in Final, q \notin pruned'
        PROVE  \E i \in DOMAIN records' : records'[i].req = q
    <3>1. q \in before
      BY <1>1, <1>2, <2>3 DEF OneRecord, Through
    <3>2. q \in after
      BY <1>2, <2>3, <3>1
    <3> QED BY <3>2
  <2>4. \A q \in pruned' : req'[q].pc \in Final
    BY <1>1, <1>2 DEF OneRecord, Through
  <2> QED BY <2>1, <2>2, <2>3, <2>4 DEF OneRecord, Through
<1>9. RecordsAgree'
  BY <1>1, <1>2, <1>7 DEF RecordsAgree
<1> QED BY <1>5, <1>6, <1>8, <1>9 DEF ProxyInv

LEMMA ProxyInductive == ProxyInv /\ [Next]_vars => ProxyInv'
<1> SUFFICES ASSUME ProxyInv, [Next]_vars PROVE ProxyInv'
  OBVIOUS
<1>0. TypeOK /\ Flows /\ StreamsPromptly /\ OneRecord /\ RecordsAgree
  BY DEF ProxyInv
<1>1. ASSUME NEW r \in Requests, Accept(r) \/ Step(r) \/ \E resp \in Responses : Respond(r, resp)
      PROVE  ProxyInv'
  BY <1>0, <1>1, HandlerTyped, HandlerFlows, HandlerRecords DEF ProxyInv
<1>2. ASSUME NEW r \in Requests,
             \/ UpstreamEmit(r) \/ UpstreamEnd(r) \/ UpstreamAbort(r)
             \/ BufferFull(r) \/ ClientLeaves(r)
      PROVE  ProxyInv'
  <2>1. UNCHANGED <<records, pruned, req>>
    BY <1>2 DEF UpstreamEmit, UpstreamEnd, UpstreamAbort, BufferFull, ClientLeaves
  <2>2. OneRecord' /\ RecordsAgree'
    <3>1. clock' = clock /\ clock \in Nat /\ clock <= clock
      BY <1>0, <1>2, EntryTyped DEF UpstreamEmit, UpstreamEnd, UpstreamAbort, BufferFull, ClientLeaves
    <3> QED BY <1>0, <2>1, <3>1, NoReport DEF Through
  <2> QED BY <1>0, <1>2, <2>2, OutsideFlows DEF ProxyInv
<1>3. ASSUME NEW confirm \in BOOLEAN, Prune(confirm) PROVE ProxyInv'
  BY <1>3, PruneRecords
<1>4. CASE Tick
  <2>1. clock' = clock + 1 /\ clock' \in 1 .. MaxTime /\ clock \in Nat
        /\ UNCHANGED <<records, req, up, client, pruned>>
    BY <1>0, <1>4, ProxyAssumption DEF Tick, TypeOK
  <2>2. TypeOK'
    BY <1>0, <2>1 DEF TypeOK
  <2>3. Flows' /\ StreamsPromptly'
    <3>1. \A r \in Requests : req[r].started \in Nat
      BY <1>0, ProxyAssumption DEF TypeOK, Handler
    <3> QED BY <1>0, <2>1, <3>1 DEF Flows, Flow, StreamsPromptly, Gone
  <2>4. OneRecord' /\ RecordsAgree'
    <3>1. clock' \in Nat /\ clock <= clock'
      BY <2>1
    <3> QED BY <1>0, <2>1, <3>1, NoReport DEF Through
  <2> QED BY <2>2, <2>3, <2>4 DEF ProxyInv
<1>5. CASE UNCHANGED vars
  BY <1>0, <1>5 DEF vars, ProxyInv, TypeOK, Flows, Flow, StreamsPromptly, Gone, OneRecord,
                    RecordsAgree, Through
<1> QED BY <1>1, <1>2, <1>3, <1>4, <1>5 DEF Next

LEMMA ProxyInvariance == Spec => []ProxyInv
BY InitProxy, ProxyInductive, PTL DEF Spec

-----------------------------------------------------------------------------
(* What follows.                                                             *)

LEMMA CountsOnce == ProxyInv => RecordedOnce
<1> SUFFICES ASSUME ProxyInv, NEW r \in Requests
             PROVE  Cardinality(Recorded(r)) + (IF r \in pruned THEN 1 ELSE 0)
                      = IF Through(r) THEN 1 ELSE 0
  BY DEF RecordedOnce, Through, Final
<1>0. OneRecord
  BY DEF ProxyInv
<1>1. CASE Through(r) /\ r \notin pruned
  <2>1. PICK i \in DOMAIN records : records[i].req = r
    BY <1>0, <1>1 DEF OneRecord
  <2>2. Recorded(r) = {i}
    BY <1>0, <2>1 DEF OneRecord, Recorded
  <2>3. Cardinality({i}) = 1
    BY FS_Singleton
  <2> QED BY <1>1, <2>2, <2>3
<1>2. CASE ~Through(r) \/ r \in pruned
  <2>1. Recorded(r) = {} /\ (r \in pruned <=> Through(r))
    BY <1>0, <1>2 DEF OneRecord, Recorded
  <2> QED BY <2>1, FS_EmptySet
<1> QED BY <1>1, <1>2

LEMMA TellsTruncation == ProxyInv => TruncationRecorded
<1> SUFFICES ASSUME ProxyInv, NEW i \in DOMAIN records
             PROVE  LET r == records[i].req
                    IN /\ records[i].status = req[r].resp.status
                       /\ req[r].pc = "done" /\ client[r].state # "gone"
                            /\ client[r].got < req[r].resp.size => records[i].kind = "proxy_error"
                       /\ records[i].kind = "none" => up[r].state = "eof" /\ req[r].resp.status < 500
  BY DEF TruncationRecorded
<1> DEFINE r == records[i].req
           h == req[r]
<1>1. TypeOK /\ Flows /\ OneRecord /\ RecordsAgree
  BY DEF ProxyInv
<1>2. r \in Requests /\ Through(r)
  BY <1>1, EntryTyped DEF OneRecord
<1>3. records[i].status = h.resp.status
      /\ records[i].kind = ClassifyProxyError(h.resp.status, h.failed)
  BY <1>1 DEF RecordsAgree
<1>4. h.failed \in BOOLEAN /\ h.resp.status \in Nat /\ h.resp.size \in Nat
  <2>1. h \in Handler
    BY <1>1, <1>2 DEF TypeOK
  <2> HIDE DEF h
  <2>2. h.failed \in BOOLEAN /\ h.resp \in Response
    BY <2>1 DEF Handler
  <2> QED BY <2>2, ProxyAssumption DEF Response
<1>5. CASE h.failed
  BY <1>3, <1>5 DEF ClassifyProxyError
<1>6. CASE ~h.failed
  <2>1. up[r].state = "eof" /\ h.read = h.resp.size
    BY <1>1, <1>2, <1>6 DEF Flows, Flow, Through, Final
  <2>2. h.pc = "done" /\ client[r].state # "gone" => client[r].got = h.resp.size
    BY <1>1, <1>2, <2>1 DEF Flows, Flow, Gone
  <2>3. records[i].kind = "none" => h.resp.status < 500
    BY <1>3, <1>4, <1>6 DEF ClassifyProxyError
  <2> QED BY <1>3, <1>4, <2>1, <2>2, <2>3
<1> QED BY <1>4, <1>5, <1>6

\* The requests that the metrics are about.
Reported == {r \in Requests : Through(r)} \ pruned

\* Records and requests correspond one to one.
LEMMA CountRecords ==
    ASSUME TypeOK, OneRecord, NEW S \in SUBSET DOMAIN records
    PROVE  /\ IsFiniteSet(S) /\ IsFiniteSet({records[i].req : i \in S})
           /\ Cardinality(S) \in Nat
           /\ Cardinality(S) = Cardinality({records[i].req : i \in S})
<1> DEFINE T == {records[i].req : i \in S}
           f == [i \in S |-> records[i].req]
<1>1. IsFiniteSet(S)
  <2>1. DOMAIN records = 1 .. Len(records) /\ Len(records) \in Int
    BY EntryTyped
  <2> QED BY <2>1, FS_Interval, FS_Subset
<1>2. f \in Bijection(S, T)
  <2>1. f \in [S -> T] /\ \A t \in T : \E i \in S : f[i] = t
    OBVIOUS
  <2>2. \A i, j \in S : f[i] = f[j] => i = j
    BY DEF OneRecord
  <2> HIDE DEF f, T
  <2> QED BY <2>1, <2>2 DEF Bijection, Injection, Surjection, IsInjective
<1> HIDE DEF f, T
<1>3. IsFiniteSet(T) /\ Cardinality(T) = Cardinality(S)
  BY <1>1, <1>2, FS_Bijection DEF ExistsBijection
<1>4. Cardinality(S) \in Nat
  BY <1>1, FS_CardinalityType
<1> QED BY <1>1, <1>3, <1>4 DEF T

LEMMA RecordsReported ==
    ASSUME TypeOK, OneRecord
    PROVE  {records[i].req : i \in DOMAIN records} = Reported
BY EntryTyped DEF OneRecord, Reported

\* What a record tells of its request.
LEMMA RecordTells ==
    ASSUME ProxyInv, NEW i \in DOMAIN records, NEW r, r = records[i].req
    PROVE  /\ r \in Reported /\ records[i].status = req[r].resp.status
           /\ records[i].latency \in Nat /\ records[i].latency <= clock - req[r].started
           /\ clock - req[r].started \in Nat
           /\ up[r].state # "eof" \/ req[r].resp.status >= 500 => records[i].kind # "none"
           /\ records[i].kind # "none" =>
                up[r].state # "eof" \/ req[r].resp.status >= 500 \/ Gone(r)
<1>1. TypeOK /\ Flows /\ OneRecord /\ RecordsAgree
  BY DEF ProxyInv
<1>2. r \in Reported /\ r \in Requests /\ Through(r)
  BY <1>1, RecordsReported, EntryTyped DEF OneRecord
<1>3. /\ records[i].status = req[r].resp.status
      /\ records[i].kind = ClassifyProxyError(req[r].resp.status, req[r].failed)
      /\ records[i].latency <= clock - req[r].started
  BY <1>1 DEF RecordsAgree
<1>4. /\ records[i].latency \in Nat /\ clock \in Nat /\ req[r].started \in Nat
      /\ req[r].started <= clock
  BY <1>1, <1>2, EntryTyped DEF Flows, Flow
<1>5. req[r].failed \in BOOLEAN /\ req[r].resp.status \in Nat
  <2>1. req[r] \in Handler
    BY <1>1, <1>2 DEF TypeOK
  <2> QED BY <2>1, HandlerFields
<1>6. ~req[r].failed => up[r].state = "eof"
  BY <1>1, <1>2 DEF Flows, Flow, Through, Final
<1>7. req[r].failed => Gone(r) \/ up[r].state # "eof"
  BY <1>1, <1>2 DEF Flows, Flow
<1>8. CASE req[r].failed
  BY <1>2, <1>3, <1>4, <1>7, <1>8 DEF ClassifyProxyError
<1>9. CASE ~req[r].failed
  <2>1. records[i].kind = IF req[r].resp.status >= 500 THEN "upstream_status" ELSE "none"
    BY <1>3, <1>5, <1>9 DEF ClassifyProxyError
  <2> QED BY <1>2, <1>3, <1>4, <1>6, <1>9, <2>1
<1> QED BY <1>5, <1>8, <1>9

\* The average latency is no longer than some request took.
LEMMA AverageTells ==
    ASSUME ProxyInv, records # <<>>
    PROVE  \E r \in Reported :
              MapThenSumSet(LAMBDA i : records[i].latency, DOMAIN records) \div Len(records)
                <= clock - req[r].started
<1> DEFINE S == DOMAIN records
           latency == [i \in S |-> records[i].latency]
           total == SumOver(latency, S)
           n == Len(records)
           took == [i \in S |-> clock - req[records[i].req].started]
<1>1. /\ S = 1 .. n /\ n \in Nat \ {0} /\ IsFiniteSet(S) /\ Cardinality(S) = n
  <2>1. records \in Seq(Entry)
    BY EntryTyped DEF ProxyInv
  <2>2. S = 1 .. n /\ n \in Nat \ {0}
    BY <2>1
  <2> QED BY <2>2, FS_Interval
<1>2. MapThenSumSet(LAMBDA i : records[i].latency, S) = total
  BY DEF SumOver, MapThenSumSet, MapThenFoldSet
<1>3. ASSUME NEW i \in S
      PROVE  /\ records[i].req \in Reported /\ took[i] = clock - req[records[i].req].started
             /\ latency[i] \in Nat /\ took[i] \in Nat /\ latency[i] <= took[i]
  BY <1>3, RecordTells
<1>4. PICK F : IsSum(F, S, latency) /\ total = F[S]
  BY <1>1, SumOfMap
<1>5. total \in Nat
  BY <1>1, <1>3, <1>4, SumNat
<1>6. SUFFICES \E i \in S : total \div n <= took[i]
  BY <1>2, <1>3
<1> HIDE DEF S, latency, total, n, took
<1>7. SUFFICES ASSUME \A i \in S : ~(total \div n <= took[i]) PROVE FALSE
  OBVIOUS
<1>8. total \div n \in Nat
  BY <1>1, <1>5
<1> DEFINE q == total \div n
           b == q - 1
<1>9. b \in Nat /\ \A i \in S : latency[i] \in Nat /\ latency[i] <= b
  <2>1. q \in Nat /\ \A i \in S : took[i] < q
    BY <1>3, <1>7, <1>8
  <2> HIDE DEF q
  <2>2. 1 \in S
    BY <1>1
  <2>3. 1 <= q
    BY <1>3, <2>1, <2>2
  <2> QED BY <1>3, <2>1, <2>3
<1>10. total <= n * b
  <2> HIDE DEF b
  <2> QED BY <1>1, <1>4, <1>9, SumBound
<1>11. q <= b
  <2> HIDE DEF b
  <2> QED BY <1>1, <1>5, <1>9, <1>10, DivBound
<1> QED BY <1>8, <1>11

\* As many records carry a status as reported requests were answered with it.
LEMMA CountsAgree ==
    ASSUME ProxyInv, NEW s
    PROVE  Cardinality({i \in DOMAIN records : records[i].status = s})
             = Cardinality({r \in Reported : req[r].resp.status = s})
<1> DEFINE S == {i \in DOMAIN records : records[i].status = s}
<1>1. {records[i].req : i \in S} = {r \in Reported : req[r].resp.status = s}
  <2>1. \A i \in DOMAIN records : records[i].req \in Reported /\ records[i].status = req[records[i].req].resp.status
    BY RecordTells
  <2>2. \A r \in Reported : \E i \in DOMAIN records : records[i].req = r
    BY RecordsReported DEF ProxyInv
  <2> QED BY <2>1, <2>2
<1>2. S \in SUBSET DOMAIN records
  OBVIOUS
<1> HIDE DEF S
<1>3. Cardinality(S) = Cardinality({records[i].req : i \in S})
  BY <1>2, CountRecords DEF ProxyInv
<1> QED BY <1>1, <1>3 DEF S

\* The errors of the metrics are the requests that went wrong, and some whose client left.
LEMMA ErrorsAgree ==
    ASSUME ProxyInv
    PROVE  LET bad == {r \in Reported : up[r].state # "eof" \/ req[r].resp.status >= 500}
               errors == Cardinality({i \in DOMAIN records : records[i].kind # "none"})
           IN /\ Cardinality(bad) <= errors
              /\ errors <= Cardinality(bad \cup {r \in Reported : Gone(r)})
<1> DEFINE bad == {r \in Reported : up[r].state # "eof" \/ req[r].resp.status >= 500}
           left == bad \cup {r \in Reported : Gone(r)}
           S == {i \in DOMAIN records : records[i].kind # "none"}
           T == {records[i].req : i \in S}
<1>1. bad \subseteq T
  <2> SUFFICES ASSUME NEW r \in bad PROVE r \in T
    OBVIOUS
  <2>1. PICK i \in DOMAIN records : records[i].req = r
    BY RecordsReported DEF ProxyInv
  <2>2. records[i].kind # "none"
    BY <2>1, RecordTells
  <2> QED BY <2>1, <2>2
<1>2. T \subseteq left /\ left \subseteq Reported
  <2> SUFFICES ASSUME NEW i \in S PROVE records[i].req \in left
    OBVIOUS
  <2> QED BY RecordTells
<1>3. IsFiniteSet(Reported)
  BY RecordsReported, CountRecords DEF ProxyInv
<1>4. S \in SUBSET DOMAIN records
  OBVIOUS
<1> HIDE DEF bad, left, S
<1>5. IsFiniteSet(T) /\ Cardinality(S) = Cardinality(T)
  BY <1>4, CountRecords DEF ProxyInv
<1> HIDE DEF T
<1>6. IsFiniteSet(left)
  BY <1>2, <1>3, FS_Subset
<1>7. Cardinality(bad) <= Cardinality(T)
  BY <1>1, <1>5, FS_Subset
<1>8. Cardinality(T) <= Cardinality(left)
  BY <1>2, <1>6, FS_Subset
<1> QED BY <1>5, <1>7, <1>8 DEF bad, left, S

\* The failures by kind add up to the errors.
LEMMA KindsAddUp ==
    ASSUME ProxyInv,
           NEW failed, failed = {i \in DOMAIN records : records[i].kind # "none"},
           NEW failures,
           failures = [k \in {records[i].kind : i \in failed} |->
                          Cardinality({i \in failed : records[i].kind = k})]
    PROVE  MapThenSumSet(LAMBDA k : failures[k], DOMAIN failures) = Cardinality(failed)
<1> DEFINE kind == [i \in failed |-> records[i].kind]
           K == DOMAIN failures
<1>1. \A i \in failed : kind[i] \in K
  OBVIOUS
<1>2. \A k \in K : failures[k] = Cardinality({i \in failed : kind[i] = k})
  <2> SUFFICES ASSUME NEW k \in K
               PROVE  Cardinality({i \in failed : records[i].kind = k})
                        = Cardinality({i \in failed : kind[i] = k})
    OBVIOUS
  <2>1. {i \in failed : records[i].kind = k} = {i \in failed : kind[i] = k}
    OBVIOUS
  <2> QED BY <2>1
<1>3. IsFiniteSet(failed)
  BY CountRecords DEF ProxyInv
<1>4. IsFiniteSet(K)
  <2>1. kind \in Surjection(failed, K)
    BY DEF Surjection
  <2> QED BY <1>3, <2>1, FS_Surjection
<1> HIDE DEF kind, K
<1>5. PICK F : IsSum(F, K, failures) /\ SumOver(failures, K) = F[K]
  BY <1>4, SumOfMap
<1>6. F[K] = Cardinality(failed)
  <2>1. IsCount(failures, failed, kind, K)
    BY <1>1, <1>2 DEF IsCount
  <2> QED BY <1>3, <1>4, <1>5, <2>1, SumKinds, Zenon
<1>7. MapThenSumSet(LAMBDA k : failures[k], DOMAIN failures) = SumOver(failures, K)
  BY DEF SumOver, K
<1> QED BY <1>5, <1>6, <1>7

LEMMA TellsMetrics == ProxyInv => MetricsHonest
<1> SUFFICES ASSUME ProxyInv PROVE MetricsHonest
  OBVIOUS
<1> DEFINE all == DOMAIN records
           failed == {i \in all : records[i].kind # "none"}
           failures == [k \in {records[i].kind : i \in failed} |->
                          Cardinality({i \in failed : records[i].kind = k})]
           statuses == [s \in {records[i].status : i \in all} |->
                          Cardinality({i \in all : records[i].status = s})]
           total == MapThenSumSet(LAMBDA i : records[i].latency, all)
           latency == IF records = <<>> THEN 0 ELSE total \div Len(records)
           metrics == MetricsFromTelemetry(records)
           bad == {r \in Reported : up[r].state # "eof" \/ req[r].resp.status >= 500}
<1>1. /\ metrics.requests = Len(records) /\ metrics.errors = Cardinality(failed)
      /\ metrics.latency = latency /\ metrics.statuses = statuses /\ metrics.failures = failures
  BY DEF MetricsFromTelemetry
<1>2. Reported = {r \in Requests : req[r].pc \in {"return", "done"}} \ pruned
  BY DEF Reported, Through, Final
<1>3. Len(records) = Cardinality(Reported)
  <2>1. all = 1 .. Len(records) /\ Len(records) \in Nat
    BY EntryTyped DEF ProxyInv
  <2>2. \A n \in Nat : Cardinality(1 .. n) = n
    BY FS_Interval
  <2> QED BY <2>1, <2>2, CountRecords, RecordsReported DEF ProxyInv
<1>4. statuses = [s \in {req[r].resp.status : r \in Reported} |->
                     Cardinality({r \in Reported : req[r].resp.status = s})]
  <2>1. \A i \in all : records[i].req \in Reported /\ records[i].status = req[records[i].req].resp.status
    BY RecordTells
  <2>2. \A r \in Reported : \E i \in all : records[i].req = r
    BY RecordsReported DEF ProxyInv
  <2>3. {records[i].status : i \in all} = {req[r].resp.status : r \in Reported}
    BY <2>1, <2>2
  <2> QED BY <2>3, CountsAgree
<1>5. /\ Cardinality(bad) <= Cardinality(failed)
      /\ Cardinality(failed) <= Cardinality(bad \cup {r \in Reported : Gone(r)})
  BY ErrorsAgree
<1>6. Cardinality(failed) = MapThenSumSet(LAMBDA k : failures[k], DOMAIN failures)
  BY KindsAddUp
<1>7. IF Reported = {} THEN latency = 0
      ELSE \E r \in Reported : latency <= clock - req[r].started
  <2>1. records = <<>> <=> Reported = {}
    <3>1. records \in Seq(Entry) /\ {records[i].req : i \in all} = Reported
      BY RecordsReported, EntryTyped DEF ProxyInv
    <3>2. records = <<>> <=> all = {}
      BY <3>1
    <3>3. all = {} <=> Reported = {}
      BY <3>1
    <3> QED BY <3>2, <3>3
  <2> QED BY <2>1, AverageTells
<1> HIDE DEF metrics, failures, statuses, latency, failed
<1> QED BY <1>1, <1>2, <1>3, <1>4, <1>5, <1>6, <1>7 DEF MetricsHonest, metrics

\* Every handler's bookkeeping, the upstream's and the client's side of it and the
\* records have the types that the model gives them (upstream.go, telemetry.go).
THEOREM ProxyTyped == Spec => []TypeOK
BY ProxyInvariance, PTL DEF ProxyInv

\* However many requests run, fail, are cancelled and are pruned at the same time, a
\* request whose handler is through is on record once, or was until a Cleanup, and no
\* other is (upstream.go, the calls of recordTelemetry).
THEOREM ProxyRecordedOnce == Spec => []RecordedOnce
BY ProxyInvariance, CountsOnce, PTL

\* Whatever the upstreams and clients do and whenever a Cleanup runs, a client that
\* stayed and got less than the whole body is on record as an error, and the metrics are
\* true of the requests: counts, statuses, errors, their kinds and the average latency
\* (upstream.go, ClassifyProxyError of copyErr; server.go, metricsFromTelemetry).
THEOREM ProxyTelemetryHonest == Spec => []TelemetryHonest
BY ProxyInvariance, TellsTruncation, TellsMetrics, PTL DEF TelemetryHonest

\* Whenever the handler of an event stream waits for the upstream, its client has all
\* that was read (upstream.go, flushWriter).
THEOREM ProxyStreamsPromptly == Spec => []StreamsPromptly
BY ProxyInvariance, PTL DEF ProxyInv

\* A Cleanup drops for their number only the records that completed first, under every
\* policy and at every time (telemetry.go, applyRetentionPolicy).
THEOREM ProxyRetentionKeepsLatest == Spec => RetentionKeepsLatest
<1> DEFINE kept(i) == \E j \in DOMAIN records' : records'[j] = records[i]
           Latest == Len(records') < Len(records) =>
                       /\ Len(records') <= RecordLimit
                       /\ \A i, j \in DOMAIN records :
                            i < j /\ kept(i) /\ ~kept(j) => TooOld(records[j], clock)
<1>1. ASSUME ProxyInv, [Next]_vars PROVE Latest
  <2>0. TypeOK /\ OneRecord /\ records \in Seq(Entry)
    BY <1>1, EntryTyped DEF ProxyInv
  <2>1. CASE ~\E confirm \in BOOLEAN : Prune(confirm)
    <3>1. records' = records \/ \E record : records' = Append(records, record)
      BY <1>1, <2>1 DEF Next, vars, Accept, Step, Unreachable, CopyChunk, CopyEOF, CopyError,
         Report, Return, Respond, UpstreamEmit, UpstreamEnd, UpstreamAbort, BufferFull,
         ClientLeaves, Tick, RecordTelemetry, Record
    <3>2. ~(Len(records') < Len(records))
      BY <2>0, <3>1
    <3> QED BY <3>2
  <2>2. ASSUME NEW confirm \in BOOLEAN, Prune(confirm) PROVE Latest
    <3> SUFFICES ASSUME Len(records') < Len(records) PROVE Latest
      OBVIOUS
    <3>1. Len(records') <= RecordLimit
      <4>1. records' # records
        BY <2>0
      <4>2. records' = ApplyRetentionPolicy(records, clock)
        BY <2>2, <4>1 DEF Prune, Cleanup
      <4> QED BY <2>0, <4>2, Retention
    <3>2. PICK e : KeepsLatest(e, records', records, clock)
      BY <2>0, <2>2, PruneKeeps
    <3>3. ASSUME NEW i \in DOMAIN records, NEW j \in DOMAIN records, i < j, kept(i), ~kept(j),
                 ~TooOld(records[j], clock)
          PROVE  FALSE
      <4>1. PICK k \in DOMAIN records' : records'[k] = records[i]
        BY <3>3
      <4>2. e[k] \in DOMAIN records /\ records[e[k]] = records[i]
        BY <3>2, <4>1 DEF KeepsLatest
      <4>3. e[k] = i
        BY <2>0, <4>2 DEF OneRecord
      <4>4. \A q \in DOMAIN records' : e[q] # j
        BY <3>2, <3>3 DEF KeepsLatest
      <4>5. j < e[k]
        BY <3>2, <3>3, <4>1, <4>4 DEF KeepsLatest
      <4> QED BY <2>0, <3>3, <4>3, <4>5
    <3> QED BY <3>1, <3>3
  <2> QED BY <2>1, <2>2
<1>2. Spec => [][Latest]_vars
  BY <1>1, ProxyInvariance, PTL DEF Spec
<1> QED BY <1>2 DEF RetentionKeepsLatest
=============================================================================
