---------------------------- MODULE PanelsProofs -----------------------------
(***************************************************************************)
(* Machine-checked proofs about Panels and the admin server, for any number *)
(* of calls, clients, texts and telemetry records: the locks of the server  *)
(* make each handler atomic, so the server implements its contract, and     *)
(* what the provider panel reports as saved is what the server has.         *)
(***************************************************************************)
EXTENDS Panels, LoopProofs

Writing == {"drain", "assign", "respond", "unlock"}
Reading == {"rlock", "blocked", "read"}

\* What an answer may carry.
Bodies == {NoBody} \cup ValidURL
            \cup {MetricsFromTelemetry(recs) : recs \in Seq(Outcomes)}
            \cup {FailureCategories(recs) : recs \in Seq(Outcomes)}
Answer == [status : Nat, body : Bodies]
Call == [pc : PC, req : Request, answer : Answer]

CallsTyped == call \in [Calls -> Call]

\* A handler only goes on with a request that it does not refuse.
AdmittedAt(k) ==
    /\ call[k].pc \in Reading => /\ call[k].req.op \in {"status", "config", "diagnostics"}
                                 /\ Refusal(call[k].req) = 200
    /\ call[k].pc \in Writing \cup {"lock"} => /\ call[k].req.op = "put"
                                               /\ Refusal(call[k].req) = 200

\* The lock: one writer, and none of its work while someone reads.
Locked ==
    /\ rw.readers = {k \in Calls : call[k].pc = "read"}
    /\ \A k \in Calls : call[k].pc \in Writing <=> rw.writer = k
    /\ \A k \in Calls : call[k].pc \in Writing \ {"drain"} => rw.readers = {}

\* An answer with a target carries one.
TargetAt(k) ==
    call[k].pc \in {"unlock", "answered"} /\ call[k].answer.status = 200
        /\ call[k].req.op \in {"config", "put"} => call[k].answer.body \in ValidURL

Handled == \A k \in Calls : AdmittedAt(k) /\ TargetAt(k)

ServerInv == TypeOK /\ CallsTyped /\ Handled /\ Locked

\* While the last save is alone it is the only PUT, and its answer stays true.
AloneSaving ==
    alone => /\ Saving \subseteq Window
             /\ \A j, k \in Saving : j = k
             /\ \A k \in Saving :
                  call[k].pc \in {"unlock", "answered"} /\ call[k].answer.status = 200
                      => call[k].answer.body = target

PanelsInv == ServerInv /\ AloneSaving /\ SavedHolds

-----------------------------------------------------------------------------
(* How a call changes.                                                       *)

\* The new record of k's call, and every other call as it was.
Becomes(k, pc, q, a) ==
    /\ CallsTyped'
    /\ call'[k].pc = pc /\ call'[k].req = q /\ call'[k].answer = a
    /\ \A j \in Calls \ {k} : call'[j] = call[j]

LEMMA GotoBecomes ==
    ASSUME CallsTyped, NEW k \in Calls, NEW pc \in PC, Goto(k, pc)
    PROVE  Becomes(k, pc, call[k].req, call[k].answer)
BY DEF CallsTyped, Call, Goto, Becomes

LEMMA RespondBecomes ==
    ASSUME CallsTyped, NEW k \in Calls, NEW pc \in PC, NEW status \in Nat, NEW body \in Bodies,
           Respond(k, pc, status, body)
    PROVE  Becomes(k, pc, call[k].req, [status |-> status, body |-> body])
<1>1. [status |-> status, body |-> body] \in Answer
  BY DEF Answer
<1> QED BY <1>1 DEF CallsTyped, Call, Respond, Becomes

LEMMA SendBecomes ==
    ASSUME CallsTyped, NEW k \in Calls, NEW q \in Request, Send(k, q)
    PROVE  Becomes(k, "sent", q, NoAnswer)
<1>1. NoAnswer \in Answer /\ "sent" \in PC
  BY DEF Answer, NoAnswer, Bodies, PC
<1>2. Sent(q) \in Call /\ Sent(q).pc = "sent" /\ Sent(q).req = q /\ Sent(q).answer = NoAnswer
  BY <1>1 DEF Sent, Idle, Call
<1> QED BY <1>2 DEF CallsTyped, Send, Becomes

LEMMA SettledBecomes ==
    ASSUME CallsTyped, NEW k \in Calls, NEW op, Settled(k, op)
    PROVE  Becomes(k, "idle", NoRequest, NoAnswer)
<1>1. NoAnswer \in Answer /\ "idle" \in PC /\ NoRequest \in Request
  BY DEF Answer, NoAnswer, Bodies, PC, NoRequest, Request
<1>2. Idle \in Call /\ Idle.pc = "idle" /\ Idle.req = NoRequest /\ Idle.answer = NoAnswer
  BY <1>1 DEF Idle, Call
<1> QED BY <1>2 DEF CallsTyped, Settled, Becomes

LEMMA LoseBecomes ==
    ASSUME CallsTyped, NEW k \in Calls, Lose(k)
    PROVE  Becomes(k, "failed", call[k].req, NoAnswer)
<1>1. NoAnswer \in Answer /\ "failed" \in PC
  BY DEF Answer, NoAnswer, Bodies, PC
<1> QED BY <1>1 DEF CallsTyped, Call, Lose, Becomes

-----------------------------------------------------------------------------
(* The server's steps.                                                       *)

PanelTyped ==
    /\ field \in Texts
    /\ message \in {"saved", "other"}
    /\ typed \in BOOLEAN /\ alone \in BOOLEAN

RWMutex == [writer : Calls \cup {Nobody}, readers : SUBSET Calls]

LEMMA TypeParts ==
    CallsTyped => (TypeOK <=> /\ target \in ValidURL /\ rw \in RWMutex
                              /\ records \in Seq(Outcomes) /\ PanelTyped)
BY DEF CallsTyped, Call, TypeOK, RWMutex, PanelTyped

\* What a step of one call leaves to be shown.
LEMMA OneCall ==
    ASSUME ServerInv, NEW k \in Calls, NEW pc, NEW q, NEW a, Becomes(k, pc, q, a),
           (AdmittedAt(k) /\ TargetAt(k))'
    PROVE  Handled'
BY DEF ServerInv, Handled, Becomes, AdmittedAt, TargetAt

\* A call that neither holds the lock nor gets it.
LEMMA NoLock ==
    ASSUME ServerInv, NEW k \in Calls, NEW pc, NEW q, NEW a, Becomes(k, pc, q, a), rw' = rw,
           call[k].pc \notin Writing \cup {"read"}, pc \notin Writing \cup {"read"}
    PROVE  Locked'
BY DEF ServerInv, Locked, Becomes, Writing

LEMMA BodyTyped ==
    ASSUME NEW q \in Request, NEW t \in ValidURL, NEW recs \in Seq(Outcomes)
    PROVE  /\ Body(q, t, recs) \in Bodies
           /\ q.op \in {"config", "put"} => Body(q, t, recs) = t
BY DEF Body, Bodies, Request

LEMMA RefusalStatus ==
    ASSUME NEW q
    PROVE  Refusal(q) \in {200, 400, 401, 405}
BY DEF Refusal

\* A PUT that is not refused has a text to assign.
LEMMA PutValid ==
    ASSUME NEW q \in Request, q.op = "put", Refusal(q) = 200
    PROVE  q.text \in Texts /\ TrimRight[q.text] \in ValidURL
BY DEF Refusal, Request, ValidTarget

\* Whoever reads, or writes the answer to a PUT, sees the target.
LEMMA ObservedTarget ==
    ASSUME ServerInv, NEW k \in Calls, call[k].pc \in {"read", "respond"}
    PROVE  Observed = target
<1> SUFFICES ASSUME NEW j \in Calls, call[j].pc = "assign" PROVE FALSE
  BY DEF Observed
<1>1. rw.writer = j /\ rw.readers = {}
  BY DEF ServerInv, Locked, Writing
<1>2. CASE call[k].pc = "read"
  BY <1>1, <1>2 DEF ServerInv, Locked
<1>3. CASE call[k].pc = "respond"
  BY <1>1, <1>3 DEF ServerInv, Locked, Writing
<1> QED BY <1>2, <1>3

\* A step that answers, with a refusal or with what the request asks for.
Answers(k, status, body) ==
    /\ Becomes(k, "answered", call[k].req, [status |-> status, body |-> body])
    /\ UNCHANGED <<target, records>>
    /\ \/ Refuse(k) /\ status = Refusal(call[k].req) /\ body = NoBody
       \/ ~Refuse(k) /\ status = 200 /\ body = Body(call[k].req, target, records)

LEMMA AnswerBecomes ==
    ASSUME ServerInv, NEW k \in Calls, Refuse(k) \/ HandleMetrics(k) \/ ReadAndRUnlock(k)
    PROVE  \E status, body : Answers(k, status, body)
<1>0. /\ CallsTyped /\ call[k].req \in Request /\ "answered" \in PC
      /\ target \in ValidURL /\ records \in Seq(Outcomes)
  BY DEF ServerInv, CallsTyped, Call, TypeOK, PC
<1>1. CASE Refuse(k)
  <2>1. Refusal(call[k].req) \in Nat /\ NoBody \in Bodies
    BY RefusalStatus DEF Bodies
  <2>2. Respond(k, "answered", Refusal(call[k].req), NoBody) /\ UNCHANGED <<target, records>>
    BY <1>1 DEF Refuse, At
  <2> QED BY <1>0, <1>1, <2>1, <2>2, RespondBecomes DEF Answers
<1>2. CASE ~Refuse(k) /\ (HandleMetrics(k) \/ ReadAndRUnlock(k))
  <2>1. Body(call[k].req, target, records) \in Bodies /\ 200 \in Nat
    BY <1>0, BodyTyped
  <2>2. Respond(k, "answered", 200, Body(call[k].req, target, records))
    BY <1>2, ObservedTarget DEF HandleMetrics, ReadAndRUnlock, At
  <2>3. UNCHANGED <<target, records>>
    BY <1>2 DEF HandleMetrics, ReadAndRUnlock, At
  <2>4. Becomes(k, "answered", call[k].req,
                [status |-> 200, body |-> Body(call[k].req, target, records)])
    BY <1>0, <2>1, <2>2, RespondBecomes
  <2> QED BY <1>2, <2>3, <2>4 DEF Answers
<1> QED BY <1>1, <1>2

\* The steps that only move the handler on.
LEMMA MoveBecomes ==
    ASSUME ServerInv, NEW k \in Calls
    PROVE  /\ HandleRead(k) => Becomes(k, "rlock", call[k].req, call[k].answer)
           /\ HandlePut(k) => Becomes(k, "lock", call[k].req, call[k].answer)
           /\ RLock(k) => Becomes(k, IF rw.writer = Nobody THEN "read" ELSE "blocked",
                                  call[k].req, call[k].answer)
           /\ Lock(k) => Becomes(k, "drain", call[k].req, call[k].answer)
           /\ Drain(k) => Becomes(k, "assign", call[k].req, call[k].answer)
           /\ Assign(k) => Becomes(k, "respond", call[k].req, call[k].answer)
           /\ PutResponse(k) => Becomes(k, "unlock", call[k].req,
                                        [status |-> 200, body |-> target])
<1>0. /\ CallsTyped /\ target \in Bodies /\ 200 \in Nat
      /\ {"rlock", "lock", "read", "blocked", "drain", "assign", "respond", "unlock"} \subseteq PC
  BY DEF ServerInv, TypeOK, Bodies, PC, HandlerPC
<1>1. HandleRead(k) => Becomes(k, "rlock", call[k].req, call[k].answer)
  BY <1>0, GotoBecomes DEF HandleRead
<1>2. HandlePut(k) => Becomes(k, "lock", call[k].req, call[k].answer)
  BY <1>0, GotoBecomes DEF HandlePut
<1>3. RLock(k) => Becomes(k, IF rw.writer = Nobody THEN "read" ELSE "blocked",
                          call[k].req, call[k].answer)
  BY <1>0, GotoBecomes DEF RLock
<1>4. Lock(k) => Becomes(k, "drain", call[k].req, call[k].answer)
  BY <1>0, GotoBecomes DEF Lock
<1>5. Drain(k) => Becomes(k, "assign", call[k].req, call[k].answer)
  BY <1>0, GotoBecomes DEF Drain
<1>6. Assign(k) => Becomes(k, "respond", call[k].req, call[k].answer)
  BY <1>0, GotoBecomes DEF Assign
<1>7. PutResponse(k) => Becomes(k, "unlock", call[k].req, [status |-> 200, body |-> target])
  BY <1>0, RespondBecomes, ObservedTarget DEF PutResponse, At
<1> QED BY <1>1, <1>2, <1>3, <1>4, <1>5, <1>6, <1>7

\* Unlock moves the readers that wait, too; requests and answers stay.
LEMMA UnlockMoves ==
    ASSUME ServerInv, NEW k \in Calls, Unlock(k)
    PROVE  /\ CallsTyped'
           /\ \A j \in Calls :
                /\ call'[j].req = call[j].req /\ call'[j].answer = call[j].answer
                /\ call'[j].pc = IF j = k THEN "answered"
                                 ELSE IF call[j].pc = "blocked" THEN "read" ELSE call[j].pc
<1> DEFINE new(j) == IF j = k THEN [call[k] EXCEPT !.pc = "answered"]
                     ELSE IF call[j].pc = "blocked" THEN [call[j] EXCEPT !.pc = "read"]
                     ELSE call[j]
<1>0. "answered" \in PC /\ "read" \in PC
  BY DEF PC, HandlerPC
<1>1. \A j \in Calls :
        /\ new(j) \in Call /\ new(j).req = call[j].req /\ new(j).answer = call[j].answer
        /\ new(j).pc = IF j = k THEN "answered"
                       ELSE IF call[j].pc = "blocked" THEN "read" ELSE call[j].pc
  BY <1>0 DEF ServerInv, CallsTyped, Call
<1>2. call' = [j \in Calls |-> new(j)]
  BY DEF Unlock
<1> HIDE DEF new
<1> QED BY <1>1, <1>2 DEF CallsTyped

\* The invariant from its parts; the last three follow from what became of the call.
LEMMA ServerParts ==
    ASSUME CallsTyped', Handled', Locked', target' \in ValidURL, rw' \in RWMutex,
           records' \in Seq(Outcomes), PanelTyped'
    PROVE  ServerInv'
BY TypeParts DEF ServerInv, TypeOK, RWMutex, PanelTyped, CallsTyped, Call

LEMMA ServerKeeps ==
    ASSUME ServerInv, NEW k \in Calls, Server(k)
    PROVE  ServerInv'
<1>0. /\ CallsTyped /\ Handled /\ Locked /\ AdmittedAt(k) /\ TargetAt(k)
      /\ call[k].req \in Request /\ target \in ValidURL /\ records \in Seq(Outcomes)
      /\ PanelTyped /\ rw \in RWMutex
  BY TypeParts DEF ServerInv, Handled, CallsTyped, Call
<1>1. PanelTyped' /\ records' = records
  BY <1>0 DEF Server, panelVars, PanelTyped, HandlerStep, At, Refuse, HandleMetrics, HandleRead,
              HandlePut, RLock, ReadAndRUnlock, Drain, Assign, PutResponse, Unlock, Lock
<1>2. CASE Refuse(k) \/ HandleMetrics(k) \/ ReadAndRUnlock(k)
  <2>0. PICK status, body : Answers(k, status, body)
    BY <1>2, AnswerBecomes
  <2>1. /\ Becomes(k, "answered", call[k].req, [status |-> status, body |-> body])
        /\ UNCHANGED <<target, records>>
        /\ \/ Refuse(k) /\ status = Refusal(call[k].req) /\ body = NoBody
           \/ ~Refuse(k) /\ status = 200 /\ body = Body(call[k].req, target, records)
    BY <2>0 DEF Answers
  <2>2. (AdmittedAt(k) /\ TargetAt(k))'
    <3>1. Refuse(k) => Refusal(call[k].req) # 200
      BY DEF Refuse
    <3>2. ~Refuse(k) /\ call[k].req.op \in {"config", "put"} => body = target
      BY <1>0, <2>1, BodyTyped
    <3> QED BY <1>0, <2>1, <3>1, <3>2 DEF Becomes, AdmittedAt, TargetAt, Reading, Writing
  <2>3. Locked' /\ rw' \in RWMutex
    <3>1. CASE ReadAndRUnlock(k)
      BY <1>0, <2>1, <3>1 DEF ReadAndRUnlock, At, Locked, Becomes, Writing, RWMutex
    <3>2. CASE Refuse(k) \/ HandleMetrics(k)
      BY <1>0, <2>1, <3>2, NoLock DEF Refuse, HandleMetrics, At, Writing
    <3> QED BY <1>2, <3>1, <3>2
  <2> QED BY <1>0, <1>1, <2>1, <2>2, <2>3, OneCall, ServerParts DEF Becomes
<1>3. CASE HandleRead(k) \/ HandlePut(k)
  <2>1. PICK pc \in {"rlock", "lock"} :
          /\ Becomes(k, pc, call[k].req, call[k].answer)
          /\ pc = "rlock" => HandleRead(k)
          /\ pc = "lock" => HandlePut(k)
    BY <1>3, MoveBecomes
  <2>2. (AdmittedAt(k) /\ TargetAt(k))'
    BY <2>1 DEF Becomes, AdmittedAt, TargetAt, Reading, Writing, HandleRead, HandlePut
  <2>3. call[k].pc = "sent" /\ rw' = rw /\ target' = target
    BY <1>3 DEF HandleRead, HandlePut, At
  <2>4. Locked'
    BY <2>1, <2>3, NoLock DEF Writing
  <2> QED BY <1>0, <1>1, <2>1, <2>2, <2>3, <2>4, OneCall, ServerParts DEF Becomes
<1>4. CASE RLock(k)
  <2>1. /\ Becomes(k, IF rw.writer = Nobody THEN "read" ELSE "blocked", call[k].req, call[k].answer)
        /\ call[k].pc = "rlock" /\ target' = target
        /\ rw' = IF rw.writer = Nobody THEN [rw EXCEPT !.readers = @ \cup {k}] ELSE rw
    BY <1>4, MoveBecomes DEF RLock, At
  <2>2. (AdmittedAt(k) /\ TargetAt(k))'
    BY <1>0, <2>1 DEF Becomes, AdmittedAt, TargetAt, Reading, Writing
  <2>3. Locked' /\ rw' \in RWMutex
    <3>1. CASE rw.writer = Nobody
      <4>1. rw' \in RWMutex /\ rw'.writer = Nobody /\ rw'.readers = rw.readers \cup {k}
        BY <1>0, <2>1, <3>1 DEF RWMutex
      <4>2. \A j \in Calls : call[j].pc \notin Writing /\ call'[j].pc \notin Writing
        BY <1>0, <2>1, <3>1, AdminAssumption DEF Locked, Becomes, Writing
      <4>3. rw'.readers = {j \in Calls : call'[j].pc = "read"}
        BY <1>0, <2>1, <3>1, <4>1 DEF Locked, Becomes
      <4> QED BY <4>1, <4>2, <4>3, AdminAssumption DEF Locked, Writing
    <3>2. CASE rw.writer # Nobody
      BY <1>0, <2>1, <3>2, NoLock DEF Writing
    <3> QED BY <3>1, <3>2
  <2> QED BY <1>0, <1>1, <2>1, <2>2, <2>3, OneCall, ServerParts DEF Becomes
<1>5. CASE Lock(k)
  <2>1. /\ Becomes(k, "drain", call[k].req, call[k].answer)
        /\ call[k].pc = "lock" /\ target' = target
        /\ rw.writer = Nobody /\ rw' = [rw EXCEPT !.writer = k]
    BY <1>5, MoveBecomes DEF Lock, At
  <2>2. (AdmittedAt(k) /\ TargetAt(k))'
    BY <1>0, <2>1 DEF Becomes, AdmittedAt, TargetAt, Reading, Writing
  <2>3. Locked' /\ rw' \in RWMutex
    <3>1. rw' \in RWMutex /\ rw'.writer = k /\ rw'.readers = rw.readers
      BY <1>0, <2>1 DEF RWMutex
    <3>2. \A j \in Calls : call[j].pc \notin Writing
      BY <1>0, <2>1, AdminAssumption DEF Locked
    <3>3. \A j \in Calls \ {k} : call'[j].pc \notin Writing
      BY <2>1, <3>2 DEF Becomes
    <3>4. rw'.readers = {j \in Calls : call'[j].pc = "read"}
      BY <1>0, <2>1, <3>1 DEF Locked, Becomes
    <3> QED BY <2>1, <3>1, <3>3, <3>4 DEF Locked, Becomes, Writing
  <2> QED BY <1>0, <1>1, <2>1, <2>2, <2>3, OneCall, ServerParts DEF Becomes
<1>6. CASE Drain(k)
  <2>1. /\ Becomes(k, "assign", call[k].req, call[k].answer)
        /\ call[k].pc = "drain" /\ target' = target /\ rw' = rw /\ rw.readers = {}
    BY <1>6, MoveBecomes DEF Drain, At
  <2>2. (AdmittedAt(k) /\ TargetAt(k))'
    BY <1>0, <2>1 DEF Becomes, AdmittedAt, TargetAt, Reading, Writing
  <2>3. Locked'
    BY <1>0, <2>1 DEF Locked, Becomes, Writing
  <2> QED BY <1>0, <1>1, <2>1, <2>2, <2>3, OneCall, ServerParts DEF Becomes
<1>7. CASE Assign(k)
  <2>1. /\ Becomes(k, "respond", call[k].req, call[k].answer)
        /\ call[k].pc = "assign" /\ target' = TrimRight[call[k].req.text] /\ rw' = rw
    BY <1>7, MoveBecomes DEF Assign, At
  <2>2. (AdmittedAt(k) /\ TargetAt(k))'
    BY <1>0, <2>1 DEF Becomes, AdmittedAt, TargetAt, Reading, Writing
  <2>3. Locked'
    BY <1>0, <2>1 DEF Locked, Becomes, Writing
  <2>4. target' \in ValidURL
    BY <1>0, <2>1, PutValid DEF AdmittedAt, Writing
  <2> QED BY <1>0, <1>1, <2>1, <2>2, <2>3, <2>4, OneCall, ServerParts DEF Becomes
<1>8. CASE PutResponse(k)
  <2>1. /\ Becomes(k, "unlock", call[k].req, [status |-> 200, body |-> target])
        /\ call[k].pc = "respond" /\ target' = target /\ rw' = rw
    BY <1>8, MoveBecomes DEF PutResponse, At
  <2>2. (AdmittedAt(k) /\ TargetAt(k))'
    BY <1>0, <2>1 DEF Becomes, AdmittedAt, TargetAt, Reading, Writing
  <2>3. Locked'
    BY <1>0, <2>1 DEF Locked, Becomes, Writing
  <2> QED BY <1>0, <1>1, <2>1, <2>2, <2>3, OneCall, ServerParts DEF Becomes
<1>9. CASE Unlock(k)
  <2>1. /\ CallsTyped' /\ call[k].pc = "unlock" /\ target' = target
        /\ \A j \in Calls :
             /\ call'[j].req = call[j].req /\ call'[j].answer = call[j].answer
             /\ call'[j].pc = IF j = k THEN "answered"
                              ELSE IF call[j].pc = "blocked" THEN "read" ELSE call[j].pc
        /\ rw' = [writer |-> Nobody, readers |-> {j \in Calls : call[j].pc = "blocked"}]
    BY <1>9, UnlockMoves DEF Unlock, At
  <2>2. Handled'
    BY <1>0, <2>1 DEF Handled, AdmittedAt, TargetAt, Reading, Writing
  <2>3. rw.writer = k /\ rw.readers = {}
    BY <1>0, <2>1 DEF Locked, Writing
  <2>4. \A j \in Calls : call'[j].pc \notin Writing /\ (call'[j].pc = "read" <=> call[j].pc = "blocked")
    BY <1>0, <2>1, <2>3 DEF Locked, Writing
  <2>5. Locked' /\ rw' \in RWMutex
    BY <2>1, <2>4, AdminAssumption DEF Locked, Writing, RWMutex
  <2> QED BY <1>0, <1>1, <2>1, <2>2, <2>5, ServerParts
<1> QED BY <1>2, <1>3, <1>4, <1>5, <1>6, <1>7, <1>8, <1>9 DEF Server, HandlerStep

-----------------------------------------------------------------------------
(* The clients' steps.                                                       *)

\* A request is sent.
LEMMA SendKeeps ==
    ASSUME ServerInv, NEW k \in Calls, NEW q \in Request, Send(k, q), PanelTyped'
    PROVE  ServerInv' /\ Becomes(k, "sent", q, NoAnswer) /\ call[k].pc = "idle"
<1>0. /\ CallsTyped /\ Handled /\ target \in ValidURL /\ records \in Seq(Outcomes)
      /\ rw \in RWMutex
  BY TypeParts DEF ServerInv
<1>1. Becomes(k, "sent", q, NoAnswer)
  BY <1>0, SendBecomes
<1>2. call[k].pc = "idle" /\ UNCHANGED <<target, rw, records>>
  BY DEF Send, Idle
<1>3. (AdmittedAt(k) /\ TargetAt(k))'
  BY <1>1 DEF Becomes, AdmittedAt, TargetAt, Reading, Writing
<1>4. Locked'
  BY <1>1, <1>2, NoLock DEF Writing
<1> QED BY <1>0, <1>1, <1>2, <1>3, <1>4, OneCall, ServerParts DEF Becomes

\* A request is done with, or fails on its way.
LEMMA LeaveKeeps ==
    ASSUME ServerInv, NEW k \in Calls, PanelTyped',
           \/ call[k].pc \in {"answered", "failed"} /\ \E op : Settled(k, op)
           \/ Lose(k)
    PROVE  /\ ServerInv'
           /\ \/ Becomes(k, "idle", NoRequest, NoAnswer)
              \/ Lose(k) /\ Becomes(k, "failed", call[k].req, NoAnswer)
<1>0. /\ CallsTyped /\ Handled /\ target \in ValidURL /\ records \in Seq(Outcomes)
      /\ rw \in RWMutex
  BY TypeParts DEF ServerInv
<1>1. UNCHANGED <<target, rw, records>> /\ call[k].pc \in {"sent", "answered", "failed"}
  BY DEF Settled, Lose
<1>2. ASSUME NEW pc \in {"idle", "failed"}, NEW q, Becomes(k, pc, q, NoAnswer)
      PROVE  ServerInv'
  <2>1. (AdmittedAt(k) /\ TargetAt(k))'
    BY <1>2 DEF Becomes, AdmittedAt, TargetAt, Reading, Writing
  <2>2. Locked'
    BY <1>1, <1>2, NoLock DEF Writing
  <2> QED BY <1>0, <1>1, <1>2, <2>1, <2>2, OneCall, ServerParts DEF Becomes
<1>3. CASE Lose(k)
  BY <1>0, <1>2, <1>3, LoseBecomes
<1>4. CASE ~Lose(k)
  BY <1>0, <1>2, <1>4, SettledBecomes
<1> QED BY <1>3, <1>4

\* The telemetry store's other users.
LEMMA StoreKeeps ==
    ASSUME ServerInv, ProxyRecords \/ Prune, UNCHANGED panelVars
    PROVE  ServerInv' /\ UNCHANGED <<target, rw, call, panelVars>>
<1>0. /\ CallsTyped /\ Handled /\ Locked /\ target \in ValidURL /\ records \in Seq(Outcomes)
      /\ rw \in RWMutex /\ PanelTyped
  BY TypeParts DEF ServerInv
<1>1. UNCHANGED <<target, rw, call, panelVars>>
  BY DEF ProxyRecords, Prune
<1>2. CallsTyped' /\ Handled' /\ Locked' /\ PanelTyped'
  BY <1>0, <1>1 DEF CallsTyped, Handled, AdmittedAt, TargetAt, Locked, PanelTyped, panelVars
<1>3. records' \in Seq(Outcomes)
  <2>1. CASE ProxyRecords
    BY <1>0, <2>1 DEF ProxyRecords, Record
  <2>2. CASE Prune
    <3>1. PICK now \in Instants : records' = ApplyRetentionPolicy(records, now)
      BY <2>2 DEF Prune, Cleanup
    <3> DEFINE young == Only(records, {record \in ToSet(records) : ~TooOld(record, now)})
    <3>2. young \in Seq(Outcomes)
      BY <1>0, OnlyPlaces
    <3>3. RecordLimit \in Nat
      BY RetentionAssumption DEF RecordLimit
    <3>4. records' = IF Len(young) > RecordLimit
                     THEN SubSeq(young, Len(young) - RecordLimit + 1, Len(young)) ELSE young
      BY <3>1 DEF ApplyRetentionPolicy
    <3> HIDE DEF young
    <3> QED BY <3>2, <3>3, <3>4
  <2> QED BY <2>1, <2>2
<1> QED BY <1>0, <1>1, <1>2, <1>3, ServerParts

LEMMA ShownTarget ==
    ASSUME ServerInv, NEW k \in Calls, Succeeded(k), call[k].req.op \in {"config", "put"}
    PROVE  call[k].answer.body \in Texts
BY RequestAssumption DEF ServerInv, Handled, TargetAt, Succeeded

\* A slot that Save finds.
LEMMA SaveSlot ==
    ASSUME Save, field \in HTTPURL
    PROVE  \E k \in Window : /\ Send(k, Put(field)) /\ alone' = (Saving = {})
                             /\ UNCHANGED <<message, field, typed>>
<1> DEFINE k == CHOOSE k \in Window : call[k] = Idle
<1>1. k \in Window
  BY DEF Save
<1> QED BY <1>1 DEF Save

LEMMA InitPanels == PanelsInit => PanelsInv
<1> SUFFICES ASSUME PanelsInit PROVE PanelsInv
  OBVIOUS
<1> DEFINE w == CHOOSE k \in Window : TRUE
<1>0. /\ Get("config") \in Request /\ NoRequest \in Request /\ NoAnswer \in Answer
      /\ {"sent", "idle"} \subseteq PC
  BY DEF Get, Request, NoRequest, Answer, NoAnswer, Bodies, PC
<1>1. /\ Idle \in Call /\ Idle.pc = "idle" /\ Idle.req = NoRequest
      /\ Sent(Get("config")) \in Call /\ Sent(Get("config")).pc = "sent"
      /\ Sent(Get("config")).req = Get("config")
  BY <1>0 DEF Idle, Sent, Call
<1>2. call = [k \in Calls |-> IF k = w THEN Sent(Get("config")) ELSE Idle]
  BY DEF PanelsInit
<1>3. CallsTyped
  BY <1>1, <1>2 DEF CallsTyped
<1>4. \A k \in Calls : call[k].pc \in {"sent", "idle"} /\ call[k].req.op # "put"
  BY <1>1, <1>2 DEF NoRequest, Get
<1>5. Handled
  BY <1>4 DEF Handled, AdmittedAt, TargetAt, Reading, Writing
<1>6. Locked
  BY <1>4, AdminAssumption DEF Locked, Writing, PanelsInit, Init
<1>7. TypeOK
  <2>1. target \in ValidURL /\ records \in Seq(Outcomes) /\ PanelTyped
    <3>1. target \in ValidURL /\ records \in Seq(Outcomes) /\ field \in Texts /\ message = "other"
      BY PanelsAssumption, AdminAssumption DEF PanelsInit, Init
    <3>2. typed \in BOOLEAN /\ alone \in BOOLEAN
      BY Zenon DEF PanelsInit
    <3> QED BY <3>1, <3>2 DEF PanelTyped
  <2>2. rw \in RWMutex
    BY DEF PanelsInit, Init, RWMutex
  <2> QED BY <1>3, <2>1, <2>2, TypeParts
<1>8. AloneSaving /\ SavedHolds
  BY <1>4 DEF AloneSaving, Saving, SavedHolds, PanelsInit
<1> QED BY <1>3, <1>5, <1>6, <1>7, <1>8 DEF PanelsInv, ServerInv

-----------------------------------------------------------------------------
(* What is shown as saved.                                                   *)

\* A step of the server: the PUTs under way stay under way, and only their own
\* assignment changes the target.
LEMMA ServerKeepsSaved ==
    ASSUME PanelsInv, NEW k \in Calls, Server(k)
    PROVE  AloneSaving' /\ SavedHolds'
<1>0. /\ ServerInv /\ AloneSaving /\ SavedHolds /\ CallsTyped /\ AdmittedAt(k)
      /\ UNCHANGED <<field, message, typed, alone>>
  BY DEF PanelsInv, ServerInv, Handled, Server, panelVars
<1>1. CASE Refuse(k) \/ HandleMetrics(k) \/ ReadAndRUnlock(k)
  <2>0. PICK status, body : Answers(k, status, body)
    BY <1>0, <1>1, AnswerBecomes
  <2>1. /\ Becomes(k, "answered", call[k].req, [status |-> status, body |-> body])
        /\ target' = target /\ (Refuse(k) => status # 200)
        /\ call[k].pc \in {"sent", "read"} /\ (~Refuse(k) => call[k].req.op # "put")
    BY <1>0, <1>1, <2>0
    DEF Answers, Refuse, HandleMetrics, ReadAndRUnlock, At, AdmittedAt, Reading
  <2>2. Saving' = Saving
    BY <2>1 DEF Saving, Becomes
  <2> QED BY <1>0, <2>1, <2>2 DEF AloneSaving, SavedHolds, Becomes, Saving
<1>2. CASE HandleRead(k) \/ HandlePut(k) \/ RLock(k) \/ Lock(k) \/ Drain(k)
  <2>1. PICK pc \in {"rlock", "lock", "read", "blocked", "drain", "assign"} :
          Becomes(k, pc, call[k].req, call[k].answer)
    BY <1>0, <1>2, MoveBecomes
  <2>2. target' = target /\ call[k].pc # "idle"
    BY <1>2 DEF HandleRead, HandlePut, RLock, Lock, Drain, At
  <2>3. Saving' = Saving
    BY <2>1, <2>2 DEF Saving, Becomes
  <2>4. \A j \in Saving : call'[j].pc \in {"unlock", "answered"} => call'[j] = call[j]
    BY <2>1 DEF Saving, Becomes
  <2>5. AloneSaving'
    BY <1>0, <2>2, <2>3, <2>4 DEF AloneSaving
  <2>6. SavedHolds'
    BY <1>0, <2>2, <2>3 DEF SavedHolds
  <2> QED BY <2>5, <2>6
<1>3. CASE Assign(k)
  <2>1. Becomes(k, "respond", call[k].req, call[k].answer) /\ call[k].pc = "assign"
    BY <1>0, <1>3, MoveBecomes DEF Assign, At
  <2>2. k \in Saving /\ Saving' = Saving
    BY <1>0, <2>1 DEF Saving, Becomes, AdmittedAt, Writing
  <2>3. AloneSaving'
    BY <1>0, <2>1, <2>2 DEF AloneSaving, Becomes
  <2> QED BY <2>2, <2>3 DEF SavedHolds
<1>4. CASE PutResponse(k)
  <2>1. /\ Becomes(k, "unlock", call[k].req, [status |-> 200, body |-> target])
        /\ call[k].pc = "respond" /\ target' = target
    BY <1>0, <1>4, MoveBecomes DEF PutResponse, At
  <2>2. Saving' = Saving
    BY <2>1 DEF Saving, Becomes
  <2>3. \A j \in Saving : j = k \/ call'[j] = call[j]
    BY <2>1 DEF Saving, Becomes
  <2>4. AloneSaving'
    BY <1>0, <2>1, <2>2, <2>3 DEF AloneSaving, Becomes
  <2>5. SavedHolds'
    BY <1>0, <2>1, <2>2 DEF SavedHolds
  <2> QED BY <2>4, <2>5
<1>5. CASE Unlock(k)
  <2>1. /\ call[k].pc = "unlock" /\ target' = target
        /\ \A j \in Calls :
             /\ call'[j].req = call[j].req /\ call'[j].answer = call[j].answer
             /\ call'[j].pc = IF j = k THEN "answered"
                              ELSE IF call[j].pc = "blocked" THEN "read" ELSE call[j].pc
    BY <1>0, <1>5, UnlockMoves DEF Unlock, At
  <2>2. Saving' = Saving
    BY <2>1 DEF Saving
  <2> QED BY <1>0, <2>1, <2>2 DEF AloneSaving, SavedHolds, Saving
<1> QED BY <1>1, <1>2, <1>3, <1>4, <1>5 DEF Server, HandlerStep

\* The answer to the one PUT is shown; any other message is not "saved".
LEMMA SettleKeeps ==
    ASSUME PanelsInv, NEW k \in Window, Settle(k)
    PROVE  PanelsInv'
<1>0. ServerInv /\ AloneSaving /\ SavedHolds /\ PanelTyped /\ k \in Calls
  BY PanelsAssumption, TypeParts DEF PanelsInv, ServerInv
<1>1. PICK op \in {"config", "put"} : Settled(k, op)
  BY DEF Settle, ConfigLoaded, Saved, ProviderError
<1>2. /\ call[k].pc \in {"answered", "failed"} /\ call[k].req.op = op
      /\ target' = target /\ alone' = alone
  BY <1>1 DEF Settle, ConfigLoaded, Saved, ProviderError, Succeeded, Failed, Settled, ShowConfig
<1>3. PanelTyped'
  <2>1. CASE ConfigLoaded(k) \/ Saved(k)
    <3>1. field' \in Texts
      BY <1>0, <1>2, <2>1, ShownTarget DEF ConfigLoaded, Saved, ShowConfig, Settled
    <3>2. message' \in {"saved", "other"} /\ typed' = FALSE
      BY <2>1 DEF ConfigLoaded, Saved, ShowConfig
    <3>3. typed' \in BOOLEAN
      BY <3>2, Zenon
    <3> QED BY <1>0, <1>2, <3>1, <3>2, <3>3 DEF PanelTyped
  <2>2. CASE ProviderError(k)
    BY <1>0, <2>2 DEF ProviderError, PanelTyped
  <2> QED BY <2>1, <2>2 DEF Settle
<1>4. ServerInv' /\ Becomes(k, "idle", NoRequest, NoAnswer)
  <2>1. ~Lose(k)
    BY <1>0, <1>1, SettledBecomes, LoseBecomes DEF ServerInv, Becomes
  <2> QED BY <1>0, <1>1, <1>2, <1>3, <2>1, LeaveKeeps
<1>5. Saving' = Saving \ {k}
  BY <1>4 DEF Saving, Becomes
<1>6. AloneSaving'
  BY <1>0, <1>2, <1>4, <1>5 DEF AloneSaving, Becomes, Saving
<1>7. SavedHolds'
  <2> SUFFICES ASSUME alone, message' = "saved", Saving' = {} PROVE field' = target
    BY <1>2 DEF SavedHolds
  <2>1. Saved(k)
    BY DEF Settle, ConfigLoaded, ProviderError, ShowConfig
  <2>2. k \in Saving
    BY <1>0, <2>1 DEF Saved, Settled, Succeeded, Saving
  <2>3. call[k].answer.body = target
    BY <1>0, <2>1, <2>2 DEF AloneSaving, Saved, Succeeded
  <2> QED BY <2>1, <2>3 DEF Saved, ShowConfig
<1> QED BY <1>4, <1>6, <1>7 DEF PanelsInv

LEMMA LoseKeeps ==
    ASSUME PanelsInv, NEW k \in Window, Lose(k)
    PROVE  PanelsInv'
<1>0. ServerInv /\ AloneSaving /\ SavedHolds /\ PanelTyped /\ CallsTyped /\ k \in Calls
  BY PanelsAssumption, TypeParts DEF PanelsInv, ServerInv
<1>1. UNCHANGED <<target, field, message, typed, alone>> /\ call[k].pc # "idle"
  BY DEF Lose, panelVars
<1>2. PanelTyped'
  BY <1>0, <1>1 DEF PanelTyped
<1>3. ServerInv' /\ Becomes(k, "failed", call[k].req, NoAnswer)
  BY <1>0, <1>2, LeaveKeeps, LoseBecomes
<1>4. Saving' = Saving
  BY <1>1, <1>3 DEF Saving, Becomes
<1>5. AloneSaving'
  BY <1>0, <1>1, <1>3, <1>4 DEF AloneSaving, Becomes, Saving
<1>6. SavedHolds'
  BY <1>0, <1>1, <1>4 DEF SavedHolds
<1> QED BY <1>3, <1>5, <1>6 DEF PanelsInv

LEMMA SaveKeeps ==
    ASSUME PanelsInv, Save
    PROVE  PanelsInv'
<1>0. ServerInv /\ AloneSaving /\ SavedHolds /\ PanelTyped
  BY TypeParts DEF PanelsInv, ServerInv
<1>1. CASE field \notin HTTPURL
  <2>1. UNCHANGED <<target, rw, call, records, alone, field, typed>> /\ message' = "other"
    BY <1>1 DEF Save, adminVars
  <2>2. ServerInv'
    BY <1>0, <2>1 DEF ServerInv, TypeOK, CallsTyped, Handled, AdmittedAt, TargetAt, Locked
  <2>3. AloneSaving' /\ SavedHolds'
    BY <1>0, <2>1 DEF AloneSaving, Saving, SavedHolds
  <2> QED BY <2>2, <2>3 DEF PanelsInv
<1>2. CASE field \in HTTPURL
  <2>1. PICK k \in Window : /\ Send(k, Put(field)) /\ alone' = (Saving = {})
                            /\ UNCHANGED <<message, field, typed>>
    BY <1>2, SaveSlot
  <2>2. Put(field) \in Request /\ Put(field).op = "put" /\ k \in Calls
    BY <1>2, PanelsAssumption DEF Put, Request
  <2>3. alone' \in BOOLEAN
    BY <2>1, Zenon
  <2>4. PanelTyped'
    BY <1>0, <2>1, <2>3 DEF PanelTyped
  <2>5. ServerInv' /\ Becomes(k, "sent", Put(field), NoAnswer) /\ call[k].pc = "idle"
    BY <1>0, <2>1, <2>2, <2>4, SendKeeps
  <2>6. Saving' = Saving \cup {k}
    BY <2>2, <2>5 DEF Saving, Becomes
  <2>7. AloneSaving'
    BY <2>1, <2>5, <2>6 DEF AloneSaving, Becomes
  <2>8. SavedHolds'
    BY <2>6 DEF SavedHolds
  <2> QED BY <2>5, <2>7, <2>8 DEF PanelsInv
<1> QED BY <1>1, <1>2

LEMMA OthersKeep ==
    ASSUME PanelsInv, NEW k \in Calls \ Window, OtherSends(k) \/ OtherReceives(k)
    PROVE  PanelsInv'
<1>0. ServerInv /\ AloneSaving /\ SavedHolds /\ PanelTyped /\ CallsTyped
  BY TypeParts DEF PanelsInv, ServerInv
<1>1. CASE OtherSends(k)
  <2>1. PICK q \in OtherRequests : /\ Send(k, q) /\ alone' = (alone /\ q.op # "put")
                                   /\ UNCHANGED <<field, message, typed>>
    BY <1>1 DEF OtherSends
  <2>2. q \in Request
    BY PanelsAssumption
  <2>3. alone' \in BOOLEAN
    BY <2>1, Zenon
  <2>4. PanelTyped' /\ target' = target
    BY <1>0, <2>1, <2>3 DEF PanelTyped, Send
  <2>5. ServerInv' /\ Becomes(k, "sent", q, NoAnswer) /\ call[k].pc = "idle"
    BY <1>0, <2>1, <2>2, <2>4, SendKeeps
  <2>6. alone' => alone /\ q.op # "put"
    BY <2>1, Zenon
  <2>7. alone' => Saving' = Saving
    BY <2>5, <2>6 DEF Saving, Becomes
  <2>8. AloneSaving'
    <3>1. \A j \in Saving : call'[j] = call[j]
      BY <2>5 DEF Saving, Becomes
    <3> QED BY <1>0, <2>4, <2>6, <2>7, <3>1 DEF AloneSaving
  <2>9. SavedHolds'
    BY <1>0, <2>1, <2>4, <2>6, <2>7 DEF SavedHolds
  <2> QED BY <2>5, <2>8, <2>9 DEF PanelsInv
<1>2. CASE OtherReceives(k)
  <2>1. /\ call[k].pc = "answered" /\ Settled(k, call[k].req.op)
        /\ UNCHANGED <<target, field, message, typed, alone>>
    BY <1>2 DEF OtherReceives, Settled, panelVars
  <2>2. PanelTyped'
    BY <1>0, <2>1 DEF PanelTyped
  <2>3. ServerInv' /\ Becomes(k, "idle", NoRequest, NoAnswer)
    BY <1>0, <2>1, <2>2, LeaveKeeps, SettledBecomes
  <2>4. Saving' = Saving \ {k}
    BY <2>3 DEF Saving, Becomes
  <2>5. alone => Saving' = Saving
    BY <1>0, <2>4 DEF AloneSaving
  <2>6. AloneSaving'
    BY <1>0, <2>1, <2>3, <2>4 DEF AloneSaving, Becomes, Saving
  <2>7. SavedHolds'
    BY <1>0, <2>1, <2>5 DEF SavedHolds
  <2> QED BY <2>3, <2>6, <2>7 DEF PanelsInv
<1> QED BY <1>1, <1>2

LEMMA PanelsInductive == PanelsInv /\ [Next]_vars => PanelsInv'
<1> SUFFICES ASSUME PanelsInv, [Next]_vars PROVE PanelsInv'
  OBVIOUS
<1>0. ServerInv /\ AloneSaving /\ SavedHolds /\ PanelTyped
  BY TypeParts DEF PanelsInv, ServerInv
<1>1. ASSUME NEW text \in Typing, Type(text) PROVE PanelsInv'
  <2>1. UNCHANGED <<target, rw, call, records, message, alone>> /\ field' = text /\ typed' = TRUE
    BY <1>1 DEF Type, adminVars
  <2>2. PanelTyped'
    <3>1. typed' \in BOOLEAN
      BY <2>1, Zenon
    <3> QED BY <1>0, <2>1, <3>1, PanelsAssumption DEF PanelTyped
  <2>3. ServerInv'
    BY <1>0, <2>1, <2>2
    DEF ServerInv, TypeOK, PanelTyped, CallsTyped, Handled, AdmittedAt, TargetAt, Locked
  <2>4. AloneSaving' /\ SavedHolds'
    BY <1>0, <2>1 DEF AloneSaving, Saving, SavedHolds
  <2> QED BY <2>3, <2>4 DEF PanelsInv
<1>2. ASSUME NEW k \in Calls, Server(k) PROVE PanelsInv'
  BY <1>0, <1>2, ServerKeeps, ServerKeepsSaved DEF PanelsInv
<1>3. CASE (ProxyRecords \/ Prune) /\ UNCHANGED panelVars
  <2>1. ServerInv' /\ UNCHANGED <<target, rw, call, panelVars>>
    BY <1>0, <1>3, StoreKeeps
  <2>2. AloneSaving' /\ SavedHolds'
    BY <1>0, <2>1 DEF AloneSaving, Saving, SavedHolds, panelVars
  <2> QED BY <2>1, <2>2 DEF PanelsInv
<1>4. CASE UNCHANGED vars
  <2>1. UNCHANGED <<target, rw, call, records, field, message, typed, alone>>
    BY <1>4 DEF vars, adminVars, panelVars
  <2>2. ServerInv'
    BY <1>0, <2>1 DEF ServerInv, TypeOK, CallsTyped, Handled, AdmittedAt, TargetAt, Locked
  <2>3. AloneSaving' /\ SavedHolds'
    BY <1>0, <2>1 DEF AloneSaving, Saving, SavedHolds
  <2> QED BY <2>2, <2>3 DEF PanelsInv
<1> QED BY <1>1, <1>2, <1>3, <1>4, SaveKeeps, SettleKeeps, LoseKeeps, OthersKeep DEF Next

LEMMA PanelsInvariance == Spec => []PanelsInv
BY InitPanels, PanelsInductive, PTL DEF Spec

\* The server's and the panel's state have the types that the model gives them; among
\* them: whatever clients send at the same time, the target is always a valid URL
\* (server.go, handlePutConfig and validateTargetBaseURL).
THEOREM PanelsTyped == Spec => []TypeOK
BY PanelsInvariance, PTL DEF PanelsInv, ServerInv

\* What the panel reports as saved is what the server has, through any number of other
\* clients' reads, refused, late and lost requests (App.tsx, saveProvider; server.go).
THEOREM PanelsSavedHolds == Spec => []SavedHolds
BY PanelsInvariance, PTL DEF PanelsInv

-----------------------------------------------------------------------------
(* The refinement.                                                           *)

\* What the contract sees of a call.
SeenAs(pc, q, a, tgt) ==
    CASE pc \in {"idle", "failed"} -> Contract!None
      [] pc \in {"unlock", "answered"} -> Contract!Answered(a.status, a.body)
      [] pc = "respond" -> Contract!Answered(200, tgt)
      [] OTHER -> Contract!Waiting(q)

Seen == [k \in Calls |-> ContractState(k)]

Goal == [Contract!Next]_<<target, records, Seen>>

LEMMA SeenCall ==
    ASSUME NEW k \in Calls
    PROVE  /\ Seen[k] = SeenAs(call[k].pc, call[k].req, call[k].answer, target)
           /\ Seen'[k] = SeenAs(call'[k].pc, call'[k].req, call'[k].answer, target')
BY DEF Seen, ContractState, SeenAs, Contract!None, Contract!Answered, Contract!Waiting

\* What the contract sees of each kind of call.
LEMMA SeenKinds ==
    ASSUME NEW q, NEW a, NEW tgt
    PROVE  /\ \A pc \in {"idle", "failed"} : SeenAs(pc, q, a, tgt) = Contract!None
           /\ \A pc \in {"unlock", "answered"} :
                SeenAs(pc, q, a, tgt) = Contract!Answered(a.status, a.body)
           /\ SeenAs("respond", q, a, tgt) = Contract!Answered(200, tgt)
           /\ \A pc \in {"sent", "rlock", "blocked", "read", "lock", "drain", "assign"} :
                SeenAs(pc, q, a, tgt) = Contract!Waiting(q)
BY DEF SeenAs

\* A step of one call changes what is seen of it and nothing else, unless it changes
\* the target under another PUT's answer.
LEMMA SeenOne ==
    ASSUME NEW k \in Calls, NEW pc, NEW q, NEW a, Becomes(k, pc, q, a),
           target' = target \/ \A j \in Calls \ {k} : call[j].pc # "respond"
    PROVE  /\ Seen' = [Seen EXCEPT ![k] = SeenAs(pc, q, a, target')]
           /\ Seen'[k] = SeenAs(pc, q, a, target')
<1>1. Seen'[k] = SeenAs(pc, q, a, target')
  BY SeenCall DEF Becomes
<1>2. \A j \in Calls \ {k} : Seen'[j] = Seen[j]
  BY SeenCall DEF Becomes, SeenAs
<1>3. Seen = [j \in Calls |-> Seen[j]] /\ Seen' = [j \in Calls |-> Seen'[j]]
  BY DEF Seen
<1> HIDE DEF Seen
<1> QED BY <1>1, <1>2, <1>3

\* The contract speaks of the same requests, refusals and answers as the server.
LEMMA ContractTerms ==
    /\ Contract!Request = Request
    /\ \A q : Contract!Refusal(q) = Refusal(q)
    /\ \A q, tgt, recs : Contract!Body(q, tgt, recs) = Body(q, tgt, recs)
<1>1. Contract!Request = Request
  BY DEF Contract!Request, Request
<1>2. \A q : Contract!Refusal(q) = Refusal(q)
  BY DEF Contract!Refusal, Refusal, Contract!ValidTarget, ValidTarget
<1>3. \A recs : Contract!MetricsFromTelemetry(recs) = MetricsFromTelemetry(recs)
  BY DEF Contract!MetricsFromTelemetry, MetricsFromTelemetry, Contract!Cardinality, Cardinality,
         Contract!MapThenSumSet, MapThenSumSet, Contract!MapThenFoldSet, MapThenFoldSet
<1>4. \A recs : Contract!FailureCategories(recs) = FailureCategories(recs)
  BY <1>3 DEF Contract!FailureCategories, FailureCategories
<1>5. \A q, tgt, recs : Contract!Body(q, tgt, recs) = Body(q, tgt, recs)
  BY <1>3, <1>4 DEF Contract!Body, Body
<1> QED BY <1>1, <1>2, <1>5

LEMMA Distinct ==
    ASSUME NEW q, NEW status, NEW body
    PROVE  /\ Contract!None.at = "none" /\ Contract!Waiting(q).at = "waiting"
           /\ Contract!Waiting(q).req = q /\ Contract!Answered(status, body).at = "answered"
           /\ Contract!None # Contract!Waiting(q)
           /\ Contract!Waiting(q) # Contract!Answered(status, body)
<1>1. /\ Contract!None.at = "none" /\ Contract!Waiting(q).at = "waiting"
      /\ Contract!Waiting(q).req = q /\ Contract!Answered(status, body).at = "answered"
  BY DEF Contract!None, Contract!Waiting, Contract!Answered
<1> QED BY <1>1

\* The steps of the contract.
LEMMA GoalSame ==
    ASSUME target' = target, Seen' = Seen
    PROVE  Goal
BY DEF Goal, Contract!Next, Contract!Observe, Seen

LEMMA GoalSend ==
    ASSUME NEW k \in Calls, NEW q \in Request, Seen[k] = Contract!None,
           Seen' = [Seen EXCEPT ![k] = Contract!Waiting(q)], UNCHANGED <<target, records>>
    PROVE  Goal
<1>1. Contract!Send(k)
  BY ContractTerms DEF Contract!Send, Contract!Becomes, Seen
<1>2. Seen'[k] # Seen[k]
  BY Distinct DEF Seen
<1>3. Contract!Next
  BY <1>1, <1>2 DEF Contract!Next, Seen
<1> QED BY <1>3 DEF Goal

LEMMA GoalReturn ==
    ASSUME NEW k \in Calls, Seen' = [Seen EXCEPT ![k] = Contract!None],
           UNCHANGED <<target, records>>
    PROVE  Goal
<1>1. Contract!Return(k)
  BY DEF Contract!Return, Contract!Becomes, Seen
<1>2. CASE Seen'[k] # Seen[k]
  <2>1. Contract!Next
    BY <1>1, <1>2 DEF Contract!Next, Seen
  <2> QED BY <2>1 DEF Goal
<1>3. CASE Seen'[k] = Seen[k]
  <2>1. Seen = [j \in Calls |-> Seen[j]]
    BY DEF Seen
  <2>2. Seen' = Seen
    BY <1>3, <2>1
  <2> QED BY <2>2, GoalSame
<1> QED BY <1>2, <1>3

LEMMA GoalEffect ==
    ASSUME NEW k \in Calls, NEW q, NEW status, NEW body, Seen[k] = Contract!Waiting(q),
           Seen' = [Seen EXCEPT ![k] = Contract!Answered(status, body)],
           Contract!Write(k, q) \/ Contract!Read(k, q) \/ Contract!Refuse(k, q)
    PROVE  Goal
<1>1. Seen[k].at = "waiting" /\ Seen[k].req = q
  BY Distinct
<1>2. Contract!TakeEffect(k)
  <2>1. [j \in Calls |-> ContractState(j)][k] = Seen[k]
    BY DEF Seen
  <2> QED BY <1>1, <2>1 DEF Contract!TakeEffect
<1>3. Seen'[k] # Seen[k]
  BY Distinct DEF Seen
<1>4. Contract!Next
  BY <1>2, <1>3 DEF Contract!Next, Seen
<1> QED BY <1>4 DEF Goal

\* A request takes effect with its refusal, with its one read, or with its assignment.
LEMMA ServerImplements ==
    ASSUME ServerInv, NEW k \in Calls, Server(k)
    PROVE  Goal
<1>0. CallsTyped /\ AdmittedAt(k) /\ Locked
  BY DEF ServerInv, Handled
<1>1. CASE Refuse(k) \/ HandleMetrics(k) \/ ReadAndRUnlock(k)
  <2>0. PICK status, body : Answers(k, status, body)
    BY <1>1, AnswerBecomes
  <2> DEFINE q == call[k].req
             a == [status |-> status, body |-> body]
  <2>1. /\ Becomes(k, "answered", q, a) /\ UNCHANGED <<target, records>>
        /\ a.status = status /\ a.body = body
    BY <2>0 DEF Answers
  <2>2. call[k].pc \in {"sent", "read"}
    BY <1>1 DEF Refuse, HandleMetrics, ReadAndRUnlock, At
  <2>3. Seen[k] = Contract!Waiting(q)
    BY <2>2, SeenCall, SeenKinds
  <2>4. Seen' = [Seen EXCEPT ![k] = Contract!Answered(status, body)]
    <3> HIDE DEF a
    <3>1. SeenAs("answered", q, a, target') = Contract!Answered(status, body)
      BY <2>1, SeenKinds
    <3>2. Seen' = [Seen EXCEPT ![k] = SeenAs("answered", q, a, target')]
      BY <2>1, SeenOne
    <3> QED BY <3>1, <3>2
  <2>5. CASE Refuse(k)
    <3>1. status = Refusal(q) /\ Refusal(q) # 200 /\ body = NoBody
      BY <2>0, <2>5 DEF Answers, Refuse
    <3>2. Contract!Refuse(k, q)
      BY <2>1, <2>4, <3>1, ContractTerms DEF Contract!Refuse, Contract!Becomes, Seen
    <3> QED BY <2>3, <2>4, <3>2, GoalEffect
  <2>6. CASE ~Refuse(k)
    <3>1. status = 200 /\ body = Body(q, target, records)
      BY <2>0, <2>6 DEF Answers
    <3>2. q.op # "put" /\ Refusal(q) = 200
      BY <1>0, <1>1, <2>6 DEF HandleMetrics, ReadAndRUnlock, At, AdmittedAt, Reading
    <3>3. Contract!Read(k, q)
      BY <2>1, <2>4, <3>1, <3>2, ContractTerms DEF Contract!Read, Contract!Becomes, Seen
    <3> QED BY <2>3, <2>4, <3>3, GoalEffect
  <2> QED BY <2>5, <2>6
<1>2. CASE HandleRead(k) \/ HandlePut(k) \/ RLock(k) \/ Lock(k) \/ Drain(k)
  <2>1. PICK pc \in {"rlock", "lock", "read", "blocked", "drain", "assign"} :
          Becomes(k, pc, call[k].req, call[k].answer)
    BY <1>2, MoveBecomes
  <2>2. target' = target /\ call[k].pc \in {"sent", "rlock", "lock", "drain"}
    BY <1>2 DEF HandleRead, HandlePut, RLock, Lock, Drain, At
  <2>3. Seen[k] = Contract!Waiting(call[k].req)
    BY <2>2, SeenCall, SeenKinds
  <2>4. Seen' = [Seen EXCEPT ![k] = Contract!Waiting(call[k].req)]
    BY <2>1, <2>2, SeenOne, SeenKinds
  <2>5. Seen' = Seen
    BY <2>3, <2>4 DEF Seen
  <2> QED BY <2>2, <2>5, GoalSame
<1>3. CASE Assign(k)
  <2> DEFINE q == call[k].req
  <2>1. /\ Becomes(k, "respond", q, call[k].answer) /\ call[k].pc = "assign"
        /\ target' = TrimRight[q.text] /\ records' = records
    BY <1>3, MoveBecomes DEF Assign, At
  <2>2. \A j \in Calls \ {k} : call[j].pc # "respond"
    BY <1>0, <2>1 DEF Locked, Writing
  <2>3. Seen[k] = Contract!Waiting(q)
    BY <2>1, SeenCall, SeenKinds
  <2>4. Seen' = [Seen EXCEPT ![k] = Contract!Answered(200, target')]
    <3>1. Seen' = [Seen EXCEPT ![k] = SeenAs("respond", q, call[k].answer, target')]
      BY <2>1, <2>2, SeenOne
    <3>2. SeenAs("respond", q, call[k].answer, target') = Contract!Answered(200, target')
      BY SeenKinds
    <3> QED BY <3>1, <3>2
  <2>5. q.op = "put" /\ Refusal(q) = 200
    BY <1>0, <2>1 DEF AdmittedAt, Writing
  <2>6. Contract!Write(k, q)
    BY <2>1, <2>4, <2>5, ContractTerms DEF Contract!Write, Contract!Becomes, Seen
  <2> QED BY <2>3, <2>4, <2>6, GoalEffect
<1>4. CASE PutResponse(k)
  <2> DEFINE a == [status |-> 200, body |-> target]
  <2>1. Becomes(k, "unlock", call[k].req, a) /\ call[k].pc = "respond" /\ target' = target
    BY <1>4, MoveBecomes DEF PutResponse, At
  <2>2. a.status = 200 /\ a.body = target
    OBVIOUS
  <2> HIDE DEF a
  <2>3. Seen[k] = Contract!Answered(200, target)
    BY <2>1, SeenCall, SeenKinds
  <2>4. SeenAs("unlock", call[k].req, a, target') = Contract!Answered(200, target)
    BY <2>2, SeenKinds
  <2>5. Seen' = [Seen EXCEPT ![k] = Contract!Answered(200, target)]
    BY <2>1, <2>4, SeenOne
  <2>6. Seen' = Seen
    BY <2>3, <2>5 DEF Seen
  <2> QED BY <2>1, <2>6, GoalSame
<1>5. CASE Unlock(k)
  <2>1. /\ call[k].pc = "unlock" /\ target' = target
        /\ \A j \in Calls :
             /\ call'[j].req = call[j].req /\ call'[j].answer = call[j].answer
             /\ call'[j].pc = IF j = k THEN "answered"
                              ELSE IF call[j].pc = "blocked" THEN "read" ELSE call[j].pc
    BY <1>5, UnlockMoves DEF Unlock, At
  <2>2. \A j \in Calls : Seen'[j] = Seen[j]
    BY <2>1, SeenCall DEF SeenAs
  <2>3. Seen' = Seen
    BY <2>2 DEF Seen
  <2> QED BY <2>1, <2>3, GoalSame
<1> QED BY <1>1, <1>2, <1>3, <1>4, <1>5 DEF Server, HandlerStep

LEMMA StepImplements ==
    ASSUME PanelsInv, [Next]_vars
    PROVE  Goal
<1>0. ServerInv /\ CallsTyped
  BY DEF PanelsInv, ServerInv
<1>s. ASSUME NEW k \in Calls, NEW q \in Request, Send(k, q) PROVE Goal
  <2>1. Becomes(k, "sent", q, NoAnswer) /\ call[k].pc = "idle" /\ UNCHANGED <<target, records>>
    <3>1. call[k].pc = "idle" /\ UNCHANGED <<target, records>>
      BY <1>s DEF Send, Idle
    <3> QED BY <1>0, <1>s, <3>1, SendBecomes
  <2>2. Seen[k] = Contract!None /\ Seen' = [Seen EXCEPT ![k] = Contract!Waiting(q)]
    BY <2>1, SeenCall, SeenOne, SeenKinds
  <2> QED BY <2>1, <2>2, GoalSend
<1>r. ASSUME NEW k \in Calls, Lose(k) \/ \E op : Settled(k, op) PROVE Goal
  <2>1. PICK pc, q : pc \in {"idle", "failed"} /\ Becomes(k, pc, q, NoAnswer)
    BY <1>0, <1>r, LoseBecomes, SettledBecomes
  <2>2. UNCHANGED <<target, records>>
    BY <1>r DEF Lose, Settled
  <2>3. Seen' = [Seen EXCEPT ![k] = Contract!None]
    BY <2>1, <2>2, SeenOne, SeenKinds
  <2> QED BY <2>2, <2>3, GoalReturn
<1>u. ASSUME UNCHANGED <<target, call>> PROVE Goal
  <2>1. Seen' = Seen
    BY <1>u DEF Seen, ContractState
  <2> QED BY <1>u, <2>1, GoalSame
<1>1. ASSUME NEW text \in Typing, Type(text) PROVE Goal
  BY <1>1, <1>u DEF Type, adminVars
<1>2. CASE Save
  <2>1. CASE field \in HTTPURL
    <3>1. PICK k \in Window : Send(k, Put(field))
      BY <1>2, <2>1, SaveSlot
    <3>2. Put(field) \in Request /\ k \in Calls
      BY <2>1, PanelsAssumption DEF Put, Request
    <3> QED BY <3>1, <3>2, <1>s
  <2>2. CASE field \notin HTTPURL
    BY <1>2, <2>2, <1>u DEF Save, adminVars
  <2> QED BY <2>1, <2>2
<1>3. ASSUME NEW k \in Window, Settle(k) \/ Lose(k) PROVE Goal
  BY <1>3, <1>r, PanelsAssumption DEF Settle, ConfigLoaded, Saved, ProviderError
<1>4. ASSUME NEW k \in Calls, Server(k) PROVE Goal
  BY <1>0, <1>4, ServerImplements
<1>5. ASSUME NEW k \in Calls \ Window, OtherSends(k) \/ OtherReceives(k) PROVE Goal
  BY <1>5, <1>r, <1>s, PanelsAssumption DEF OtherSends, OtherReceives
<1>6. CASE (ProxyRecords \/ Prune) /\ UNCHANGED panelVars
  BY <1>6, <1>u DEF ProxyRecords, Prune
<1>7. CASE UNCHANGED vars
  BY <1>7, <1>u DEF vars, adminVars
<1> QED BY <1>1, <1>2, <1>3, <1>4, <1>5, <1>6, <1>7 DEF Next

LEMMA InitImplements == PanelsInit => Contract!Init
<1> SUFFICES ASSUME PanelsInit PROVE Contract!Init
  OBVIOUS
<1> DEFINE w == CHOOSE k \in Window : TRUE
<1>1. /\ Idle.pc = "idle" /\ Sent(Get("config")).pc = "sent"
      /\ Sent(Get("config")).req = Get("config") /\ Get("config") \in Request
  BY DEF Idle, Sent, Get, Request
<1>2. call = [k \in Calls |-> IF k = w THEN Sent(Get("config")) ELSE Idle]
  BY DEF PanelsInit
<1>3. \A k \in Calls : Seen[k] \in {Contract!None, Contract!Waiting(Get("config"))}
  BY <1>1, <1>2, SeenCall, SeenKinds
<1>4. Seen \in [Calls -> {Contract!None} \cup {Contract!Waiting(q) : q \in Contract!Request}]
  BY <1>1, <1>3, ContractTerms DEF Seen
<1>5. target = FirstTarget
  BY DEF PanelsInit, Init
<1> QED BY <1>4, <1>5 DEF Contract!Init, Seen

\* Every behaviour of the server and its clients is one of the contract: whatever the
\* handlers interleave, each request is as if it were handled at one instant
\* (server.go, all handlers).
THEOREM PanelsImplementContract == Spec => ImplementsContract
<1>1. PanelsInv /\ [Next]_vars => [Contract!Next]_(Contract!vars)
  BY StepImplements DEF Goal, Seen, Contract!vars
<1> QED BY InitImplements, PanelsInvariance, <1>1, PTL
        DEF Spec, ImplementsContract, Contract!Spec
=============================================================================
