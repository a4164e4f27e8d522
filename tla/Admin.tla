------------------------------- MODULE Admin --------------------------------
(***************************************************************************)
(* The admin API server (internal/admin): handlers that run concurrently,   *)
(* one per request, on a configuration under a sync.RWMutex and on the      *)
(* telemetry store, which has its own lock.  net/http sends the short       *)
(* answers after the handler has returned.  The clients and the network are *)
(* not part of it: see Panels.                                              *)
(***************************************************************************)
EXTENDS Telemetry, AdminRequests

CONSTANTS
    Calls,          \* the requests that may be in progress at the same time
    Nobody,         \* no call holds the write lock
    Torn,           \* what a read finds while an assignment is under way
    FirstTarget,    \* RuntimeConfig.TargetBaseURL, as NewServer is given it
    Outcomes,       \* the telemetry records the proxy may add
    Instants,       \* the times at which someone may prune them
    MaxHandled      \* bound: the records in the store

ASSUME AdminAssumption ==
    /\ Nobody \notin Calls
    /\ Torn \notin Texts \cup {NoBody}
    /\ FirstTarget \in ValidURL
    /\ MaxHandled \in Nat /\ Instants \subseteq Nat
    /\ Outcomes \subseteq [req : STRING, status : Nat, latency : Nat, startedAt : Nat,
                           kind : ErrorKind]

VARIABLES
    target,         \* config.TargetBaseURL
    rw,             \* the RWMutex: who has announced to write or writes, who reads
    call            \* call[k]: the request of k and its handler

adminVars == <<target, rw, call, records>>

\* "sent" to "answered": on its way, in the handler, answered.  The handler is at
\* RLock, made to wait there, holds it; is at Lock, waits for the readers to leave,
\* writes, computes its answer, is at Unlock.
HandlerPC == {"rlock", "blocked", "read", "lock", "drain", "assign", "respond", "unlock"}

NoRequest == [op |-> "status", text |-> NoBody, token |-> FALSE]
NoAnswer == [status |-> 0, body |-> NoBody]
Idle == [pc |-> "idle", req |-> NoRequest, answer |-> NoAnswer]

Init ==
    /\ target = FirstTarget
    /\ rw = [writer |-> Nobody, readers |-> {}]
    /\ records = <<>>

Goto(k, pc) == call' = [call EXCEPT ![k].pc = pc]

Respond(k, pc, status, body) ==
    call' = [call EXCEPT ![k].pc = pc, ![k].answer = [status |-> status, body |-> body]]

At(k, pc) == call[k].pc = pc /\ UNCHANGED records

-----------------------------------------------------------------------------
(* The handlers.                                                             *)

Refuse(k) ==
    LET req == call[k].req
    IN /\ At(k, "sent")
       /\ Refusal(req) # 200
       /\ Respond(k, "answered", Refusal(req), NoBody)
       /\ UNCHANGED <<target, rw>>

\* handleMetrics: a snapshot of the telemetry store, without the server's lock.
HandleMetrics(k) ==
    /\ At(k, "sent")
    /\ call[k].req.op = "metrics" /\ Refusal(call[k].req) = 200
    /\ Respond(k, "answered", 200, Body(call[k].req, target, records))
    /\ UNCHANGED <<target, rw>>

HandleRead(k) ==
    /\ At(k, "sent")
    /\ call[k].req.op \in {"status", "config", "diagnostics"} /\ Refusal(call[k].req) = 200
    /\ Goto(k, "rlock")
    /\ UNCHANGED <<target, rw>>

HandlePut(k) ==
    /\ At(k, "sent")
    /\ call[k].req.op = "put" /\ Refusal(call[k].req) = 200
    /\ Goto(k, "lock")
    /\ UNCHANGED <<target, rw>>

\* Mutant: the configuration is read without the lock.
RLockSkipped(k) ==
    /\ At(k, "rlock")
    /\ Goto(k, "read")
    /\ UNCHANGED <<target, rw>>

\* A reader waits for a writer that has announced itself.
RLock(k) ==
    /\ At(k, "rlock")
    /\ IF rw.writer = Nobody
       THEN rw' = [rw EXCEPT !.readers = @ \cup {k}] /\ Goto(k, "read")
       ELSE rw' = rw /\ Goto(k, "blocked")
    /\ UNCHANGED target

\* The target as memory shows it.
Observed == IF \E k \in Calls : call[k].pc = "assign" THEN Torn ELSE target

\* The answer is built under the lock; diagnostics takes its snapshot there too.
ReadAndRUnlock(k) ==
    /\ At(k, "read")
    /\ Respond(k, "answered", 200, Body(call[k].req, Observed, records))
    /\ rw' = [rw EXCEPT !.readers = @ \ {k}]
    /\ UNCHANGED target

\* Writers are serialised, and an announced one keeps new readers out.
Lock(k) ==
    /\ At(k, "lock")
    /\ rw.writer = Nobody
    /\ rw' = [rw EXCEPT !.writer = k]
    /\ Goto(k, "drain")
    /\ UNCHANGED target

Drain(k) ==
    /\ At(k, "drain")
    /\ rw.readers = {}
    /\ Goto(k, "assign")
    /\ UNCHANGED <<target, rw>>

\* Mutant: the slashes at the end are stored.
AssignUntrimmed(k) ==
    /\ At(k, "assign")
    /\ target' = call[k].req.text
    /\ Goto(k, "respond")
    /\ UNCHANGED rw

Assign(k) ==
    /\ At(k, "assign")
    /\ target' = TrimRight[call[k].req.text]
    /\ Goto(k, "respond")
    /\ UNCHANGED rw

\* redactedConfigResponse(s.config), still under the lock.
PutResponse(k) ==
    /\ At(k, "respond")
    /\ Respond(k, "unlock", 200, Observed)
    /\ UNCHANGED <<target, rw>>

\* Mutant: the lock is never released.
UnlockForgotten(k) ==
    /\ At(k, "unlock")
    /\ Goto(k, "answered")
    /\ UNCHANGED <<target, rw>>

\* The readers that wait get the lock before the next writer.
Unlock(k) ==
    LET admitted == {j \in Calls : call[j].pc = "blocked"}
    IN /\ At(k, "unlock")
       /\ rw' = [writer |-> Nobody, readers |-> admitted]
       /\ call' = [j \in Calls |->
                     IF j = k THEN [call[k] EXCEPT !.pc = "answered"]
                     ELSE IF j \in admitted THEN [call[j] EXCEPT !.pc = "read"]
                     ELSE call[j]]
       /\ UNCHANGED target

\* A step of the handler of k, other than to take the writers' lock.
HandlerStep(k) ==
    \/ Refuse(k) \/ HandleMetrics(k) \/ HandleRead(k) \/ HandlePut(k)
    \/ RLock(k) \/ ReadAndRUnlock(k)
    \/ Drain(k) \/ Assign(k) \/ PutResponse(k) \/ Unlock(k)

-----------------------------------------------------------------------------
(* The telemetry store's other users.                                        *)

ProxyRecords ==
    /\ Len(records) < MaxHandled
    /\ \E outcome \in Outcomes : Record(outcome)
    /\ UNCHANGED <<target, rw, call>>

Prune ==
    /\ \E now \in Instants : Cleanup(now, TRUE)
    /\ UNCHANGED <<target, rw, call>>
=============================================================================
