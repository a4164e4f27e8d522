--------------------------- MODULE AdminContract ----------------------------
(***************************************************************************)
(* What the admin API promises its clients: a target and a telemetry store  *)
(* that every request reads or changes at one instant between the moment it *)
(* is sent and the moment it is answered, as if requests came one by one.   *)
(***************************************************************************)
EXTENDS AdminRequests

CONSTANTS Calls, FirstTarget

VARIABLES
    target,
    records,
    state       \* state[k]: no request, a request that waits, or its answer

vars == <<target, records, state>>

None == [at |-> "none"]
Waiting(req) == [at |-> "waiting", req |-> req]
Answered(status, body) == [at |-> "answered", status |-> status, body |-> body]

Becomes(k, s) == state' = [state EXCEPT ![k] = s]

Init ==
    /\ target = FirstTarget
    /\ state \in [Calls -> {None} \cup {Waiting(req) : req \in Request}]

Send(k) ==
    /\ state[k] = None
    /\ \E req \in Request : Becomes(k, Waiting(req))
    /\ UNCHANGED <<target, records>>

\* A change of the target is answered with the target it made.
Write(k, req) ==
    /\ req.op = "put" /\ Refusal(req) = 200
    /\ target' = TrimRight[req.text]
    /\ Becomes(k, Answered(200, target'))
    /\ UNCHANGED records

Read(k, req) ==
    /\ req.op # "put" /\ Refusal(req) = 200
    /\ Becomes(k, Answered(200, Body(req, target, records)))
    /\ UNCHANGED <<target, records>>

Refuse(k, req) ==
    /\ Refusal(req) # 200
    /\ Becomes(k, Answered(Refusal(req), NoBody))
    /\ UNCHANGED <<target, records>>

TakeEffect(k) ==
    /\ state[k].at = "waiting"
    /\ LET req == state[k].req IN Write(k, req) \/ Read(k, req) \/ Refuse(k, req)

\* The client has its answer, or gives up.
Return(k) ==
    /\ Becomes(k, None)
    /\ UNCHANGED <<target, records>>

\* The proxy records requests, and someone may prune the records.
Observe == UNCHANGED <<target, state>>

Next ==
    \/ \E k \in Calls : state'[k] # state[k] /\ (Send(k) \/ TakeEffect(k) \/ Return(k))
    \/ Observe

Spec == Init /\ [][Next]_vars
=============================================================================
