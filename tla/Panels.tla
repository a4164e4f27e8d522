------------------------------- MODULE Panels -------------------------------
(***************************************************************************)
(* The provider panel of the desktop window (App.tsx) as a client of the    *)
(* admin API, through the main process (main.ts, adminClient.ts), beside    *)
(* other clients of the same server, the diagnostics panel among them.      *)
(* Requests travel on connections of their own: they arrive, and their      *)
(* answers, in any order, and either may get lost.  The Save button is not  *)
(* disabled while a save is under way.                                      *)
(***************************************************************************)
EXTENDS Admin

CONSTANTS
    Window,         \* the calls of the window; the others are other clients'
    HTTPURL,        \* the texts that are http or https URLs for new URL()
    EmptyText,      \* the input field of a new window
    Typing,         \* the texts a user may type
    OtherRequests   \* what other clients send

ASSUME PanelsAssumption ==
    /\ Window \subseteq Calls /\ Window # {}
    /\ HTTPURL \subseteq Texts
    /\ EmptyText \in Texts \ HTTPURL
    /\ Typing \subseteq Texts
    /\ OtherRequests \subseteq Request

VARIABLES
    field,          \* the provider panel's input field
    message,        \* the line below it: that the target is saved, or something else
    typed,          \* history: the user has typed since the field was last set
    alone           \* history: no other PUT was under way since the last save began

panelVars == <<field, message, typed, alone>>
vars == <<adminVars, panelVars>>

\* "failed": fetch was rejected.
PC == HandlerPC \cup {"idle", "sent", "answered", "failed"}

TypeOK ==
    /\ target \in ValidURL
    /\ rw \in [writer : Calls \cup {Nobody}, readers : SUBSET Calls]
    /\ \A k \in Calls : call[k].pc \in PC /\ call[k].req \in Request
    /\ records \in Seq(Outcomes)
    /\ field \in Texts
    /\ message \in {"saved", "other"}
    /\ typed \in BOOLEAN /\ alone \in BOOLEAN

Get(op) == [op |-> op, text |-> NoBody, token |-> TRUE]
Put(text) == [op |-> "put", text |-> text, token |-> TRUE]

Sent(req) == [Idle EXCEPT !.pc = "sent", !.req = req]

Send(k, req) ==
    /\ call[k] = Idle
    /\ call' = [call EXCEPT ![k] = Sent(req)]
    /\ UNCHANGED <<target, rw, records>>

\* The window opens: the provider panel asks for the configuration.
PanelsInit ==
    /\ Init
    /\ LET w == CHOOSE k \in Window : TRUE
       IN call = [k \in Calls |-> IF k = w THEN Sent(Get("config")) ELSE Idle]
    /\ field = EmptyText
    /\ message = "other"
    /\ typed = FALSE
    /\ alone = TRUE

-----------------------------------------------------------------------------
(* The user.                                                                 *)

\* onChange; the message stays.
Type(text) ==
    /\ text # field
    /\ field' = text
    /\ typed' = TRUE
    /\ UNCHANGED <<adminVars, message, alone>>

Saving == {k \in Calls : call[k].pc # "idle" /\ call[k].req.op = "put"}

\* saveProvider up to its await: the text is checked in the panel, and by
\* updateAdminConfig once more.
Save ==
    LET k == CHOOSE k \in Window : call[k] = Idle
    IN /\ \E slot \in Window : call[slot] = Idle
       /\ IF field \in HTTPURL
          THEN /\ Send(k, Put(field))
               /\ alone' = (Saving = {})
               /\ UNCHANGED message
          ELSE /\ message' = "other"
               /\ UNCHANGED <<adminVars, alone>>
       /\ UNCHANGED <<field, typed>>

-----------------------------------------------------------------------------
(* The answers.                                                              *)

Settled(k, op) ==
    /\ call[k].req.op = op
    /\ call' = [call EXCEPT ![k] = Idle]
    /\ UNCHANGED <<target, rw, records>>

Succeeded(k) == call[k].pc = "answered" /\ call[k].answer.status = 200

Failed(k) == call[k].pc = "failed" \/ (call[k].pc = "answered" /\ call[k].answer.status # 200)

\* setTarget and setMessage of a configuration that has arrived, whatever the user
\* has typed meanwhile.
ShowConfig(k, text) ==
    /\ field' = call[k].answer.body
    /\ message' = text
    /\ typed' = FALSE
    /\ UNCHANGED <<alone>>

ConfigLoaded(k) ==
    /\ Succeeded(k)
    /\ Settled(k, "config")
    /\ ShowConfig(k, "other")

\* Mutant: the field is left as it was.
SavedKeepsField(k) ==
    /\ Succeeded(k)
    /\ Settled(k, "put")
    /\ message' = "saved"
    /\ typed' = FALSE
    /\ UNCHANGED <<field, alone>>

Saved(k) ==
    /\ Succeeded(k)
    /\ Settled(k, "put")
    /\ ShowConfig(k, "saved")

\* An answer that is not ok, or no answer: the field stays.
ProviderError(k) ==
    /\ Failed(k)
    /\ Settled(k, "config") \/ Settled(k, "put")
    /\ message' = "other"
    /\ UNCHANGED <<field, typed, alone>>

Settle(k) == ConfigLoaded(k) \/ Saved(k) \/ ProviderError(k)

-----------------------------------------------------------------------------
(* The network and other clients.                                            *)

\* fetch is rejected: the request never arrived, or its answer got lost.
Lose(k) ==
    /\ call[k].pc \in {"sent", "answered"}
    /\ call' = [call EXCEPT ![k].pc = "failed", ![k].answer = NoAnswer]
    /\ UNCHANGED <<target, rw, records, panelVars>>

OtherSends(k) ==
    \E req \in OtherRequests :
        /\ Send(k, req)
        /\ alone' = (alone /\ req.op # "put")
        /\ UNCHANGED <<field, message, typed>>

OtherReceives(k) ==
    /\ call[k].pc = "answered"
    /\ Settled(k, call[k].req.op)
    /\ UNCHANGED panelVars

Server(k) == (HandlerStep(k) \/ Lock(k)) /\ UNCHANGED panelVars

Next ==
    \/ \E text \in Typing : Type(text)
    \/ Save
    \/ \E k \in Window : Settle(k) \/ Lose(k)
    \/ \E k \in Calls : Server(k)
    \/ \E k \in Calls \ Window : OtherSends(k) \/ OtherReceives(k)
    \/ (ProxyRecords \/ Prune) /\ UNCHANGED panelVars

Spec == PanelsInit /\ [][Next]_vars

\* The Go scheduler runs a handler that can run; a sync.Mutex does not let a writer
\* starve; a request arrives or fails, and its answer too, since fetch gives up in the
\* end; the event loop runs what is settled.
FairSpec ==
    /\ Spec
    /\ \A k \in Calls :
         /\ WF_vars(HandlerStep(k) /\ UNCHANGED panelVars)
         /\ SF_vars(Lock(k) /\ UNCHANGED panelVars)
    /\ \A k \in Window : WF_vars(Settle(k))

-----------------------------------------------------------------------------
(* Properties.                                                               *)

\* What the provider panel reports as saved is what the server has: when the last
\* thing shown is "Provider target saved", nothing has been typed since and no save is
\* under way, the field is the server's target, through refused and lost requests, a
\* text that the two sides read differently, and the answer to the first load however
\* late; as long as no one else changes the target and the user does not save twice at
\* a time (App.tsx, saveProvider; server.go, handlePutConfig).
SavedHolds ==
    alone /\ message = "saved" /\ ~typed /\ Saving = {} => field = target

\* Every request is answered or fails, however many others keep reading and writing
\* (server.go, the locks of the handlers; App.tsx, the awaits of the panels).
CallsSettle == \A k \in Window : call[k].pc = "sent" ~> call[k].pc = "idle"

-----------------------------------------------------------------------------
(* The server implements its contract.                                       *)

\* A PUT takes effect with its assignment; its answer is then what the configuration
\* says until it is computed.
ContractState(k) ==
    LET c == call[k]
    IN CASE c.pc \in {"idle", "failed"} -> [at |-> "none"]
         [] c.pc \in {"unlock", "answered"} ->
              [at |-> "answered", status |-> c.answer.status, body |-> c.answer.body]
         [] c.pc = "respond" -> [at |-> "answered", status |-> 200, body |-> target]
         [] OTHER -> [at |-> "waiting", req |-> c.req]

Contract == INSTANCE AdminContract WITH state <- [k \in Calls |-> ContractState(k)]

\* Seen by its clients the server handles one request at a time: each reads or changes
\* the configuration and the telemetry at one instant, a PUT is answered with the
\* target it made, and a refused request changes nothing (server.go, all handlers).
ImplementsContract == Contract!Spec
=============================================================================
