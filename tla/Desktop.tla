------------------------------ MODULE Desktop -------------------------------
(***************************************************************************)
(* The dashboard of the desktop companion (desktop/src/App.tsx, status.ts)  *)
(* in front of the supervisor: one window, whose button starts or stops the *)
(* proxy by IPC calls into the main process (main.ts), and which shows what *)
(* the calls return.  Between a click, the call, the admin API's answer and *)
(* the new picture anything else may happen; nothing tells the window.      *)
(* Calls of restart(), and of code other than the window, may come between. *)
(* Closing the window quits the application, which may be launched again.   *)
(***************************************************************************)
EXTENDS Supervisor, FiniteSets

CONSTANT Slots      \* the callers that are calls of the window, in flight or not

ASSUME DesktopAssumption ==
    Slots \subseteq Callers /\ Slots # {}

VARIABLES
    view,       \* the kind of the DashboardState, "closed" while there is no window
    ask,        \* ask[k]: the IPC message of slot k that the main process has not taken
    reply,      \* reply[k]: the RuntimeStatus on its way to the window
    alone       \* history: no caller but the window has called

desktop == <<view, ask, reply, alone>>
allVars == <<vars, desktop>>

NoReply == [pc |-> "none", state |-> "stopped", denied |-> FALSE]

\* "denied": lastError speaks of a permission: of the admin API, or to run the binary.
Reply == [pc : {"none", "admin", "sent"}, state : {"stopped", "running", "error"},
          denied : BOOLEAN]

DesktopTypeOK ==
    /\ TypeOK
    /\ view \in {"closed", "loading", "empty", "healthy", "error", "permission-denied"}
    /\ ask \in [Slots -> {"none", "status", "start", "stop"}]
    /\ reply \in [Slots -> Reply]
    /\ alone \in BOOLEAN

\* A slot without a call.
Free(k) == ask[k] = "none" /\ reply[k] = NoReply /\ call[k] = "idle"

\* A message goes out on a free slot.
Send(message) ==
    LET k == CHOOSE k \in Slots : Free(k)
    IN /\ \E slot \in Slots : Free(slot)
       /\ ask' = [ask EXCEPT ![k] = message]

\* The first message of a window that opens.
Asking ==
    LET k == CHOOSE k \in Slots : TRUE
    IN [slot \in Slots |-> IF slot = k THEN "status" ELSE "none"]

\* The window opens and asks for the status.
DesktopInit ==
    /\ Init
    /\ view = "loading"
    /\ ask = Asking
    /\ reply = [k \in Slots |-> NoReply]
    /\ alone = TRUE

-----------------------------------------------------------------------------
(* The window.                                                               *)

\* Mutant: the button is not disabled while a call is in progress.
ClickAlways ==
    /\ view # "closed"
    /\ view' = "loading"
    /\ Send(IF view = "healthy" THEN "stop" ELSE "start")
    /\ UNCHANGED <<vars, reply, alone>>

\* handlePrimaryAction up to its await.  The button is disabled while loading.
Click ==
    /\ view \notin {"closed", "loading"}
    /\ view' = "loading"
    /\ Send(IF view = "healthy" THEN "stop" ELSE "start")
    /\ UNCHANGED <<vars, reply, alone>>

DashboardStateFromRuntime(runtime) ==
    CASE runtime.denied                                  -> "permission-denied"
      [] ~runtime.denied /\ runtime.state = "error"      -> "error"
      [] ~runtime.denied /\ runtime.state = "running"    -> "healthy"
      [] ~runtime.denied /\ runtime.state = "stopped"    -> "empty"

\* The promise of the call is settled, in effect or handler alike.
Show(k) ==
    /\ reply[k].pc = "sent"
    /\ view' = DashboardStateFromRuntime(reply[k])
    /\ reply' = [reply EXCEPT ![k] = NoReply]
    /\ UNCHANGED <<vars, ask, alone>>

\* The last window is closed, and the application quits: nothing of it is left but
\* the proxy.
Close ==
    /\ view # "closed"
    /\ view' = "closed"
    /\ ask' = [k \in Slots |-> "none"]
    /\ reply' = [k \in Slots |-> NoReply]
    /\ alone' = TRUE
    /\ Quit

\* The application is launched again.
Open ==
    /\ view = "closed"
    /\ view' = "loading"
    /\ ask' = Asking
    /\ UNCHANGED <<vars, reply, alone>>

-----------------------------------------------------------------------------
(* The main process.                                                         *)

\* status(): what is to be returned is put down before the admin API is asked.
Snapshot(now) == [pc |-> "admin", state |-> now, denied |-> FALSE]

\* An error is returned, or thrown and caught in the window, without asking.
Failures == [pc : {"sent"}, state : {"error"}, denied : BOOLEAN]

Answer(k, replies) == \E r \in replies : reply' = [reply EXCEPT ![k] = r]

TakeStatus(k) ==
    /\ ask[k] = "status"
    /\ ask' = [ask EXCEPT ![k] = "none"]
    /\ reply' = [reply EXCEPT ![k] = Snapshot(state)]
    /\ UNCHANGED <<vars, view, alone>>

\* What start() and stop() return.
Returns(k) ==
    IF call'[k] # "idle"
    THEN UNCHANGED reply
    ELSE Answer(k, IF state' = "error" THEN Failures ELSE {Snapshot(state')})

SpawnAny(k) == \E c \in Children, life \in {"starting", "failed"} : Spawn(k, c, life)

TakeStart(k) ==
    /\ ask[k] = "start"
    /\ ask' = [ask EXCEPT ![k] = "none"]
    /\ Start(k)
    /\ Returns(k)
    /\ UNCHANGED <<view, alone>>

TakeStop(k) ==
    /\ ask[k] = "stop"
    /\ ask' = [ask EXCEPT ![k] = "none"]
    /\ StopKill(k, "idle") \/ StopNothing(k, "idle") \/ StopFails(k, "idle")
    /\ Returns(k)
    /\ UNCHANGED <<view, alone>>

\* Mutant: the window does not catch a rejected call.
ResumeStartUncaught(k) ==
    /\ call[k] = "version"
    /\ \/ /\ VersionMismatch(k) \/ SpawnAny(k)
          /\ Returns(k)
       \/ /\ VersionRejects(k)
          /\ UNCHANGED reply
    /\ UNCHANGED <<view, ask, alone>>

\* start() goes on after its version check, or is rejected with it, which the window
\* catches.
ResumeStart(k) ==
    /\ call[k] = "version"
    /\ \/ /\ VersionMismatch(k) \/ SpawnAny(k)
          /\ Returns(k)
       \/ /\ VersionRejects(k)
          /\ Answer(k, Failures)
    /\ UNCHANGED <<view, ask, alone>>

\* The admin API answers or fails, or is not configured.
AdminAnswers(k, denied) ==
    /\ reply[k].pc = "admin"
    /\ reply' = [reply EXCEPT ![k] =
                      [pc |-> "sent", state |-> reply[k].state, denied |-> denied]]
    /\ UNCHANGED <<vars, view, ask, alone>>

\* Other code of the main process calls the supervisor.
OtherCall(k) ==
    /\ view # "closed"
    /\ Start(k) \/ Resume(k) \/ Stop(k)
    /\ alone' = FALSE
    /\ UNCHANGED <<view, ask, reply>>

Outside(c) == (Event(c) \/ Bind(c) \/ Exit(c)) /\ UNCHANGED desktop

Take(k) == TakeStatus(k) \/ TakeStart(k) \/ TakeStop(k)

DesktopNext ==
    \/ Click
    \/ Close
    \/ Open
    \/ \E k \in Slots : Take(k) \/ ResumeStart(k) \/ Show(k)
    \/ \E k \in Slots, denied \in BOOLEAN : AdminAnswers(k, denied)
    \/ \E k \in Callers \ Slots : OtherCall(k)
    \/ \E c \in Children : Outside(c)
    \/ DoctorStep /\ UNCHANGED desktop

DesktopSpec == DesktopInit /\ [][DesktopNext]_allVars

\* The supervisor's fairness; the event loop takes messages and settled promises, and
\* the version check and the request to the admin API settle, by an error if not else.
DesktopFairSpec ==
    /\ DesktopSpec
    /\ \A c \in Children : /\ WF_allVars(DueEvent(c) /\ UNCHANGED desktop)
                           /\ WF_allVars(Bind(c) /\ UNCHANGED desktop)
                           /\ WF_allVars(child[c] = "dying" /\ Exit(c) /\ UNCHANGED desktop)
    /\ \A k \in Slots : /\ WF_allVars(Take(k))
                        /\ WF_allVars(ResumeStart(k))
                        /\ WF_allVars(\E denied \in BOOLEAN : AdminAnswers(k, denied))
                        /\ WF_allVars(Show(k))

-----------------------------------------------------------------------------
(* Properties.                                                               *)

\* The window alone cannot start one proxy over another, not even with a version
\* check, where start() is suspended between its guard and the spawn: its calls do not
\* overlap (App.tsx, the disabled button; supervisor.ts, start).  What it leaves behind
\* is a living child that could not be killed, or one alive when the window was closed.
AloneNoOrphan ==
    alone => \A c \in Children : child[c] \in Alive => c = process \/ c \in lost

\* The dashboard never stays at "loading": every call is answered, whatever fails on
\* the way (App.tsx, handlePrimaryAction; supervisor.ts, status).
ClickAnswered == view = "loading" ~> view # "loading"
=============================================================================
