---------------------------- MODULE DesktopProofs ----------------------------
(***************************************************************************)
(* Machine-checked proofs about Supervisor, for any number of calls and     *)
(* children, and about Desktop, for any number of slots, other callers and  *)
(* children: the dashboard drives the supervisor by steps of                *)
(* Supervisor only, and as long as nobody else calls, its one call at a     *)
(* time starts no proxy over another, version check or not, unless kill()   *)
(* has failed or the application was quit.                                  *)
(***************************************************************************)
EXTENDS Desktop, TLAPS

-----------------------------------------------------------------------------
(* The supervisor.                                                           *)

\* Without a version check no call is suspended in the middle of start().
NoSuspendedStart == ~checks => \A k \in Callers : call[k] # "version"

\* Without a version check start() cannot run beside a living child that is not lost:
\* its first guard, state = "running", sees every one of them.
AliveIsRunning ==
    ~checks /\ process # None /\ child[process] \in Alive /\ process \notin lost
        => state = "running"

IInv == TypeOK /\ StateTruthful /\ NoOrphan /\ NoSuspendedStart /\ AliveIsRunning

LEMMA InitEstablishes == Init => IInv
BY SupervisorAssumption
DEF Init, IInv, TypeOK, StateTruthful, NoOrphan, NoSuspendedStart, AliveIsRunning, Life, Alive

\* A call of start() that does not spawn.
LEMMA StartKeeps ==
    ASSUME IInv, NEW k \in Callers,
           StartAlreadyRunning(k) \/ StartFails(k) \/ AwaitVersion(k) \/ Resume(k)
    PROVE  IInv'
<1> USE DEF IInv, Goto, Life, Alive, AlreadyRunning
<1>1. CASE StartAlreadyRunning(k)
    BY <1>1 DEF StartAlreadyRunning, TypeOK, StateTruthful, NoOrphan, NoSuspendedStart,
                AliveIsRunning
<1>2. CASE StartFails(k)
    BY <1>2 DEF StartFails, Fail, TypeOK, StateTruthful, NoOrphan, NoSuspendedStart,
                AliveIsRunning
<1>3. CASE AwaitVersion(k)
    BY <1>3 DEF AwaitVersion, TypeOK, StateTruthful, NoOrphan, NoSuspendedStart,
                AliveIsRunning
<1>4. CASE VersionMismatch(k)
    BY <1>4 DEF VersionMismatch, Fail, TypeOK, StateTruthful, NoOrphan, NoSuspendedStart,
                AliveIsRunning
<1>5. CASE VersionRejects(k)
    BY <1>5 DEF VersionRejects, TypeOK, StateTruthful, NoOrphan, NoSuspendedStart,
                AliveIsRunning
<1> QED BY <1>1, <1>2, <1>3, <1>4, <1>5 DEF Resume

\* spawn(): the old this.process, if any, is dead, or lost.
LEMMA SpawnKeeps ==
    ASSUME IInv, NEW k \in Callers, NEW c \in Children, NEW life \in {"starting", "failed"},
           Spawn(k, c, life)
    PROVE  IInv'
<1> USE SupervisorAssumption DEF IInv, Spawn, Goto, Life, Alive
<1>1. TypeOK'
    BY DEF TypeOK
<1>2. StateTruthful'
    BY DEF TypeOK, StateTruthful
<1>3. NoOrphan'
    <2> SUFFICES ASSUME ~checks, NEW d \in Children, child'[d] \in Alive, d \notin lost
                 PROVE  d = c
        BY DEF NoOrphan
    <2>1. ~AlreadyRunning
        BY DEF MaySpawn, NoSuspendedStart
    <2>2. d # c => child[d] \in Alive
        BY DEF TypeOK
    <2>3. child[d] \in Alive => d = process /\ process # None
        BY DEF NoOrphan
    <2> QED BY <2>1, <2>2, <2>3 DEF AliveIsRunning, AlreadyRunning
<1>4. NoSuspendedStart' /\ AliveIsRunning'
    BY DEF TypeOK, NoSuspendedStart, AliveIsRunning
<1> QED BY <1>1, <1>2, <1>3, <1>4

LEMMA StopKeeps ==
    ASSUME IInv, NEW k \in Callers, Stop(k)
    PROVE  IInv'
<1> PICK pc \in {"idle", "restart"} : StopKill(k, pc) \/ StopNothing(k, pc) \/ StopFails(k, pc)
    BY DEF Stop
<1> USE SupervisorAssumption DEF IInv, Goto, Life, Alive
<1>1. CASE StopKill(k, pc)
    BY <1>1 DEF StopKill, Signalled, TypeOK, StateTruthful, NoOrphan, NoSuspendedStart,
                AliveIsRunning
<1>2. CASE StopNothing(k, pc)
    BY <1>2 DEF StopNothing, TypeOK, StateTruthful, NoOrphan, NoSuspendedStart, AliveIsRunning
<1>3. CASE StopFails(k, pc)
    BY <1>3 DEF StopFails, Losing, TypeOK, StateTruthful, NoOrphan, NoSuspendedStart,
                AliveIsRunning
<1> QED BY <1>1, <1>2, <1>3

\* What Node and the operating system do between two steps of the supervisor.
LEMMA ChildKeeps ==
    ASSUME IInv, NEW c \in Children, Event(c) \/ Bind(c) \/ Exit(c)
    PROVE  IInv'
<1> USE SupervisorAssumption DEF IInv, Life, Alive
<1>1. CASE ExitEvent(c)
    BY <1>1 DEF ExitEvent, TypeOK, StateTruthful, NoOrphan, NoSuspendedStart, AliveIsRunning
<1>2. CASE ErrorEvent(c)
    BY <1>2 DEF ErrorEvent, Losing, TypeOK, StateTruthful, NoOrphan, NoSuspendedStart,
                AliveIsRunning
<1>3. CASE Bind(c)
    BY <1>3 DEF Bind, TypeOK, StateTruthful, NoOrphan, NoSuspendedStart, AliveIsRunning
<1>4. CASE Exit(c)
    BY <1>4 DEF Exit, TypeOK, StateTruthful, NoOrphan, NoSuspendedStart, AliveIsRunning
<1> QED BY <1>1, <1>2, <1>3, <1>4 DEF Event

LEMMA Inductive == IInv /\ [Next]_vars => IInv'
<1> SUFFICES ASSUME IInv, [Next]_vars PROVE IInv'
    OBVIOUS
<1>1. ASSUME NEW k \in Callers, Start(k) \/ Resume(k) \/ Stop(k)
      PROVE  IInv'
    BY <1>1, StartKeeps, SpawnKeeps, StopKeeps DEF Start
<1>2. ASSUME NEW c \in Children, Event(c) \/ Bind(c) \/ Exit(c)
      PROVE  IInv'
    BY <1>2, ChildKeeps
<1>3. CASE DoctorStep
    BY <1>3 DEF DoctorStep, DoctorListens, DoctorCloses, IInv, TypeOK, StateTruthful, NoOrphan,
                NoSuspendedStart, AliveIsRunning
<1>4. CASE Quit
    BY <1>4 DEF Quit, IInv, TypeOK, StateTruthful, NoOrphan, NoSuspendedStart, AliveIsRunning
<1>5. CASE UNCHANGED vars
    BY <1>5 DEF vars, IInv, TypeOK, StateTruthful, NoOrphan, NoSuspendedStart, AliveIsRunning
<1> QED BY <1>1, <1>2, <1>3, <1>4, <1>5 DEF Next

LEMMA Invariance == Spec => []IInv
BY InitEstablishes, Inductive, PTL DEF Spec

\* Whatever the calls and the operating system interleave, the state the renderer is
\* shown matches the supervisor's bookkeeping: it never says "stopped" while it
\* supervises a child, nor "running" without one (supervisor.ts).
THEOREM SupervisorTruthful == Spec => []StateTruthful
BY Invariance, PTL DEF IInv

\* Without a version check, as main.ts builds the supervisor, a proxy that runs and was
\* not told to stop is the supervised one, unless kill() or an error event of it failed
\* while it ran, or the application was quit: for any number of overlapping start, stop
\* and restart calls, and late events, that is the only way to a proxy nobody supervises.
THEOREM SupervisorNoOrphan == Spec => []NoOrphan
BY Invariance, PTL DEF IInv

-----------------------------------------------------------------------------
(* The window before it.                                                     *)

\* A call of the window is a message, then a call, then a reply, never two of them.
OnePhase ==
    \A k \in Slots : /\ reply[k] # NoReply => ask[k] = "none" /\ call[k] = "idle"
                     /\ ask[k] # "none" => call[k] = "idle"

\* The disabled button: at most one call of the window, and none unless it is loading.
OneWindowCall ==
    /\ \A j, k \in Slots : Free(j) \/ Free(k) \/ j = k
    /\ view # "loading" => \A k \in Slots : Free(k)

\* start()'s guard sees every living child that is not lost ...
AloneAliveIsRunning ==
    alone /\ process # None /\ child[process] \in Alive /\ process \notin lost
        => state = "running"

\* ... and what it saw is still so when the version check has returned.
AloneSuspendedStart ==
    alone => /\ \A k \in Callers \ Slots : call[k] = "idle"
             /\ \A k \in Slots, c \in Children :
                    call[k] = "version" => child[c] \notin Alive \/ c \in lost

WindowInv == DesktopTypeOK /\ OnePhase /\ OneWindowCall

AloneInv == AloneNoOrphan /\ AloneAliveIsRunning /\ AloneSuspendedStart

DInv == WindowInv /\ AloneInv

-----------------------------------------------------------------------------
(* Every step of the desktop is a step of the supervisor, or none.           *)

LEMMA StepMaps == [DesktopNext]_allVars => [Next]_vars
<1> SUFFICES ASSUME [DesktopNext]_allVars PROVE [Next]_vars
    OBVIOUS
<1> USE DesktopAssumption
<1>1. CASE Click
    BY <1>1 DEF Click
<1>2. ASSUME NEW k \in Slots, Take(k) PROVE [Next]_vars
    BY <1>2 DEF Take, TakeStatus, TakeStart, TakeStop, Next, Stop
<1>3. ASSUME NEW k \in Slots, ResumeStart(k) PROVE [Next]_vars
    BY <1>3 DEF ResumeStart, SpawnAny, Next, Start, Resume
<1>4. ASSUME NEW k \in Slots, Show(k) PROVE [Next]_vars
    BY <1>4 DEF Show
<1>5. ASSUME NEW k \in Slots, NEW denied \in BOOLEAN, AdminAnswers(k, denied) PROVE [Next]_vars
    BY <1>5 DEF AdminAnswers
<1>6. ASSUME NEW k \in Callers \ Slots, OtherCall(k) PROVE [Next]_vars
    BY <1>6 DEF OtherCall, Next
<1>7. ASSUME NEW c \in Children, Outside(c) PROVE [Next]_vars
    BY <1>7 DEF Outside, Next
<1>8. CASE DoctorStep
    BY <1>8 DEF Next
<1>9. CASE Close \/ Open
    BY <1>9 DEF Close, Open, Next
<1>10. CASE UNCHANGED allVars
    BY <1>10 DEF allVars
<1> QED BY <1>1, <1>2, <1>3, <1>4, <1>5, <1>6, <1>7, <1>8, <1>9, <1>10 DEF DesktopNext

\* The dashboard and its IPC calls use the supervisor only as its specification allows
\* (App.tsx, main.ts): what is proved of Supervisor holds in the application.
THEOREM DesktopDrivesSupervisor == DesktopSpec => Spec
BY StepMaps, PTL DEF DesktopSpec, Spec, DesktopInit

LEMMA DesktopSupervised == DesktopSpec => []IInv
BY DesktopDrivesSupervisor, Invariance, PTL

-----------------------------------------------------------------------------
(* The window has one call at a time.                                        *)

\* A window that opens asks one thing.
LEMMA AskingTyped ==
    /\ Asking \in [Slots -> {"none", "status"}]
    /\ \A j, k \in Slots : Asking[j] = "none" \/ Asking[k] = "none" \/ j = k
BY DEF Asking

LEMMA DesktopInitEstablishes == DesktopInit => DInv
<1> SUFFICES ASSUME DesktopInit PROVE DInv
    OBVIOUS
<1>1. Slots \subseteq Callers
    BY DesktopAssumption
<1>2. TypeOK
    BY InitEstablishes DEF DesktopInit, IInv
<1>3. DesktopTypeOK
    BY <1>1, <1>2, AskingTyped DEF DesktopInit, DesktopTypeOK, NoReply, Reply
<1>4. OnePhase /\ OneWindowCall
    BY <1>1, AskingTyped DEF DesktopInit, Init, OnePhase, OneWindowCall, Free
<1>5. AloneInv
    BY <1>1 DEF DesktopInit, Init, AloneInv, AloneNoOrphan, AloneAliveIsRunning,
                AloneSuspendedStart, Alive
<1> QED BY <1>3, <1>4, <1>5 DEF DInv, WindowInv

\* What a step of the supervisor does to the calls of others.
LEMMA OnlyOwnCall ==
    ASSUME TypeOK, NEW k \in Callers, Start(k) \/ Resume(k) \/ Stop(k)
    PROVE  /\ call' \in [Callers -> {"idle", "version", "restart"}]
           /\ \A j \in Callers : j # k => call'[j] = call[j]
<1> USE DEF TypeOK, Goto
<1>1. CASE Start(k)
    BY <1>1 DEF Start, StartAlreadyRunning, StartFails, Fail, AwaitVersion, Spawn
<1>2. CASE Resume(k)
    BY <1>2 DEF Resume, VersionMismatch, VersionRejects, Fail
<1>3. CASE Stop(k)
    BY <1>3 DEF Stop, StopKill, StopNothing, StopFails
<1> QED BY <1>1, <1>2, <1>3

\* A message has been taken, or a suspended start() goes on: the slot's call is now
\* suspended in the supervisor, or answered.
LEMMA AnsweredOrSuspended ==
    ASSUME WindowInv, TypeOK', NEW k \in Slots, ~Free(k),
           \A j \in Callers : j # k => call'[j] = call[j],
           ask' = [ask EXCEPT ![k] = "none"],
           UNCHANGED <<view, alone>>,
           \/ call'[k] = "idle" /\ \E r \in Reply : reply' = [reply EXCEPT ![k] = r]
           \/ call'[k] = "version" /\ reply' = reply /\ reply[k] = NoReply
    PROVE  WindowInv'
<1> USE DesktopAssumption
<1>1. DesktopTypeOK'
    BY DEF WindowInv, DesktopTypeOK
<1>2. \A j \in Slots : j # k => Free(j) /\ Free(j)'
    BY DEF WindowInv, OneWindowCall, DesktopTypeOK, Free
<1>3. view = "loading"
    BY DEF WindowInv, OneWindowCall
<1>4. OnePhase'
    BY <1>2 DEF WindowInv, DesktopTypeOK, OnePhase, Free
<1>5. OneWindowCall'
    BY <1>2, <1>3 DEF OneWindowCall
<1> QED BY <1>1, <1>4, <1>5 DEF WindowInv

LEMMA RepliesTyped ==
    /\ Failures \subseteq Reply
    /\ \A now \in {"stopped", "running", "error"} : Snapshot(now) \in Reply
BY DEF Failures, Snapshot, Reply

LEMMA WindowKeeps ==
    ASSUME WindowInv, TypeOK', [DesktopNext]_allVars
    PROVE  WindowInv'
<1> USE DesktopAssumption
<1>0. TypeOK /\ DesktopTypeOK /\ NoReply \in Reply
    BY DEF WindowInv, DesktopTypeOK, NoReply, Reply
<1>1. CASE Click
    <2> DEFINE k == CHOOSE k \in Slots : Free(k)
    <2> DEFINE message == IF view = "healthy" THEN "stop" ELSE "start"
    <2>1. \A j \in Slots : Free(j)
        BY <1>1 DEF Click, WindowInv, OneWindowCall
    <2>2. k \in Slots /\ ask' = [ask EXCEPT ![k] = message]
        BY <1>1 DEF Click, Send
    <2> HIDE DEF k
    <2>3. UNCHANGED <<call, reply, alone>> /\ view' = "loading"
        BY <1>1 DEF Click, vars
    <2>4. DesktopTypeOK'
        BY <1>0, <2>2, <2>3 DEF DesktopTypeOK
    <2>5. \A j \in Slots : j # k => Free(j)'
        BY <1>0, <2>1, <2>2, <2>3 DEF Free, DesktopTypeOK
    <2>6. OnePhase'
        BY <2>1, <2>2, <2>3 DEF Free, OnePhase
    <2> QED BY <2>3, <2>4, <2>5, <2>6 DEF WindowInv, OneWindowCall
<1>2. ASSUME NEW k \in Slots, TakeStatus(k) PROVE WindowInv'
    <2>1. ~Free(k) /\ UNCHANGED call /\ call[k] = "idle"
        BY <1>0, <1>2 DEF TakeStatus, Free, vars, WindowInv, OnePhase
    <2>2. Snapshot(state) \in Reply
        BY <1>0, RepliesTyped DEF TypeOK
    <2> QED BY <1>2, <2>1, <2>2, AnsweredOrSuspended DEF TakeStatus
<1>3. ASSUME NEW k \in Slots, TakeStart(k) \/ TakeStop(k) PROVE WindowInv'
    <2>1. ~Free(k) /\ call[k] = "idle" /\ reply[k] = NoReply
        BY <1>3 DEF TakeStart, TakeStop, Free, WindowInv, OnePhase
    <2>2. Start(k) \/ Stop(k)
        BY <1>3 DEF TakeStart, TakeStop, Stop
    <2>3. \A j \in Callers : j # k => call'[j] = call[j]
        BY <1>0, <2>2, OnlyOwnCall
    <2>4. call'[k] \in {"idle", "version"}
        BY <1>0, <1>3 DEF TakeStart, TakeStop, Start, StartAlreadyRunning, StartFails, Fail,
               AwaitVersion, Spawn, StopKill, StopNothing, StopFails, Goto, TypeOK
    <2>5. Failures \subseteq Reply /\ Snapshot(state') \in Reply
        BY RepliesTyped DEF TypeOK
    <2>6. Returns(k) /\ ask' = [ask EXCEPT ![k] = "none"] /\ UNCHANGED <<view, alone>>
        BY <1>3 DEF TakeStart, TakeStop
    <2>7. \/ call'[k] = "idle" /\ \E r \in Reply : reply' = [reply EXCEPT ![k] = r]
          \/ call'[k] = "version" /\ reply' = reply
        BY <2>4, <2>5, <2>6 DEF Returns, Answer
    <2> QED BY <2>1, <2>3, <2>6, <2>7, AnsweredOrSuspended
<1>4. ASSUME NEW k \in Slots, ResumeStart(k) PROVE WindowInv'
    <2>1. ~Free(k) /\ ask[k] = "none"
        BY <1>4 DEF ResumeStart, Free, WindowInv, OnePhase
    <2>2. Start(k) \/ Resume(k)
        BY <1>4 DEF ResumeStart, SpawnAny, Start, Resume
    <2>3. \A j \in Callers : j # k => call'[j] = call[j]
        BY <1>0, <2>2, OnlyOwnCall
    <2>4. call'[k] = "idle"
        BY <1>0, <1>4 DEF ResumeStart, SpawnAny, VersionMismatch, VersionRejects, Fail, Spawn,
               Goto, TypeOK
    <2>5. Failures \subseteq Reply /\ Snapshot(state') \in Reply
        BY RepliesTyped DEF TypeOK
    <2>6. \E r \in Reply : reply' = [reply EXCEPT ![k] = r]
        BY <1>4, <2>4, <2>5 DEF ResumeStart, Returns, Answer
    <2>7. ask' = [ask EXCEPT ![k] = "none"] /\ UNCHANGED <<view, alone>>
        BY <1>0, <1>4, <2>1 DEF ResumeStart, DesktopTypeOK
    <2> QED BY <2>1, <2>3, <2>4, <2>6, <2>7, AnsweredOrSuspended
<1>5. ASSUME NEW k \in Slots, Show(k) PROVE WindowInv'
    <2>1. reply[k] # NoReply /\ UNCHANGED <<call, ask, alone>>
          /\ reply' = [reply EXCEPT ![k] = NoReply]
        BY <1>5 DEF Show, NoReply, vars
    <2>2. \A j \in Slots : Free(j)'
        BY <1>0, <2>1 DEF WindowInv, OnePhase, OneWindowCall, Free, DesktopTypeOK
    <2>3. view' \in {"closed", "loading", "empty", "healthy", "error", "permission-denied"}
        BY <1>0, <1>5 DEF Show, DashboardStateFromRuntime, DesktopTypeOK, Reply
    <2>4. DesktopTypeOK'
        BY <1>0, <2>1, <2>3 DEF DesktopTypeOK
    <2> QED BY <2>2, <2>4 DEF WindowInv, OnePhase, OneWindowCall, Free
<1>6. ASSUME NEW k \in Slots, NEW denied \in BOOLEAN, AdminAnswers(k, denied) PROVE WindowInv'
    <2>1. reply[k] # NoReply /\ UNCHANGED <<call, ask, view, alone>>
        BY <1>6 DEF AdminAnswers, NoReply, vars
    <2>2. \E r \in Reply : reply' = [reply EXCEPT ![k] = r]
        <3> DEFINE r == [pc |-> "sent", state |-> reply[k].state, denied |-> denied]
        <3>1. reply[k] \in Reply
            BY <1>0 DEF DesktopTypeOK
        <3>2. r \in Reply
            BY <3>1 DEF Reply
        <3> QED BY <1>6, <3>2 DEF AdminAnswers
    <2>3. ~Free(k) /\ call[k] = "idle" /\ ask[k] = "none"
        BY <2>1 DEF WindowInv, OnePhase, Free
    <2>4. ask' = [ask EXCEPT ![k] = "none"]
        BY <1>0, <2>1, <2>3 DEF DesktopTypeOK
    <2> QED BY <2>1, <2>2, <2>3, <2>4, AnsweredOrSuspended
<1>7. ASSUME NEW k \in Callers \ Slots, OtherCall(k) PROVE WindowInv'
    <2>1. \A j \in Slots : call'[j] = call[j]
        BY <1>0, <1>7, OnlyOwnCall DEF OtherCall
    <2>2. UNCHANGED <<view, ask, reply>> /\ alone' = FALSE
        BY <1>7 DEF OtherCall
    <2> QED BY <1>0, <2>1, <2>2 DEF WindowInv, DesktopTypeOK, OnePhase, OneWindowCall, Free
<1>8. ASSUME NEW c \in Children, Outside(c) PROVE WindowInv'
    <2>1. UNCHANGED <<call, view, ask, reply, alone>>
        BY <1>8 DEF Outside, Event, ExitEvent, ErrorEvent, Bind, Exit, desktop
    <2> QED BY <1>0, <2>1 DEF WindowInv, DesktopTypeOK, OnePhase, OneWindowCall, Free
<1>9. CASE DoctorStep /\ UNCHANGED desktop
    BY <1>0, <1>9 DEF DoctorStep, DoctorListens, DoctorCloses, desktop, WindowInv, DesktopTypeOK,
                      OnePhase, OneWindowCall, Free
<1>10. CASE Close
    BY <1>0, <1>10 DEF Close, Quit, WindowInv, DesktopTypeOK, OnePhase, OneWindowCall, Free
<1>11. CASE Open
    <2>1. \A k \in Slots : Free(k)
        BY <1>11 DEF Open, WindowInv, OneWindowCall
    <2>2. UNCHANGED <<call, reply, alone>> /\ ask' = Asking /\ view' = "loading"
        BY <1>11 DEF Open, vars
    <2> QED BY <1>0, <2>1, <2>2, AskingTyped DEF WindowInv, DesktopTypeOK, OnePhase,
               OneWindowCall, Free
<1>12. CASE UNCHANGED allVars
    BY <1>0, <1>12 DEF allVars, vars, desktop, WindowInv, DesktopTypeOK, OnePhase,
                      OneWindowCall, Free
<1> QED BY <1>1, <1>2, <1>3, <1>4, <1>5, <1>6, <1>7, <1>8, <1>9, <1>10, <1>11, <1>12
        DEF DesktopNext, Take

-----------------------------------------------------------------------------
(* While the window is the only caller, every proxy is supervised, or lost.  *)

\* Every living child is lost.
NoneLeft(life, gone) == \A c \in Children : life[c] \in Alive => c \in gone

\* A call that finds start()'s guard open leaves no child alive behind it but lost ones.
LEMMA GuardSeesAll ==
    ASSUME AloneInv, alone, ~AlreadyRunning
    PROVE  NoneLeft(child, lost)
BY SupervisorAssumption
DEF AloneInv, AloneNoOrphan, AloneAliveIsRunning, AlreadyRunning, NoneLeft

\* A slot's call into the supervisor, when no other slot and nobody else has one.
LEMMA SlotCallKeeps ==
    ASSUME DInv, TypeOK', alone, alone', NEW k \in Slots,
           \A j \in Callers : j # k => call[j] = "idle" /\ call'[j] = "idle",
           Start(k) \/ Resume(k) \/ Stop(k)
    PROVE  AloneInv'
<1> USE DesktopAssumption, SupervisorAssumption DEF Goto
<1>0. TypeOK /\ AloneInv
    BY DEF DInv, WindowInv, DesktopTypeOK
<1>9. ASSUME NoneLeft(child', lost') PROVE AloneInv'
    BY <1>9 DEF TypeOK, AloneInv, AloneNoOrphan, AloneAliveIsRunning, AloneSuspendedStart,
                NoneLeft
<1>1. CASE StartAlreadyRunning(k)
    BY <1>0, <1>1 DEF StartAlreadyRunning, TypeOK, AloneInv, AloneNoOrphan,
                      AloneAliveIsRunning, AloneSuspendedStart
<1>2. CASE StartFails(k)
    <2>1. NoneLeft(child', lost')
        BY <1>0, <1>2, GuardSeesAll DEF StartFails, Fail
    <2> QED BY <2>1, <1>9
<1>3. CASE AwaitVersion(k)
    <2>1. NoneLeft(child', lost')
        BY <1>0, <1>3, GuardSeesAll DEF AwaitVersion
    <2> QED BY <2>1, <1>9
<1>4. ASSUME NEW c \in Children, NEW life \in {"starting", "failed"}, Spawn(k, c, life)
      PROVE  AloneInv'
    <2>1. NoneLeft(child, lost)
        BY <1>0, <1>4, GuardSeesAll DEF Spawn, MaySpawn, AloneInv, AloneSuspendedStart, NoneLeft
    <2>2. lost' = lost /\ \A d \in Children : child'[d] \in Alive => d = c \/ d \in lost
        BY <1>0, <1>4, <2>1 DEF Spawn, TypeOK, NoneLeft
    <2>3. process' = c /\ state' = "running" /\ call'[k] = "idle"
        BY <1>0, <1>4 DEF Spawn, TypeOK
    <2> QED BY <2>2, <2>3 DEF AloneInv, AloneNoOrphan, AloneAliveIsRunning,
                              AloneSuspendedStart
<1>5. CASE Resume(k)
    <2>1. NoneLeft(child', lost')
        BY <1>0, <1>5 DEF Resume, VersionMismatch, VersionRejects, Fail, AloneInv,
                          AloneSuspendedStart, NoneLeft
    <2> QED BY <2>1, <1>9
<1>6. ASSUME NEW pc \in {"idle", "restart"},
             StopKill(k, pc) \/ StopNothing(k, pc) \/ StopFails(k, pc)
      PROVE  AloneInv'
    <2>1. NoneLeft(child', lost')
        BY <1>0, <1>6 DEF StopKill, Signalled, StopNothing, StopFails, Losing, TypeOK, Life,
                          Alive, AloneInv, AloneNoOrphan, NoneLeft
    <2> QED BY <2>1, <1>9
<1> QED BY <1>1, <1>2, <1>3, <1>4, <1>5, <1>6 DEF Start, Stop

LEMMA AloneKeeps ==
    ASSUME DInv, TypeOK', [DesktopNext]_allVars
    PROVE  AloneInv'
<1> SUFFICES ASSUME alone' PROVE AloneInv'
    BY DEF AloneInv, AloneNoOrphan, AloneAliveIsRunning, AloneSuspendedStart
<1> USE DesktopAssumption
<1>0. TypeOK /\ AloneInv /\ WindowInv
    BY DEF DInv, WindowInv, DesktopTypeOK
<1>1. ASSUME UNCHANGED <<vars, alone>> PROVE AloneInv'
    BY <1>0, <1>1 DEF vars, AloneInv, AloneNoOrphan, AloneAliveIsRunning, AloneSuspendedStart
<1>2. ASSUME NEW k \in Slots, alone, ~Free(k), Start(k) \/ Resume(k) \/ Stop(k)
      PROVE  AloneInv'
    <2>1. \A j \in Callers : j # k => call[j] = "idle"
        BY <1>0, <1>2 DEF WindowInv, OneWindowCall, Free, AloneInv, AloneSuspendedStart
    <2>2. \A j \in Callers : j # k => call'[j] = "idle"
        BY <1>0, <1>2, <2>1, OnlyOwnCall
    <2> QED BY <1>2, <2>1, <2>2, SlotCallKeeps
<1>3. ASSUME NEW k \in Slots, Take(k) PROVE AloneInv'
    <2>1. CASE TakeStatus(k)
        BY <1>1, <2>1 DEF TakeStatus
    <2>2. CASE TakeStart(k) \/ TakeStop(k)
        <3>1. alone /\ ~Free(k) /\ (Start(k) \/ Stop(k))
            BY <2>2 DEF TakeStart, TakeStop, Free, Stop
        <3> QED BY <1>2, <3>1
    <2> QED BY <1>3, <2>1, <2>2 DEF Take
<1>4. ASSUME NEW k \in Slots, ResumeStart(k) PROVE AloneInv'
    <2>1. alone /\ ~Free(k) /\ (Start(k) \/ Resume(k))
        BY <1>4 DEF ResumeStart, Free, SpawnAny, Start, Resume
    <2> QED BY <1>2, <2>1
<1>5. ASSUME NEW c \in Children, Outside(c) PROVE AloneInv'
    <2>1. UNCHANGED <<call, alone>>
        BY <1>5 DEF Outside, Event, ExitEvent, ErrorEvent, Bind, Exit, desktop
    <2>2. /\ \A d \in Children : child'[d] \in Alive => child[d] \in Alive
          /\ lost \subseteq lost'
        BY <1>0, <1>5 DEF Outside, Event, ExitEvent, ErrorEvent, Losing, Bind, Exit, TypeOK,
                          Life, Alive
    <2>3. AloneNoOrphan'
        BY <1>0, <1>5, <2>1, <2>2 DEF Outside, Event, ExitEvent, ErrorEvent, Losing, Bind,
               Exit, AloneInv, AloneNoOrphan, Alive, TypeOK
    <2>4. AloneAliveIsRunning'
        BY <1>0, <1>5, <2>1, <2>2, SupervisorAssumption DEF Outside, Event, ExitEvent,
               ErrorEvent, Losing, Bind, Exit, AloneInv, AloneAliveIsRunning, Alive, TypeOK
    <2>5. AloneSuspendedStart'
        BY <1>0, <2>1, <2>2 DEF AloneInv, AloneSuspendedStart
    <2> QED BY <2>3, <2>4, <2>5 DEF AloneInv
<1>6. ASSUME Click \/ Open \/ (\E k \in Slots : Show(k) \/ \E denied \in BOOLEAN : AdminAnswers(k, denied))
      PROVE  AloneInv'
    BY <1>1, <1>6 DEF Click, Open, Show, AdminAnswers
<1>7. ASSUME NEW k \in Callers \ Slots, OtherCall(k) PROVE AloneInv'
    BY <1>7 DEF OtherCall
<1>8. CASE DoctorStep /\ UNCHANGED desktop
    BY <1>0, <1>8 DEF DoctorStep, DoctorListens, DoctorCloses, desktop, AloneInv, AloneNoOrphan,
                      AloneAliveIsRunning, AloneSuspendedStart
<1>9. CASE Close
    BY <1>0, <1>9 DEF Close, Quit, TypeOK, AloneInv, AloneNoOrphan, AloneAliveIsRunning,
                      AloneSuspendedStart
<1>10. CASE UNCHANGED allVars
    BY <1>1, <1>10 DEF allVars, desktop
<1> QED BY <1>3, <1>4, <1>5, <1>6, <1>7, <1>8, <1>9, <1>10 DEF DesktopNext

LEMMA DesktopInvariance == DesktopSpec => []DInv
<1>1. DInv /\ IInv' /\ [DesktopNext]_allVars => DInv'
    BY WindowKeeps, AloneKeeps DEF DInv, IInv
<1> QED BY <1>1, DesktopInitEstablishes, DesktopSupervised, PTL DEF DesktopSpec

\* As long as only the window calls the supervisor, it starts no proxy over one that
\* runs, with a version check or without, whatever the dashboard shows and however late
\* the events of earlier children come: a proxy nobody supervises could not be killed,
\* or was left when the window was closed (App.tsx, the disabled button; supervisor.ts,
\* start).
THEOREM DesktopAloneNoOrphan == DesktopSpec => []AloneNoOrphan
BY DesktopInvariance, PTL DEF DInv, AloneInv
=============================================================================
