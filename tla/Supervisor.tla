----------------------------- MODULE Supervisor -----------------------------
(***************************************************************************)
(* CachySupervisor of the desktop companion (desktop/electron): the main    *)
(* process that starts and stops the Go proxy for the renderer.  JavaScript *)
(* runs one step at a time, but start and restart yield at every await, so  *)
(* calls interleave there; the operating system and Node's exit and error   *)
(* events act between any two steps.                                        *)
(***************************************************************************)
EXTENDS Naturals

CONSTANTS
    Callers,        \* IPC calls that may be in progress at the same time
    Children,       \* bound: the child processes, spawned each once, in one order
    None,
    Doctor          \* `cachy doctor`, run from a shell

ASSUME SupervisorAssumption ==
    None \notin Children /\ Doctor \notin Children \cup {None}

VARIABLES
    checks,     \* the constructor was given expectedVersion and readVersion
    process,    \* this.process
    state,      \* this.state
    call,       \* call[k]: where the call of k is suspended
    child,      \* child[c]: the life of a child, as the operating system sees it
    port,       \* who holds the proxy's listen address
    lost        \* history: children that lived on when kill() had failed or Node had
                \* reported an error of them, or when the application was quit

vars == <<checks, process, state, call, child, port, lost>>

\* "exited" and "failed": dead or never born, the Node event still to be delivered.
Life == {"unborn", "starting", "serving", "dying", "exited", "failed", "reaped"}

Alive == {"starting", "serving"}

TypeOK ==
    /\ checks \in BOOLEAN
    /\ process \in Children \cup {None}
    /\ state \in {"stopped", "running", "error"}
    /\ call \in [Callers -> {"idle", "version", "restart"}]
    /\ child \in [Children -> Life]
    /\ port \in Children \cup {None, Doctor}
    /\ lost \subseteq Children

Init ==
    /\ checks \in BOOLEAN
    /\ process = None
    /\ state = "stopped"
    /\ call = [k \in Callers |-> "idle"]
    /\ child = [c \in Children |-> "unborn"]
    /\ port = None
    /\ lost = {}

-----------------------------------------------------------------------------
(* start(), stop(), restart().                                              *)

Goto(k, pc) == call' = [call EXCEPT ![k] = pc]

\* fail(): the process is kept.
Fail(k) ==
    /\ state' = "error"
    /\ Goto(k, "idle")
    /\ UNCHANGED <<checks, process, child, port, lost>>

AlreadyRunning == process # None /\ state = "running"

\* start() up to its first await: called by a renderer, or by restart().
StartAlreadyRunning(k) ==
    /\ call[k] \in {"idle", "restart"}
    /\ AlreadyRunning
    /\ Goto(k, "idle")
    /\ UNCHANGED <<checks, process, state, child, port, lost>>

\* No binary is found, or spawn throws.
StartFails(k) ==
    /\ call[k] \in {"idle", "restart"}
    /\ ~AlreadyRunning
    /\ Fail(k)

AwaitVersion(k) ==
    /\ call[k] \in {"idle", "restart"}
    /\ checks
    /\ ~AlreadyRunning
    /\ Goto(k, "version")
    /\ UNCHANGED <<checks, process, state, child, port, lost>>

VersionMismatch(k) ==
    /\ call[k] = "version"
    /\ Fail(k)

\* readVersion rejects, and start() with it.
VersionRejects(k) ==
    /\ call[k] = "version"
    /\ Goto(k, "idle")
    /\ UNCHANGED <<checks, process, state, child, port, lost>>

\* The code checks nothing again after the await.
MaySpawn(k) ==
    \/ call[k] \in {"idle", "restart"} /\ ~checks /\ ~AlreadyRunning
    \/ call[k] = "version"

\* spawn() returns a child at once; whether the operating system could start it
\* shows later.
Spawn(k, c, life) ==
    /\ MaySpawn(k)
    /\ child[c] = "unborn"
    /\ c = CHOOSE d \in Children : child[d] = "unborn"
    /\ child' = [child EXCEPT ![c] = life]
    /\ process' = c
    /\ state' = "running"
    /\ Goto(k, "idle")
    /\ UNCHANGED <<checks, port, lost>>

\* A child that gets the signal.  One that is dead, its exit event still to come, may be
\* sent it too.
Signalled(c) == [child EXCEPT ![c] = IF child[c] \in Alive THEN "dying" ELSE "exited"]

\* Mutant: stop() leaves this.process to the exit handler.
StopKillKeeps(k, pc) ==
    /\ call[k] = "idle"
    /\ process # None
    /\ child[process] \in Alive \cup {"exited"}
    /\ child' = Signalled(process)
    /\ state' = "stopped"
    /\ Goto(k, pc)
    /\ UNCHANGED <<checks, process, port, lost>>

\* stop(), also as the first half of restart(): pc is where the call goes on.
\* kill() only sends the signal; the child is forgotten before it is dead.
StopKill(k, pc) ==
    /\ call[k] = "idle"
    /\ process # None
    /\ child[process] \in Alive \cup {"exited"}
    /\ child' = Signalled(process)
    /\ process' = None
    /\ state' = "stopped"
    /\ Goto(k, pc)
    /\ UNCHANGED <<checks, port, lost>>

StopNothing(k, pc) ==
    /\ call[k] = "idle"
    /\ process = None
    /\ state' = "stopped"
    /\ Goto(k, pc)
    /\ UNCHANGED <<checks, process, child, port, lost>>

\* The supervised child lives on, although the supervisor took it for failed.
Losing(c) == lost' = IF child[c] \in Alive THEN lost \cup {c} ELSE lost

\* kill() returns false: there is no such process any more, or the signal could not be
\* sent.  The child is kept, but the state no longer keeps start() from replacing it.
StopFails(k, pc) ==
    /\ call[k] = "idle"
    /\ process # None
    /\ state' = "error"
    /\ Losing(process)
    /\ Goto(k, pc)
    /\ UNCHANGED <<checks, process, child, port>>

\* The last window is closed and the application with it: the supervisor and its calls
\* are gone, its children are not told.  The next launch starts with a new supervisor.
Quit ==
    /\ process' = None
    /\ state' = "stopped"
    /\ call' = [k \in Callers |-> "idle"]
    /\ lost' = lost \cup {c \in Children : child[c] \in Alive}
    /\ UNCHANGED <<checks, child, port>>

-----------------------------------------------------------------------------
(* Node's events and the child process.                                      *)

\* Mutant: the handler does not ask whether the child is still the supervised one.
ExitEventUnguarded(c) ==
    /\ child[c] = "exited"
    /\ child' = [child EXCEPT ![c] = "reaped"]
    /\ process' = None
    /\ state' = "stopped"
    /\ UNCHANGED <<checks, call, port, lost>>

\* Mutant: the exit of the supervised child is never heard of.
ExitEventUnheard(c) ==
    /\ child[c] = "exited"
    /\ process # c
    /\ child' = [child EXCEPT ![c] = "reaped"]
    /\ UNCHANGED <<checks, process, state, call, port, lost>>

\* Only the exit of the supervised child counts.
ExitEvent(c) ==
    /\ child[c] = "exited"
    /\ child' = [child EXCEPT ![c] = "reaped"]
    /\ process' = IF process = c THEN None ELSE process
    /\ state' = IF process = c THEN "stopped" ELSE state
    /\ UNCHANGED <<checks, call, port, lost>>

\* The child could not be started, or could not be killed.
ErrorEvent(c) ==
    /\ child[c] \in Alive \cup {"failed"}
    /\ child' = [child EXCEPT ![c] = IF @ = "failed" THEN "reaped" ELSE @]
    /\ IF process = c
       THEN state' = "error" /\ Losing(c)
       ELSE UNCHANGED <<state, lost>>
    /\ UNCHANGED <<checks, process, call, port>>

\* The proxy listens, or exits because the address is taken.
Bind(c) ==
    /\ child[c] = "starting"
    /\ IF port = None
       THEN port' = c /\ child' = [child EXCEPT ![c] = "serving"]
       ELSE port' = port /\ child' = [child EXCEPT ![c] = "exited"]
    /\ UNCHANGED <<checks, process, state, call, lost>>

\* A child dies of the signal, or by itself.
Exit(c) ==
    /\ child[c] \in Alive \cup {"dying"}
    /\ child' = [child EXCEPT ![c] = "exited"]
    /\ port' = IF port = c THEN None ELSE port
    /\ UNCHANGED <<checks, process, state, call, lost>>

\* DefaultCheckListen: the doctor listens on the proxy's address and closes the listener
\* again; an address that is taken it reports.
DoctorListens ==
    /\ port = None
    /\ port' = Doctor
    /\ UNCHANGED <<checks, process, state, call, child, lost>>

DoctorCloses ==
    /\ port = Doctor
    /\ port' = None
    /\ UNCHANGED <<checks, process, state, call, child, lost>>

DoctorStep == DoctorListens \/ DoctorCloses

Start(k) ==
    \/ StartAlreadyRunning(k)
    \/ StartFails(k)
    \/ AwaitVersion(k)
    \/ \E c \in Children, life \in {"starting", "failed"} : Spawn(k, c, life)

Resume(k) == VersionMismatch(k) \/ VersionRejects(k)

Stop(k) ==
    \E pc \in {"idle", "restart"} : StopKill(k, pc) \/ StopNothing(k, pc) \/ StopFails(k, pc)

Event(c) == ExitEvent(c) \/ ErrorEvent(c)

\* The events that Node owes: of a child that is dead, or was never born.
DueEvent(c) == child[c] \in {"exited", "failed"} /\ Event(c)

Next ==
    \/ \E k \in Callers : Start(k) \/ Resume(k) \/ Stop(k)
    \/ \E c \in Children : Event(c) \/ Bind(c) \/ Exit(c)
    \/ DoctorStep
    \/ Quit

Spec == Init /\ [][Next]_vars

\* Node delivers its events, a child that was started binds or exits, and a child
\* that got the signal dies.
FairSpec ==
    /\ Spec
    /\ \A c \in Children : WF_vars(DueEvent(c)) /\ WF_vars(Bind(c))
                           /\ WF_vars(child[c] = "dying" /\ Exit(c))

-----------------------------------------------------------------------------
(* Properties.                                                               *)

\* The state the renderer is shown matches the bookkeeping: "running" while a child
\* is supervised that has not been reaped or told to stop, "stopped" only when none
\* is (supervisor.ts: start, stop, fail and the two event handlers).
StateTruthful ==
    /\ state = "running" => process # None
                            /\ child[process] \in Alive \cup {"exited", "failed"}
    /\ state = "stopped" => process = None

\* A child that is alive and was not told to stop is this.process, through restarts,
\* late exit events of its predecessors and failing spawns (supervisor.ts; as main.ts
\* configures it, without a version check), but for what the code does lose: a living
\* child that could not be killed, which the next start() replaces, for its guard asks
\* for state "running", and one that was alive when the application was quit.
NoOrphan ==
    ~checks => \A c \in Children : child[c] \in Alive => c = process \/ c \in lost

\* A supervisor that says "running" is soon right, or says otherwise: a child that
\* finds the address taken, by its dying predecessor or the doctor, is noticed.
RunningIsHonest ==
    state = "running" ~> (state # "running" \/ (process # None /\ port = process))
=============================================================================
