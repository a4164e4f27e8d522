------------------------------ MODULE CCRStore ------------------------------
(***************************************************************************)
(* The local content-addressed store of internal/ccr: Put, Get, Diagnostics *)
(* and Cleanup, called concurrently on one store root by any number of      *)
(* goroutines or processes.  The store has no lock and no index: its state  *)
(* is the directory itself, and every step below is one file-system call.   *)
(*                                                                          *)
(* A content stands for its own address (SHA-256 is taken to be injective), *)
(* so an object path is named by the content that belongs there.  All       *)
(* objects share one shard directory, the worst case for the walk.          *)
(***************************************************************************)
EXTENDS Naturals, FiniteSetsExt

CONSTANTS
    Content,    \* the originals that callers store
    Size,       \* Size[c]: the length of c in bytes
    Temp,       \* the names CreateTemp can generate (".tmp-*")
    Putters,    \* concurrent callers of Put
    Scanners,   \* concurrent callers of Cleanup and Diagnostics
    Policies,   \* the retention policies Cleanup is called with
    MaxTime,    \* bound: the last instant of the clock
    Damages,    \* whether a stored object can be damaged from outside
    NoFile,     \* the path names no file
    NoTemp      \* the call holds no temporary file

Path == Content \cup Temp

\* A file holds the first bytes of one original.
FileRec == [of : Content, bytes : Nat, mtime : Nat]

ASSUME StoreAssumption ==
    /\ Content # {}
    /\ Content \cap Temp = {}
    /\ NoTemp \notin Temp
    /\ NoFile \notin FileRec
    /\ Size \in [Content -> Nat]

ASSUME PolicyAssumption ==
    /\ Policies \subseteq [maxAge : Nat, maxBytes : Nat]
    /\ Policies # {}
    /\ MaxTime \in Nat
    /\ Damages \in BOOLEAN

VARIABLES
    file,       \* the directory: path -> file or NoFile
    clock,
    put,        \* put[p]: the local state of p's Put call
    scan,       \* scan[k]: the local state of k's Cleanup or Diagnostics call
    acked,      \* history: originals a Put found or put in place, not removed since
    damaged,    \* history: objects damaged from outside and still in place
    orphans,    \* history: temporary files whose Put will not remove them
    stable      \* history: stable[k], the paths k listed, untouched since

disk == <<file, acked, damaged, orphans, stable>>
vars == <<disk, clock, put, scan>>

Exists(p) == file[p] # NoFile

Intact(f, c) == f.of = c /\ f.bytes = Size[c]

\* The paths in P are created, written, renamed or removed by this step.
Touch(P) == stable' = [k \in Scanners |-> stable[k] \ P]

-----------------------------------------------------------------------------
(* Per-call state.                                                          *)

\* The program counters at which a Put owns a temporary file.
HoldsTemp == {"write", "rename", "unlink"}

PutRec == [pc : {"idle", "stat", "create", "ok", "error"} \cup HoldsTemp,
           arg : Content, temp : Temp \cup {NoTemp}, res : {"ok", "error"}]

\* "todo": the directory entries still to be walked, then the objects still to be
\* processed; "infos" over "seen": the slice objects() builds; "cands": removeSet.
\* The counters of CleanupResult are kept as sets of paths: "failed" for Failed;
\* WouldRemove is cands, Removed is cands \ failed, Kept is the rest of seen.
\* History: "vanished", an entry was gone when the walk reached it.
ScanRec == [pc : {"idle", "walk", "plan", "apply", "done", "error"},
            op : {"cleanup", "dryrun", "diagnostics"}, policy : Policies,
            now : Nat, todo : SUBSET Path, seen : SUBSET Path,
            infos : [Path -> [size : Nat, mtime : Nat]],
            cands : SUBSET Path, failed : SUBSET Path, vanished : BOOLEAN]

IdlePut == [pc |-> "idle", arg |-> CHOOSE c \in Content : TRUE,
            temp |-> NoTemp, res |-> "ok"]

NoInfos == [p \in Path |-> [size |-> 0, mtime |-> 0]]

IdleScan == [pc |-> "idle", op |-> "cleanup", policy |-> CHOOSE pol \in Policies : TRUE,
             now |-> 0, todo |-> {}, seen |-> {}, infos |-> NoInfos,
             cands |-> {}, failed |-> {}, vanished |-> FALSE]

TypeOK ==
    /\ file \in [Path -> FileRec \cup {NoFile}]
    /\ clock \in 0 .. MaxTime
    /\ put \in [Putters -> PutRec]
    /\ scan \in [Scanners -> ScanRec]
    /\ acked \subseteq Content
    /\ damaged \subseteq Content
    /\ orphans \subseteq Temp
    /\ stable \in [Scanners -> SUBSET Path]

Init ==
    /\ file = [p \in Path |-> NoFile]
    /\ clock = 0
    /\ put = [p \in Putters |-> IdlePut]
    /\ scan = [k \in Scanners |-> IdleScan]
    /\ acked = {}
    /\ damaged = {}
    /\ orphans = {}
    /\ stable = [k \in Scanners |-> {}]

-----------------------------------------------------------------------------
(* Put.                                                                     *)

PutAt(p, pc) == put[p].pc = pc /\ UNCHANGED <<clock, scan>>

Goto(p, pc) == put' = [put EXCEPT ![p].pc = pc]

\* Mutant: the early returns skip the deferred os.Remove.
ReturnWithoutDefer(p, res) ==
    put' = [put EXCEPT ![p] = [@ EXCEPT !.res = res, !.pc = res, !.temp = NoTemp]]

\* The call returns res; a call that owns a temporary file runs the deferred
\* os.Remove first.
Return(p, res) ==
    put' = [put EXCEPT ![p].res = res,
                       ![p].pc = IF put[p].temp = NoTemp THEN res ELSE "unlink"]

PutCall(p, c) ==
    /\ \E pc \in {"idle", "ok", "error"} : PutAt(p, pc)
    /\ put' = [put EXCEPT ![p] = [IdlePut EXCEPT !.pc = "stat", !.arg = c]]
    /\ UNCHANGED disk

\* The object is already there: its content and modification time are left alone.
PutStatHit(p) ==
    /\ PutAt(p, "stat")
    /\ Exists(put[p].arg)
    /\ Return(p, "ok")
    /\ acked' = acked \cup {put[p].arg}
    /\ UNCHANGED <<file, damaged, orphans, stable>>

PutStatMiss(p) ==
    /\ PutAt(p, "stat")
    /\ ~Exists(put[p].arg)
    /\ Goto(p, "create")
    /\ UNCHANGED disk

\* MkdirAll and CreateTemp.  The random suffix is taken to be fresh among the
\* calls in flight, and O_EXCL makes it fresh among the files.
PutCreateTemp(p, t) ==
    /\ PutAt(p, "create")
    /\ ~Exists(t)
    /\ \A q \in Putters : put[q].temp # t
    /\ put' = [put EXCEPT ![p].pc = "write", ![p].temp = t]
    /\ file' = [file EXCEPT ![t] = [of |-> put[p].arg, bytes |-> 0, mtime |-> clock]]
    /\ Touch({t})
    /\ UNCHANGED <<acked, damaged, orphans>>

\* Writes go to the open file: when a Cleanup has unlinked it meanwhile they are lost.
WriteTemp(p, n) ==
    LET t == put[p].temp
    IN /\ file' = IF Exists(t)
                  THEN [file EXCEPT ![t] = [of |-> put[p].arg, bytes |-> n, mtime |-> clock]]
                  ELSE file
       /\ Touch({t})
       /\ UNCHANGED <<acked, damaged, orphans>>

\* Mutant: the object is written in its place, before the call can succeed.
PutWriteInPlace(p) ==
    LET c == put[p].arg
    IN /\ PutAt(p, "write")
       /\ file' = [file EXCEPT ![c] = [of |-> c, bytes |-> Size[c], mtime |-> clock]]
       /\ Touch({c})
       /\ Goto(p, "rename")
       /\ UNCHANGED <<acked, damaged, orphans>>

\* Write, Chmod and Close; there is no Sync.
PutWrite(p) ==
    /\ PutAt(p, "write")
    /\ WriteTemp(p, Size[put[p].arg])
    /\ Goto(p, "rename")

\* Mutant: the error of Write is not checked.
PutShortWriteIgnored(p, n) ==
    /\ PutAt(p, "write")
    /\ n < Size[put[p].arg]
    /\ WriteTemp(p, n)
    /\ Goto(p, "rename")

\* A short write (disk full) leaves n bytes behind and fails the call.
PutShortWrite(p, n) ==
    /\ PutAt(p, "write")
    /\ n < Size[put[p].arg]
    /\ WriteTemp(p, n)
    /\ Return(p, "error")

\* Rename replaces whatever is at the object path and keeps the modification time.
PutRename(p) ==
    LET c == put[p].arg
        t == put[p].temp
    IN /\ PutAt(p, "rename")
       /\ Exists(t)
       /\ file' = [file EXCEPT ![c] = file[t], ![t] = NoFile]
       /\ Return(p, "ok")
       /\ acked' = acked \cup {c}
       /\ damaged' = damaged \ {c}
       /\ Touch({c, t})
       /\ UNCHANGED orphans

\* A platform that refuses to replace the target: someone else has stored it.
PutRenameExists(p) ==
    /\ PutAt(p, "rename")
    /\ Exists(put[p].arg)
    /\ Return(p, "ok")
    /\ acked' = acked \cup {put[p].arg}
    /\ UNCHANGED <<file, damaged, orphans, stable>>

\* Mutant: an error of CreateTemp is answered by trying again.
PutFailRetries(p) ==
    \/ /\ PutAt(p, "create")
       /\ Goto(p, "stat")
       /\ UNCHANGED disk
    \/ /\ \E pc \in {"stat", "rename"} : PutAt(p, pc)
       /\ Return(p, "error")
       /\ UNCHANGED disk

\* An I/O error of Stat, MkdirAll, CreateTemp, Chmod, Close or Rename; Rename
\* also fails when a Cleanup has removed the temporary file.
PutFail(p) ==
    /\ \E pc \in {"stat", "create", "rename"} : PutAt(p, pc)
    /\ Return(p, "error")
    /\ UNCHANGED disk

\* The deferred os.Remove(tempName); after a successful Rename there is nothing
\* left to remove.
PutUnlink(p) ==
    LET t == put[p].temp
    IN /\ PutAt(p, "unlink")
       /\ put' = [put EXCEPT ![p].pc = put[p].res, ![p].temp = NoTemp]
       /\ file' = [file EXCEPT ![t] = NoFile]
       /\ Touch({t})
       /\ UNCHANGED <<acked, damaged, orphans>>

\* No one removes the temporary file any more.
Abandon(p) == orphans' = orphans \cup {t \in Temp : t = put[p].temp /\ Exists(t)}

\* Its error is ignored.
PutUnlinkFail(p) ==
    /\ PutAt(p, "unlink")
    /\ Exists(put[p].temp)
    /\ put' = [put EXCEPT ![p].pc = put[p].res, ![p].temp = NoTemp]
    /\ Abandon(p)
    /\ UNCHANGED <<file, acked, damaged, stable>>

\* The process dies: deferred functions do not run.
PutCrash(p) ==
    /\ \E pc \in {"stat", "create"} \cup HoldsTemp : PutAt(p, pc)
    /\ put' = [put EXCEPT ![p] = IdlePut]
    /\ Abandon(p)
    /\ UNCHANGED <<file, acked, damaged, stable>>

-----------------------------------------------------------------------------
(* Get reads one file and changes nothing: it is the value of a state        *)
(* function at the instant the file is opened.                               *)

Get(c) ==
    CASE ~Exists(c)          -> "ErrNotFound"
      [] Exists(c) /\ ~Intact(file[c], c) -> "ErrCorrupt"
      [] Exists(c) /\ Intact(file[c], c)  -> "content"

-----------------------------------------------------------------------------
(* objects(): the walk over the objects directory.                           *)

ScanAt(k, pc) == scan[k].pc = pc /\ UNCHANGED <<clock, put>>

Update(k, call) == scan' = [scan EXCEPT ![k] = call]

\* entry.Info()
Info(p) == [size |-> file[p].bytes, mtime |-> file[p].mtime]

\* The directory is read; temporary files are entries like any other.  Diagnostics
\* takes no policy.
ScanCall(k, op, policy) ==
    LET entries == {p \in Path : Exists(p)}
    IN /\ op = "diagnostics" => policy = IdleScan.policy
       /\ \E pc \in {"idle", "done", "error"} : ScanAt(k, pc)
       /\ Update(k, [IdleScan EXCEPT !.pc = "walk", !.op = op, !.policy = policy,
                                     !.todo = entries])
       /\ stable' = [stable EXCEPT ![k] = entries]
       /\ UNCHANGED <<file, acked, damaged, orphans>>

\* Entries come in lexical order: "." sorts before every hexadecimal digit.
NextEntry(k, p) ==
    /\ p \in scan[k].todo
    /\ p \in Temp \/ scan[k].todo \cap Temp = {}

WalkEntry(k, p) ==
    /\ ScanAt(k, "walk")
    /\ NextEntry(k, p)
    /\ Exists(p)
    /\ Update(k, [scan[k] EXCEPT !.todo = @ \ {p}, !.seen = @ \cup {p}, !.infos[p] = Info(p)])
    /\ UNCHANGED disk

\* Mutant: the walk stops where the entry vanished and keeps what it has so far.
WalkVanishedSkipsRest(k, p) ==
    /\ ScanAt(k, "walk")
    /\ NextEntry(k, p)
    /\ ~Exists(p)
    /\ Update(k, [scan[k] EXCEPT !.pc = "plan", !.todo = {}])
    /\ UNCHANGED disk

\* The entry is gone: the walk ends with ErrNotExist, and objects() returns no
\* object and no error.
WalkVanished(k, p) ==
    /\ ScanAt(k, "walk")
    /\ NextEntry(k, p)
    /\ ~Exists(p)
    /\ Update(k, [scan[k] EXCEPT !.pc = "plan", !.todo = {}, !.seen = {},
                                 !.infos = NoInfos, !.vanished = TRUE])
    /\ UNCHANGED disk

WalkDone(k) ==
    /\ ScanAt(k, "walk")
    /\ scan[k].todo = {}
    /\ Update(k, [scan[k] EXCEPT !.pc = "plan"])
    /\ UNCHANGED disk

\* The call ends; its slice of objects is dropped.
Finish(k, pc) == Update(k, [scan[k] EXCEPT !.pc = pc, !.todo = {}, !.infos = NoInfos])

WalkFail(k) ==
    /\ ScanAt(k, "walk")
    /\ Update(k, [IdleScan EXCEPT !.pc = "error"])
    /\ UNCHANGED disk

-----------------------------------------------------------------------------
(* Diagnostics and Cleanup.                                                  *)

Bytes(infos, S) == MapThenSumSet(LAMBDA p : infos[p].size, S)

\* Diagnostics.Objects and Diagnostics.Bytes are the size and the bytes of "seen".
Diagnostics(k) ==
    /\ ScanAt(k, "plan")
    /\ scan[k].op = "diagnostics"
    /\ Finish(k, "done")
    /\ UNCHANGED disk

Expired(info, policy, now) ==
    policy.maxAge > 0 /\ info.mtime + policy.maxAge < now

\* R is what a loop over S, sorted oldest first, has removed at some point.
OldestFirst(infos, S, R) ==
    \A p \in R, q \in S \ R : infos[p].mtime <= infos[q].mtime

\* The loop removes the oldest until the rest fits; equal times sort either way.
OverLimit(infos, S, policy) ==
    IF policy.maxBytes = 0 THEN {{}}
    ELSE {R \in SUBSET S :
            /\ OldestFirst(infos, S, R)
            /\ Bytes(infos, S \ R) <= policy.maxBytes
            /\ \/ R = {}
               \/ \E p \in R : /\ OldestFirst(infos, S, R \ {p})
                               /\ Bytes(infos, (S \ R) \cup {p}) > policy.maxBytes}

\* The possible values of removeSet.
CleanupCandidates(infos, seen, policy, now) ==
    LET old == {p \in seen : Expired(infos[p], policy, now)}
    IN {old \cup R : R \in OverLimit(infos, seen \ old, policy)}

CleanupPlan(k) ==
    /\ ScanAt(k, "plan")
    /\ scan[k].op # "diagnostics"
    /\ \E R \in CleanupCandidates(scan[k].infos, scan[k].seen, scan[k].policy, clock) :
         Update(k, [scan[k] EXCEPT !.pc = "apply", !.now = clock, !.cands = R,
                                   !.todo = IF scan[k].op = "cleanup" THEN R ELSE {}])
    /\ UNCHANGED disk

CleanupRemove(k, p) ==
    /\ ScanAt(k, "apply")
    /\ p \in scan[k].todo
    /\ Exists(p)
    /\ file' = [file EXCEPT ![p] = NoFile]
    /\ Update(k, [scan[k] EXCEPT !.todo = @ \ {p}])
    /\ acked' = acked \ {p}
    /\ damaged' = damaged \ {p}
    /\ orphans' = orphans \ {p}
    /\ Touch({p})

\* Mutant: the first failure ends the loop.
CleanupRemoveFailStops(k, p) ==
    /\ ScanAt(k, "apply")
    /\ p \in scan[k].todo
    /\ Update(k, [scan[k] EXCEPT !.todo = {}, !.failed = @ \cup {p}])
    /\ UNCHANGED disk

\* os.Remove fails, because the file is already gone or for any other reason; the
\* loop goes on.
CleanupRemoveFail(k, p) ==
    /\ ScanAt(k, "apply")
    /\ p \in scan[k].todo
    /\ Update(k, [scan[k] EXCEPT !.todo = @ \ {p}, !.failed = @ \cup {p}])
    /\ UNCHANGED disk

CleanupDone(k) ==
    /\ ScanAt(k, "apply")
    /\ scan[k].todo = {}
    /\ Finish(k, "done")
    /\ UNCHANGED disk

ScanCrash(k) ==
    /\ \E pc \in {"walk", "plan", "apply"} : ScanAt(k, pc)
    /\ Update(k, IdleScan)
    /\ UNCHANGED disk

-----------------------------------------------------------------------------
(* The environment.                                                          *)

\* An object is truncated or overwritten from outside, or loses its unsynced
\* data in a power failure; any wrong content is represented by a wrong length.
Damage(c) ==
    /\ Damages
    /\ Exists(c)
    /\ Size[c] > 0
    /\ file' = [file EXCEPT ![c] = [@ EXCEPT !.bytes = 0]]
    /\ damaged' = damaged \cup {c}
    /\ Touch({c})
    /\ UNCHANGED <<clock, put, scan, acked, orphans>>

Tick ==
    /\ clock < MaxTime
    /\ clock' = clock + 1
    /\ UNCHANGED <<disk, put, scan>>

PutStep(p) ==
    \/ PutStatHit(p)
    \/ PutStatMiss(p)
    \/ \E t \in Temp : PutCreateTemp(p, t)
    \/ PutWrite(p)
    \/ \E n \in 0 .. Size[put[p].arg] : PutShortWrite(p, n)
    \/ PutRename(p)
    \/ PutRenameExists(p)
    \/ PutFail(p)
    \/ PutUnlink(p)
    \/ PutUnlinkFail(p)

ScanStep(k) ==
    \/ \E p \in Path : WalkEntry(k, p)
    \/ \E p \in Path : WalkVanished(k, p)
    \/ WalkDone(k)
    \/ WalkFail(k)
    \/ Diagnostics(k)
    \/ CleanupPlan(k)
    \/ \E p \in Path : CleanupRemove(k, p)
    \/ \E p \in Path : CleanupRemoveFail(k, p)
    \/ CleanupDone(k)

Next ==
    \/ \E p \in Putters, c \in Content : PutCall(p, c)
    \/ \E p \in Putters : PutStep(p) \/ PutCrash(p)
    \/ \E k \in Scanners, op \in {"cleanup", "dryrun", "diagnostics"}, policy \in Policies :
          ScanCall(k, op, policy)
    \/ \E k \in Scanners : ScanStep(k) \/ ScanCrash(k)
    \/ \E c \in Content : Damage(c)
    \/ Tick

Spec == Init /\ [][Next]_vars

\* A call in progress keeps running; nothing obliges a caller to call again, the
\* clock to advance or the disk to fail.
FairSpec ==
    /\ Spec
    /\ \A p \in Putters : WF_vars(PutStep(p))
    /\ \A k \in Scanners : WF_vars(ScanStep(k))

-----------------------------------------------------------------------------
(* Properties.                                                               *)

\* What Get answers follows from the calls alone, whatever the interleaving of
\* Puts, Cleanups, failed writes and crashes: an original that a Put returned
\* successfully is found until a Cleanup removes it, and what is found is the
\* original unless it was damaged from outside (store.go, Put and Get).
GetHonest ==
    \A c \in Content :
        /\ c \in acked => Get(c) # "ErrNotFound"
        /\ Get(c) = "ErrCorrupt" => c \in damaged

\* Put leaves no temporary file behind, on success or on any error path: every
\* temporary file belongs to a Put in flight, or to one that crashed or whose
\* os.Remove failed (store.go, the deferred Remove).
NoLeakedTemp ==
    \A t \in Temp :
        Exists(t) => t \in orphans \/ \E p \in Putters : put[p].temp = t

\* What a finished Cleanup whose walk was not cut short leaves of what it listed,
\* leaving aside what was touched meanwhile and what could not be removed, is
\* within the policy: nothing expired, and no more than MaxBytes (retention.go,
\* cleanupCandidates and Cleanup).
Obeyed(k) ==
    LET left == stable[k] \ scan[k].failed
        pol == scan[k].policy
        info == [p \in left |-> Info(p)]
    IN /\ \A p \in left : ~Expired(info[p], pol, scan[k].now)
       /\ pol.maxBytes > 0 => Bytes(info, left) <= pol.maxBytes

PolicyObeyed ==
    \A k \in Scanners :
        scan[k].pc = "done" /\ scan[k].op = "cleanup" /\ ~scan[k].vanished => Obeyed(k)

\* The walk reports every file that was in place, untouched, all the time it took,
\* unless an entry vanished under it (retention.go, objects).
WalkComplete ==
    \A k \in Scanners :
        scan[k].pc \in {"plan", "apply", "done"} /\ ~scan[k].vanished =>
            stable[k] \subseteq scan[k].seen

\* A Cleanup overlooks nothing that was there all along, and what it leaves of what it
\* listed is within its policy (retention.go, objects and cleanupCandidates).
RetentionExact == WalkComplete /\ PolicyObeyed

\* Every call returns: a Put and a Cleanup finish, or their process crashes, no
\* matter how many others keep storing and removing files meanwhile.
CallsReturn ==
    /\ \A p \in Putters :
         put[p].pc = "stat" ~> put[p].pc \in {"idle", "ok", "error"}
    /\ \A k \in Scanners :
         scan[k].pc = "walk" ~> scan[k].pc \in {"idle", "done", "error"}

-----------------------------------------------------------------------------
(* The store implements its contract.                                        *)

Held == {c \in Content : Exists(c)}
Corrupt == {c \in Content : Get(c) = "ErrCorrupt"}

Contract == INSTANCE CCRContract WITH held <- Held, bad <- Corrupt

\* Seen through Get, every step of every call is a step of the contract or none:
\* an object appears whole and at once, is acknowledged only while it is there,
\* and leaves by retention only (store.go and retention.go together).
ImplementsContract == Contract!Spec

-----------------------------------------------------------------------------
(* What docs/ccr-architecture.md says of Cleanup and Diagnostics.            *)

\* "Confirmed cleanup removes expired objects first, then oldest remaining objects
\* until total stored bytes are within policy": whenever a Cleanup has returned
\* without an error.
CleanupEnforcesPolicy ==
    \A k \in Scanners : scan[k].pc = "done" /\ scan[k].op = "cleanup" => Obeyed(k)
=============================================================================
