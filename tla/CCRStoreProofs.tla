--------------------------- MODULE CCRStoreProofs ---------------------------
(***************************************************************************)
(* Proofs about CCRStore and its markers, for every set of originals,       *)
(* sizes, temporary names, writers, cleaners and policies: type             *)
(* correctness, honesty of Get and of markers, no litter, the refinement of *)
(* CCRContract, and that retention does what its policy says.               *)
(***************************************************************************)
EXTENDS CCRMarkers, LoopProofs, FiniteSetTheorems

LEMMA IdleTypes == IdlePut \in PutRec /\ IdleScan \in ScanRec
  <1>1. (CHOOSE c \in Content : TRUE) \in Content
    BY StoreAssumption
  <1>2. (CHOOSE pol \in Policies : TRUE) \in Policies
    BY PolicyAssumption
  <1>3. IdlePut \in PutRec
    BY <1>1 DEF IdlePut, PutRec, HoldsTemp
  <1>4. NoInfos \in [Path -> [size : Nat, mtime : Nat]]
    BY DEF NoInfos
  <1>5. IdleScan \in ScanRec
    BY <1>2, <1>4 DEF IdleScan, ScanRec
  <1> QED BY <1>3, <1>5

\* What Cleanup chooses for removal it has seen in its walk.
LEMMA CandidatesSeen ==
    ASSUME NEW infos, NEW seen, NEW policy, NEW now,
           NEW R \in CleanupCandidates(infos, seen, policy, now)
    PROVE  R \subseteq seen
  <1> DEFINE old == {p \in seen : Expired(infos[p], policy, now)}
  <1>1. PICK Q \in OverLimit(infos, seen \ old, policy) : R = old \cup Q
    BY DEF CleanupCandidates
  <1>2. Q \subseteq seen
    BY <1>1 DEF OverLimit
  <1> QED BY <1>1, <1>2

LEMMA TypeInit == Init => TypeOK
  BY IdleTypes, PolicyAssumption DEF Init, TypeOK, Path

LEMMA TypePut ==
    ASSUME TypeOK, NEW p \in Putters, PutStep(p)
    PROVE  TypeOK'
  <1> USE DEF TypeOK, PutAt, Goto, Return, disk, Touch
  <1> DEFINE WriteTypes(n) ==
        /\ file' \in [Path -> FileRec \cup {NoFile}]
        /\ stable' \in [Scanners -> SUBSET Path]
        /\ UNCHANGED <<acked, damaged, orphans>>
  <1>w. ASSUME NEW n \in Nat, WriteTemp(p, n) PROVE WriteTypes(n)
    <2>1. [of |-> put[p].arg, bytes |-> n, mtime |-> clock] \in FileRec
      BY PolicyAssumption DEF PutRec, FileRec
    <2> QED BY <1>w, <2>1 DEF WriteTemp
  <1>1. CASE PutStatHit(p)
    BY <1>1 DEF PutStatHit, PutRec, HoldsTemp
  <1>2. CASE PutStatMiss(p)
    BY <1>2 DEF PutStatMiss, PutRec, HoldsTemp
  <1>3. ASSUME NEW t \in Temp, PutCreateTemp(p, t) PROVE TypeOK'
    BY <1>3, PolicyAssumption DEF PutCreateTemp, PutRec, HoldsTemp, FileRec, Path
  <1>4. CASE PutWrite(p)
    <2>1. Size[put[p].arg] \in Nat
      BY StoreAssumption DEF PutRec
    <2>2. WriteTypes(Size[put[p].arg])
      BY <1>4, <2>1, <1>w DEF PutWrite
    <2> QED BY <1>4, <2>2 DEF PutWrite, PutRec, HoldsTemp, WriteTypes
  <1>5. ASSUME NEW n \in 0 .. Size[put[p].arg], PutShortWrite(p, n) PROVE TypeOK'
    <2>1. n \in Nat
      BY StoreAssumption DEF PutRec
    <2>2. WriteTypes(n)
      BY <1>5, <2>1, <1>w DEF PutShortWrite
    <2> QED BY <1>5, <2>2 DEF PutShortWrite, PutRec, HoldsTemp, WriteTypes
  <1>6. CASE PutRename(p)
    BY <1>6 DEF PutRename, PutRec, HoldsTemp, Path, Exists
  <1>7. CASE PutRenameExists(p)
    BY <1>7 DEF PutRenameExists, PutRec, HoldsTemp
  <1>8. CASE PutFail(p)
    BY <1>8 DEF PutFail, PutRec, HoldsTemp
  <1>9. CASE PutUnlink(p)
    BY <1>9 DEF PutUnlink, PutRec, HoldsTemp
  <1>10. CASE PutUnlinkFail(p)
    BY <1>10 DEF PutUnlinkFail, Abandon, PutRec, HoldsTemp
  <1> QED BY <1>1, <1>2, <1>3, <1>4, <1>5, <1>6, <1>7, <1>8, <1>9, <1>10 DEF PutStep

\* A step of a scanner that removes nothing keeps the types if its own record does.
LEMMA TypeUpdate ==
    ASSUME TypeOK, NEW k \in Scanners, NEW call \in ScanRec, Update(k, call),
           UNCHANGED <<disk, clock, put>>
    PROVE  TypeOK'
  BY DEF TypeOK, Update, disk

LEMMA TypeScan ==
    ASSUME TypeOK, NEW k \in Scanners, ScanStep(k)
    PROVE  TypeOK'
  <1> DEFINE s == scan[k]
  <1>s. /\ s \in ScanRec
        /\ s.todo \subseteq Path
        /\ s.seen \subseteq Path
        /\ s.failed \subseteq Path
        /\ s.infos \in [Path -> [size : Nat, mtime : Nat]]
    BY DEF TypeOK, ScanRec
  <1>n. NoInfos \in [Path -> [size : Nat, mtime : Nat]]
    BY DEF NoInfos
  <1> HIDE DEF s
  <1>f. [s EXCEPT !.pc = "done", !.todo = {}, !.infos = NoInfos] \in ScanRec
    BY <1>s, <1>n DEF ScanRec
  <1>1. ASSUME NEW p \in Path, WalkEntry(k, p) PROVE TypeOK'
    <2>1. Info(p) \in [size : Nat, mtime : Nat]
      BY <1>1 DEF WalkEntry, Exists, FileRec, Info, TypeOK
    <2>2. [s EXCEPT !.todo = @ \ {p}, !.seen = @ \cup {p}, !.infos[p] = Info(p)] \in ScanRec
      BY <1>s, <2>1 DEF ScanRec
    <2> QED BY <1>1, <2>2, TypeUpdate DEF WalkEntry, ScanAt, s
  <1>2. ASSUME NEW p \in Path, WalkVanished(k, p) PROVE TypeOK'
    <2>1. [s EXCEPT !.pc = "plan", !.todo = {}, !.seen = {}, !.infos = NoInfos,
                    !.vanished = TRUE] \in ScanRec
      BY <1>s, <1>n DEF ScanRec
    <2> QED BY <1>2, <2>1, TypeUpdate DEF WalkVanished, ScanAt, s
  <1>3. CASE WalkDone(k)
    <2>1. [s EXCEPT !.pc = "plan"] \in ScanRec
      BY <1>s DEF ScanRec
    <2> QED BY <1>3, <2>1, TypeUpdate DEF WalkDone, ScanAt, s
  <1>4. CASE WalkFail(k)
    <2>1. [IdleScan EXCEPT !.pc = "error"] \in ScanRec
      BY IdleTypes DEF ScanRec
    <2> QED BY <1>4, <2>1, TypeUpdate DEF WalkFail, ScanAt
  <1>5. CASE Diagnostics(k)
    BY <1>5, <1>f, TypeUpdate DEF Diagnostics, Finish, ScanAt, s
  <1>6. CASE CleanupPlan(k)
    <2>1. PICK R \in CleanupCandidates(s.infos, s.seen, s.policy, clock) :
             Update(k, [s EXCEPT !.pc = "apply", !.now = clock, !.cands = R,
                                 !.todo = IF s.op = "cleanup" THEN R ELSE {}])
      BY <1>6 DEF CleanupPlan, s
    <2>2. R \subseteq Path
      BY CandidatesSeen, <1>s
    <2>3. clock \in Nat
      BY PolicyAssumption DEF TypeOK
    <2>4. [s EXCEPT !.pc = "apply", !.now = clock, !.cands = R,
                    !.todo = IF s.op = "cleanup" THEN R ELSE {}] \in ScanRec
      BY <1>s, <2>2, <2>3 DEF ScanRec
    <2> QED BY <1>6, <2>1, <2>4, TypeUpdate DEF CleanupPlan, ScanAt
  <1>7. ASSUME NEW p \in Path, CleanupRemove(k, p) PROVE TypeOK'
    <2>1. [s EXCEPT !.todo = @ \ {p}] \in ScanRec
      BY <1>s DEF ScanRec
    <2> QED BY <1>7, <2>1 DEF CleanupRemove, ScanAt, s, TypeOK, Update, Touch
  <1>8. ASSUME NEW p \in Path, CleanupRemoveFail(k, p) PROVE TypeOK'
    <2>1. [s EXCEPT !.todo = @ \ {p}, !.failed = @ \cup {p}] \in ScanRec
      BY <1>s DEF ScanRec
    <2> QED BY <1>8, <2>1, TypeUpdate DEF CleanupRemoveFail, ScanAt, s
  <1>9. CASE CleanupDone(k)
    BY <1>9, <1>f, TypeUpdate DEF CleanupDone, Finish, ScanAt, s
  <1> QED BY <1>1, <1>2, <1>3, <1>4, <1>5, <1>6, <1>7, <1>8, <1>9 DEF ScanStep

LEMMA TypeNext == TypeOK /\ [Next]_vars => TypeOK'
  <1> SUFFICES ASSUME TypeOK, [Next]_vars PROVE TypeOK'
    OBVIOUS
  <1> USE DEF TypeOK, disk, Touch
  <1>1. ASSUME NEW p \in Putters, NEW c \in Content, PutCall(p, c) PROVE TypeOK'
    BY <1>1, IdleTypes DEF PutCall, PutAt, IdlePut, PutRec
  <1>2. ASSUME NEW p \in Putters, PutStep(p) PROVE TypeOK'
    BY <1>2, TypePut
  <1>3. ASSUME NEW p \in Putters, PutCrash(p) PROVE TypeOK'
    BY <1>3, IdleTypes DEF PutCrash, PutAt, Abandon
  <1>4. ASSUME NEW k \in Scanners, NEW op \in {"cleanup", "dryrun", "diagnostics"},
               NEW policy \in Policies, ScanCall(k, op, policy)
        PROVE  TypeOK'
    <2> DEFINE entries == {p \in Path : Exists(p)}
    <2>1. [IdleScan EXCEPT !.pc = "walk", !.op = op, !.policy = policy,
                           !.todo = entries] \in ScanRec
      BY IdleTypes DEF ScanRec
    <2> QED BY <1>4, <2>1 DEF ScanCall, ScanAt, Update
  <1>5. ASSUME NEW k \in Scanners, ScanStep(k) PROVE TypeOK'
    BY <1>5, TypeScan
  <1>6. ASSUME NEW k \in Scanners, ScanCrash(k) PROVE TypeOK'
    BY <1>6, IdleTypes DEF ScanCrash, ScanAt, Update
  <1>7. ASSUME NEW c \in Content, Damage(c) PROVE TypeOK'
    BY <1>7 DEF Damage, Exists, FileRec, Path
  <1>8. CASE Tick
    BY <1>8, PolicyAssumption DEF Tick
  <1>9. CASE UNCHANGED vars
    BY <1>9 DEF vars
  <1> QED BY <1>1, <1>2, <1>3, <1>4, <1>5, <1>6, <1>7, <1>8, <1>9 DEF Next

\* Every variable keeps its type in every reachable state of the store.
THEOREM TypeCorrect == Spec => []TypeOK
  BY TypeInit, TypeNext, PTL DEF Spec

-----------------------------------------------------------------------------
(* The inductive invariant.                                                  *)

\* A Put owns a temporary name exactly between CreateTemp and the deferred Remove,
\* and no two calls own the same one.
Ownership ==
    /\ \A p \in Putters : put[p].temp # NoTemp <=> put[p].pc \in HoldsTemp
    /\ \A p, q \in Putters : put[p].temp = put[q].temp /\ put[p].temp # NoTemp => p = q

\* What a Put is about to rename is the whole original.
ReadyToRename ==
    \A p \in Putters : put[p].pc = "rename" /\ Exists(put[p].temp) =>
                          Intact(file[put[p].temp], put[p].arg)

\* No object is torn unless it was damaged from outside.
ObjectsWhole ==
    \A c \in Content : Exists(c) /\ c \notin damaged => Intact(file[c], c)

AckedPresent == \A c \in acked : Exists(c)

IInv == TypeOK /\ Ownership /\ ReadyToRename /\ ObjectsWhole /\ AckedPresent /\ NoLeakedTemp

\* Temporary names are not object paths, so a Put that changes only the file of its
\* own name keeps every other file.
LEMMA Disjoint ==
    ASSUME TypeOK, Ownership, NEW p \in Putters, put[p].temp # NoTemp
    PROVE  /\ put[p].temp \in Temp
           /\ put[p].temp \in Path
           /\ put[p].temp \notin Content
           /\ \A q \in Putters \ {p} : put[q].temp # put[p].temp
  BY StoreAssumption DEF TypeOK, Ownership, PutRec, Path

LEMMA InvInit == Init => IInv
  <1> SUFFICES ASSUME Init PROVE IInv
    OBVIOUS
  <1>1. TypeOK
    BY TypeInit
  <1>2. \A p \in Path : ~Exists(p)
    BY DEF Init, Exists
  <1>3. Ownership
    BY DEF Init, Ownership, IdlePut, HoldsTemp
  <1>4. ReadyToRename
    BY DEF Init, ReadyToRename, IdlePut
  <1>5. ObjectsWhole /\ AckedPresent /\ NoLeakedTemp
    BY <1>2 DEF Init, ObjectsWhole, AckedPresent, NoLeakedTemp, Path
  <1> QED BY <1>1, <1>3, <1>4, <1>5 DEF IInv

\* A step that leaves the directory, the acknowledgements and every Put alone.
LEMMA InvQuiet ==
    ASSUME IInv, TypeOK', UNCHANGED <<file, acked, damaged, orphans, put>>
    PROVE  IInv'
  BY DEF IInv, Ownership, ReadyToRename, ObjectsWhole, AckedPresent, NoLeakedTemp, Exists, Intact

LEMMA InvPut ==
    ASSUME IInv, TypeOK', NEW p \in Putters, PutStep(p) \/ PutCrash(p)
    PROVE  IInv'
  <1> USE DEF PutAt, Goto, Return, disk, HoldsTemp
  <1>t. /\ TypeOK /\ Ownership /\ ReadyToRename /\ ObjectsWhole /\ AckedPresent /\ NoLeakedTemp
        /\ put[p] \in PutRec
    BY DEF IInv, TypeOK
  <1>1. CASE PutStatHit(p)
    <2>1. Ownership'
      BY <1>t, <1>1 DEF PutStatHit, Ownership, TypeOK, PutRec
    <2>2. ReadyToRename'
      BY <1>t, <1>1 DEF PutStatHit, ReadyToRename, Exists, Intact, TypeOK, PutRec
    <2>3. ObjectsWhole' /\ AckedPresent'
      BY <1>t, <1>1 DEF PutStatHit, ObjectsWhole, AckedPresent, Exists, Intact
    <2>4. NoLeakedTemp'
      BY <1>t, <1>1 DEF PutStatHit, NoLeakedTemp, Exists, TypeOK, PutRec
    <2> QED BY <2>1, <2>2, <2>3, <2>4 DEF IInv
  <1>2. CASE PutStatMiss(p)
    <2>1. Ownership' /\ ReadyToRename'
      BY <1>t, <1>2 DEF PutStatMiss, Ownership, ReadyToRename, Exists, Intact, TypeOK, PutRec
    <2>2. ObjectsWhole' /\ AckedPresent' /\ NoLeakedTemp'
      BY <1>t, <1>2 DEF PutStatMiss, ObjectsWhole, AckedPresent, NoLeakedTemp, Exists, Intact, TypeOK, PutRec
    <2> QED BY <2>1, <2>2 DEF IInv
  <1>3. ASSUME NEW t \in Temp, PutCreateTemp(p, t) PROVE IInv'
    <2>1. t \notin Content /\ t # NoTemp
      BY StoreAssumption
    <2>2. Ownership'
      BY <1>t, <1>3, <2>1 DEF PutCreateTemp, Ownership, TypeOK, PutRec
    <2>3. ReadyToRename'
      BY <1>t, <1>3, <2>1 DEF PutCreateTemp, ReadyToRename, Exists, Intact, TypeOK, PutRec
    <2>4. ObjectsWhole' /\ AckedPresent'
      BY <1>t, <1>3, <2>1 DEF PutCreateTemp, ObjectsWhole, AckedPresent, Exists, Intact, TypeOK
    <2>5. NoLeakedTemp'
      BY <1>t, <1>3, <2>1 DEF PutCreateTemp, NoLeakedTemp, Exists, TypeOK, PutRec
    <2> QED BY <2>2, <2>3, <2>4, <2>5 DEF IInv
  <1>4. CASE PutWrite(p)
    <2>1. /\ put[p].temp \in Temp \cap Path
          /\ put[p].temp \notin Content
          /\ \A q \in Putters \ {p} : put[q].temp # put[p].temp
      BY <1>t, <1>4, Disjoint DEF PutWrite, Ownership
    <2>2. Ownership'
      BY <1>t, <1>4 DEF PutWrite, Ownership, TypeOK, PutRec
    <2>3. ReadyToRename'
      BY <1>t, <1>4, <2>1 DEF PutWrite, WriteTemp, ReadyToRename, Exists, Intact, TypeOK, PutRec
    <2>4. ObjectsWhole' /\ AckedPresent'
      BY <1>t, <1>4, <2>1 DEF PutWrite, WriteTemp, ObjectsWhole, AckedPresent, Exists, Intact, TypeOK
    <2>5. NoLeakedTemp'
      BY <1>t, <1>4, <2>1 DEF PutWrite, WriteTemp, NoLeakedTemp, Exists, TypeOK, PutRec
    <2> QED BY <2>2, <2>3, <2>4, <2>5 DEF IInv
  <1>5. ASSUME NEW n \in 0 .. Size[put[p].arg], PutShortWrite(p, n) PROVE IInv'
    <2>1. /\ put[p].temp \in Temp \cap Path
          /\ put[p].temp \notin Content
          /\ \A q \in Putters \ {p} : put[q].temp # put[p].temp
      BY <1>t, <1>5, Disjoint DEF PutShortWrite, Ownership
    <2>2. Ownership'
      BY <1>t, <1>5 DEF PutShortWrite, Ownership, TypeOK, PutRec
    <2>3. ReadyToRename'
      BY <1>t, <1>5, <2>1, StoreAssumption DEF PutShortWrite, WriteTemp, ReadyToRename, Exists, Intact, TypeOK, PutRec
    <2>4. ObjectsWhole' /\ AckedPresent'
      BY <1>t, <1>5, <2>1 DEF PutShortWrite, WriteTemp, ObjectsWhole, AckedPresent, Exists, Intact, TypeOK
    <2>5. NoLeakedTemp'
      BY <1>t, <1>5, <2>1 DEF PutShortWrite, WriteTemp, NoLeakedTemp, Exists, TypeOK, PutRec
    <2> QED BY <2>2, <2>3, <2>4, <2>5 DEF IInv
  <1>6. CASE PutRename(p)
    <2>1. /\ put[p].temp \in Temp \cap Path
          /\ put[p].temp \notin Content
          /\ \A q \in Putters \ {p} : put[q].temp # put[p].temp
      BY <1>t, <1>6, Disjoint DEF PutRename, Ownership
    <2>2. Ownership'
      BY <1>t, <1>6 DEF PutRename, Ownership, TypeOK, PutRec
    <2>3. ReadyToRename'
      <3>1. ASSUME NEW q \in Putters, put'[q].pc = "rename"
            PROVE  q # p /\ put'[q] = put[q] /\ put[q].temp \in Temp /\ put[q].temp # put[p].temp
        BY <1>t, <1>6, <2>1, <3>1 DEF PutRename, TypeOK, PutRec, Ownership
      <3>2. \A t \in Temp \ {put[p].temp} : file'[t] = file[t]
        BY <1>t, <1>6, <2>1, StoreAssumption DEF PutRename, TypeOK, PutRec, Path
      <3> QED BY <1>t, <3>1, <3>2 DEF ReadyToRename, Exists, Intact
    <2>4. ObjectsWhole' /\ AckedPresent'
      <3>1. file'[put[p].arg] = file[put[p].temp] /\ put[p].arg \in Content
        BY <1>t, <1>6, <2>1 DEF PutRename, TypeOK, PutRec, Path
      <3>2. \A c \in Content \ {put[p].arg} : file'[c] = file[c]
        BY <1>t, <1>6, <2>1 DEF PutRename, TypeOK, Path
      <3>3. Exists(put[p].temp) /\ Intact(file[put[p].temp], put[p].arg)
        BY <1>t, <1>6 DEF PutRename, ReadyToRename
      <3> QED BY <1>t, <1>6, <3>1, <3>2, <3>3 DEF PutRename, ObjectsWhole, AckedPresent, Exists, Intact, TypeOK
    <2>5. NoLeakedTemp'
      <3>1. \A t \in Temp : file'[t] = IF t = put[p].temp THEN NoFile ELSE file[t]
        BY <1>t, <1>6, <2>1, StoreAssumption DEF PutRename, TypeOK, PutRec, Path
      <3> QED BY <1>t, <1>6, <3>1 DEF PutRename, NoLeakedTemp, Exists, TypeOK, PutRec
    <2> QED BY <2>2, <2>3, <2>4, <2>5 DEF IInv
  <1>7. CASE PutRenameExists(p)
    <2>1. Ownership' /\ ReadyToRename'
      BY <1>t, <1>7 DEF PutRenameExists, Ownership, ReadyToRename, Exists, Intact, TypeOK, PutRec
    <2>2. ObjectsWhole' /\ AckedPresent' /\ NoLeakedTemp'
      BY <1>t, <1>7 DEF PutRenameExists, ObjectsWhole, AckedPresent, NoLeakedTemp, Exists, Intact, TypeOK, PutRec
    <2> QED BY <2>1, <2>2 DEF IInv
  <1>8. CASE PutFail(p)
    <2>1. Ownership' /\ ReadyToRename'
      BY <1>t, <1>8 DEF PutFail, Ownership, ReadyToRename, Exists, Intact, TypeOK, PutRec
    <2>2. ObjectsWhole' /\ AckedPresent' /\ NoLeakedTemp'
      BY <1>t, <1>8 DEF PutFail, ObjectsWhole, AckedPresent, NoLeakedTemp, Exists, Intact, TypeOK, PutRec
    <2> QED BY <2>1, <2>2 DEF IInv
  <1>9. CASE PutUnlink(p)
    <2>1. /\ put[p].temp \in Temp \cap Path
          /\ put[p].temp \notin Content
          /\ \A q \in Putters \ {p} : put[q].temp # put[p].temp
      BY <1>t, <1>9, Disjoint DEF PutUnlink, Ownership
    <2>2. Ownership'
      BY <1>t, <1>9 DEF PutUnlink, Ownership, TypeOK, PutRec
    <2>3. ReadyToRename'
      BY <1>t, <1>9, <2>1 DEF PutUnlink, ReadyToRename, Exists, Intact, TypeOK, PutRec, Ownership
    <2>4. ObjectsWhole' /\ AckedPresent'
      BY <1>t, <1>9, <2>1 DEF PutUnlink, ObjectsWhole, AckedPresent, Exists, Intact, TypeOK
    <2>5. NoLeakedTemp'
      BY <1>t, <1>9, <2>1 DEF PutUnlink, NoLeakedTemp, Exists, TypeOK, PutRec
    <2> QED BY <2>2, <2>3, <2>4, <2>5 DEF IInv
  <1>10. CASE PutUnlinkFail(p)
    <2>1. Ownership' /\ ReadyToRename'
      BY <1>t, <1>10 DEF PutUnlinkFail, Ownership, ReadyToRename, Exists, Intact, TypeOK, PutRec
    <2>2. ObjectsWhole' /\ AckedPresent'
      BY <1>t, <1>10 DEF PutUnlinkFail, ObjectsWhole, AckedPresent, Exists, Intact
    <2>3. NoLeakedTemp'
      BY <1>t, <1>10 DEF PutUnlinkFail, Abandon, NoLeakedTemp, Exists, TypeOK, PutRec
    <2> QED BY <2>1, <2>2, <2>3 DEF IInv
  <1>11. CASE PutCrash(p)
    <2>1. Ownership' /\ ReadyToRename'
      BY <1>t, <1>11 DEF PutCrash, IdlePut, Ownership, ReadyToRename, Exists, Intact, TypeOK, PutRec
    <2>2. ObjectsWhole' /\ AckedPresent'
      BY <1>t, <1>11 DEF PutCrash, ObjectsWhole, AckedPresent, Exists, Intact
    <2>3. NoLeakedTemp'
      BY <1>t, <1>11 DEF PutCrash, Abandon, NoLeakedTemp, Exists, TypeOK, PutRec
    <2> QED BY <2>1, <2>2, <2>3 DEF IInv
  <1> QED BY <1>1, <1>2, <1>3, <1>4, <1>5, <1>6, <1>7, <1>8, <1>9, <1>10, <1>11 DEF PutStep

LEMMA InvRemove ==
    ASSUME IInv, TypeOK', NEW k \in Scanners, NEW p \in Path, CleanupRemove(k, p)
    PROVE  IInv'
  <1>1. /\ TypeOK /\ Ownership /\ ReadyToRename /\ ObjectsWhole /\ AckedPresent /\ NoLeakedTemp
        /\ put' = put
        /\ \A q \in Path : file'[q] = IF q = p THEN NoFile ELSE file[q]
        /\ acked' = acked \ {p} /\ damaged' = damaged \ {p} /\ orphans' = orphans \ {p}
    BY DEF IInv, TypeOK, CleanupRemove, ScanAt
  <1>2. Ownership'
    BY <1>1 DEF Ownership
  <1>3. ReadyToRename'
    <2>1. \A q \in Putters : put[q].pc = "rename" => put[q].temp \in Path
      BY <1>1, Disjoint DEF Ownership, HoldsTemp
    <2> QED BY <1>1, <2>1 DEF ReadyToRename, Exists, Intact
  <1>4. ObjectsWhole' /\ AckedPresent' /\ NoLeakedTemp'
    BY <1>1 DEF ObjectsWhole, AckedPresent, NoLeakedTemp, Exists, Intact, TypeOK, Path
  <1> QED BY <1>2, <1>3, <1>4 DEF IInv

LEMMA InvNext == IInv /\ [Next]_vars => IInv'
  <1> SUFFICES ASSUME IInv, [Next]_vars PROVE IInv'
    OBVIOUS
  <1>t. TypeOK'
    BY TypeNext DEF IInv
  <1>1. ASSUME NEW p \in Putters, NEW c \in Content, PutCall(p, c) PROVE IInv'
    <2>1. /\ TypeOK /\ Ownership /\ ReadyToRename /\ ObjectsWhole /\ AckedPresent /\ NoLeakedTemp
          /\ put[p].temp = NoTemp
          /\ put'[p].temp = NoTemp /\ put'[p].pc = "stat"
          /\ \A q \in Putters \ {p} : put'[q] = put[q]
          /\ UNCHANGED disk
      BY <1>1 DEF IInv, PutCall, PutAt, TypeOK, Ownership, HoldsTemp, IdlePut
    <2>2. Ownership' /\ ReadyToRename'
      BY <2>1 DEF Ownership, ReadyToRename, Exists, Intact, disk, HoldsTemp
    <2>3. ObjectsWhole' /\ AckedPresent' /\ NoLeakedTemp'
      BY <2>1, StoreAssumption DEF ObjectsWhole, AckedPresent, NoLeakedTemp, Exists, Intact, disk
    <2> QED BY <1>t, <2>2, <2>3 DEF IInv
  <1>2. ASSUME NEW p \in Putters, PutStep(p) \/ PutCrash(p) PROVE IInv'
    BY <1>2, <1>t, InvPut
  <1>3. ASSUME NEW k \in Scanners, NEW op \in {"cleanup", "dryrun", "diagnostics"},
               NEW policy \in Policies, ScanCall(k, op, policy)
        PROVE  IInv'
    BY <1>3, <1>t, InvQuiet DEF ScanCall, ScanAt
  <1>4. ASSUME NEW k \in Scanners, ScanStep(k) PROVE IInv'
    <2>1. CASE \E p \in Path : CleanupRemove(k, p)
      BY <2>1, <1>t, InvRemove
    <2>2. CASE ~ \E p \in Path : CleanupRemove(k, p)
      <3>1. UNCHANGED <<file, acked, damaged, orphans, put>>
        BY <1>4, <2>2 DEF ScanStep, WalkEntry, WalkVanished, WalkDone, WalkFail, Diagnostics,
              CleanupPlan, CleanupRemoveFail, CleanupDone, ScanAt, disk
      <3> QED BY <3>1, <1>t, InvQuiet
    <2> QED BY <2>1, <2>2
  <1>5. ASSUME NEW k \in Scanners, ScanCrash(k) PROVE IInv'
    BY <1>5, <1>t, InvQuiet DEF ScanCrash, ScanAt, disk
  <1>6. ASSUME NEW c \in Content, Damage(c) PROVE IInv'
    <2>1. /\ TypeOK /\ Ownership /\ ReadyToRename /\ ObjectsWhole /\ AckedPresent /\ NoLeakedTemp
          /\ \A q \in Path \ {c} : file'[q] = file[q]
          /\ file'[c] \in FileRec
          /\ damaged' = damaged \cup {c}
          /\ UNCHANGED <<put, acked, orphans>>
      BY <1>6, <1>t DEF IInv, TypeOK, Damage, Exists, FileRec, Path
    <2>2. file'[c] # NoFile
      BY <2>1, StoreAssumption
    <2>3. Ownership'
      BY <2>1 DEF Ownership
    <2>4. ReadyToRename'
      <3>1. \A q \in Putters : put[q].pc = "rename" => put[q].temp \in Path \ {c}
        BY <2>1, Disjoint DEF Ownership, HoldsTemp
      <3> QED BY <2>1, <3>1 DEF ReadyToRename, Exists, Intact
    <2>5. ObjectsWhole' /\ AckedPresent' /\ NoLeakedTemp'
      BY <2>1, <2>2, StoreAssumption
         DEF ObjectsWhole, AckedPresent, NoLeakedTemp, Exists, Intact, Path, TypeOK
    <2> QED BY <1>t, <2>3, <2>4, <2>5 DEF IInv
  <1>7. CASE Tick
    BY <1>7, <1>t, InvQuiet DEF Tick, disk
  <1>8. CASE UNCHANGED vars
    BY <1>8, <1>t, InvQuiet DEF vars, disk
  <1> QED BY <1>1, <1>2, <1>3, <1>4, <1>5, <1>6, <1>7, <1>8 DEF Next

LEMMA InvHonest == IInv => GetHonest /\ NoLeakedTemp
  <1> SUFFICES ASSUME IInv PROVE GetHonest
    BY DEF IInv
  <1>1. ASSUME NEW c \in Content
        PROVE  /\ Get(c) = "ErrNotFound" <=> ~Exists(c)
               /\ Get(c) = "ErrCorrupt" <=> Exists(c) /\ ~Intact(file[c], c)
    BY DEF Get
  <1> QED BY <1>1 DEF IInv, ObjectsWhole, AckedPresent, GetHonest

\* What a Put returned is found by Get until retention removes it, and never torn:
\* for any number of writers, cleaners and crashes.
THEOREM StoreHonest == Spec => []GetHonest
  <1>1. IInv => GetHonest
    BY InvHonest
  <1> QED BY InvInit, InvNext, <1>1, PTL DEF Spec

\* Only a crash or a failing os.Remove leaves a temporary file behind.
THEOREM StoreLeaksNothing == Spec => []NoLeakedTemp
  <1>1. IInv => NoLeakedTemp
    BY InvHonest
  <1> QED BY InvInit, InvNext, <1>1, PTL DEF Spec

-----------------------------------------------------------------------------
(* The store implements CCRContract.                                         *)

LEMMA CorruptMembers ==
    /\ Corrupt = {c \in Content : Exists(c) /\ ~Intact(file[c], c)}
    /\ Corrupt' = {c \in Content : file'[c] # NoFile /\ ~Intact(file'[c], c)}
  BY DEF Corrupt, Get, Exists, Intact

\* A step that touches no object leaves the contract's view of the store alone.
LEMMA ObjectsUntouched ==
    ASSUME \A c \in Content : file'[c] = file[c]
    PROVE  Held' = Held /\ Corrupt' = Corrupt
  BY CorruptMembers DEF Held, Exists, Intact

\* A step that changes one object to f.
LEMMA OneObject ==
    ASSUME NEW c \in Content, \A d \in Content \ {c} : file'[d] = file[d]
    PROVE  /\ file'[c] # NoFile => Held' = Held \cup {c}
           /\ file'[c] = NoFile => Held' = Held \ {c} /\ Corrupt' = Corrupt \ {c}
           /\ file'[c] # NoFile /\ Intact(file'[c], c) => Corrupt' = Corrupt \ {c}
           /\ file'[c] # NoFile /\ ~Intact(file'[c], c) => Corrupt' = Corrupt \cup {c}
  BY CorruptMembers DEF Held, Exists, Intact

LEMMA StepImplements ==
    ASSUME IInv, [Next]_vars
    PROVE  [Contract!Next]_<<Held, acked, Corrupt>>
  <1> DEFINE Goal == [Contract!Next]_<<Held, acked, Corrupt>>
  <1> USE DEF disk
  <1>t. /\ TypeOK /\ Ownership /\ ReadyToRename /\ ObjectsWhole
    BY DEF IInv
  <1>q. ASSUME \A c \in Content : file'[c] = file[c], acked' = acked PROVE Goal
    BY <1>q, ObjectsUntouched
  <1>a. ASSUME NEW c \in Content, Exists(c), file' = file, acked' = acked \cup {c} PROVE Goal
    <2>1. Contract!Acknowledge(c)
      BY <1>a, ObjectsUntouched DEF Contract!Acknowledge, Held
    <2> QED BY <2>1 DEF Contract!Next
  <1>1. ASSUME NEW p \in Putters, NEW c \in Content, PutCall(p, c) PROVE Goal
    BY <1>1, <1>q DEF PutCall
  <1>2. ASSUME NEW p \in Putters, PutStep(p) \/ PutCrash(p) PROVE Goal
    <2>p. put[p].arg \in Content /\ (put[p].pc \in HoldsTemp => put[p].temp \notin Content)
      BY <1>t, Disjoint DEF TypeOK, PutRec, Ownership
    <2>1. CASE PutStatHit(p)
      BY <2>1, <2>p, <1>a DEF PutStatHit
    <2>2. CASE PutStatMiss(p) \/ PutFail(p) \/ PutUnlinkFail(p) \/ PutCrash(p)
      BY <2>2, <1>q DEF PutStatMiss, PutFail, PutUnlinkFail, PutCrash
    <2>3. ASSUME NEW t \in Temp, PutCreateTemp(p, t) PROVE Goal
      <3>1. \A c \in Content : file'[c] = file[c]
        BY <2>3, <1>t, StoreAssumption DEF PutCreateTemp, TypeOK, Path
      <3> QED BY <3>1, <2>3, <1>q DEF PutCreateTemp
    <2>4. CASE PutWrite(p) \/ \E n \in 0 .. Size[put[p].arg] : PutShortWrite(p, n)
      <3>1. put[p].temp \notin Content
        BY <2>p, <2>4 DEF PutWrite, PutShortWrite, PutAt, HoldsTemp
      <3>2. \A c \in Content : file'[c] = file[c]
        BY <2>4, <3>1, <1>t DEF PutWrite, PutShortWrite, WriteTemp, TypeOK, Path
      <3> QED BY <3>2, <2>4, <1>q DEF PutWrite, PutShortWrite, WriteTemp
    <2>5. CASE PutRename(p)
      <3> DEFINE c == put[p].arg
      <3>1. put[p].temp \notin Content
        BY <2>p, <2>5 DEF PutRename, PutAt, HoldsTemp
      <3>2. file'[c] = file[put[p].temp] /\ \A d \in Content \ {c} : file'[d] = file[d]
        BY <2>5, <3>1, <2>p, <1>t DEF PutRename, TypeOK, Path
      <3>3. Exists(put[p].temp) /\ Intact(file[put[p].temp], c)
        BY <2>5, <1>t DEF PutRename, PutAt, ReadyToRename
      <3>4. Held' = Held \cup {c} /\ Corrupt' = Corrupt \ {c}
        BY <3>2, <3>3, <2>p, OneObject DEF Exists
      <3>5. Contract!Store(c)
        BY <3>4, <2>5 DEF Contract!Store, PutRename
      <3> QED BY <3>5, <2>p DEF Contract!Next
    <2>6. CASE PutRenameExists(p)
      BY <2>6, <2>p, <1>a DEF PutRenameExists
    <2>7. CASE PutUnlink(p)
      <3>1. put[p].temp \notin Content
        BY <2>p, <2>7 DEF PutUnlink, PutAt, HoldsTemp
      <3>2. \A c \in Content : file'[c] = file[c]
        BY <2>7, <3>1, <1>t DEF PutUnlink, TypeOK, Path
      <3> QED BY <3>2, <2>7, <1>q DEF PutUnlink
    <2> QED BY <1>2, <2>1, <2>2, <2>3, <2>4, <2>5, <2>6, <2>7 DEF PutStep
  <1>3. ASSUME NEW k \in Scanners, NEW op \in {"cleanup", "dryrun", "diagnostics"},
               NEW policy \in Policies, ScanCall(k, op, policy)
        PROVE  Goal
    BY <1>3, <1>q DEF ScanCall
  <1>4. ASSUME NEW k \in Scanners, ScanStep(k) PROVE Goal
    <2>1. ASSUME NEW p \in Path, CleanupRemove(k, p) PROVE Goal
      <3>1. \A q \in Path : file'[q] = IF q = p THEN NoFile ELSE file[q]
        BY <2>1, <1>t DEF CleanupRemove, TypeOK
      <3>2. CASE p \in Content
        <4>1. Held' = Held \ {p} /\ Corrupt' = Corrupt \ {p}
          BY <3>1, <3>2, OneObject DEF Path
        <4>2. Contract!Evict(p)
          BY <4>1, <2>1 DEF Contract!Evict, CleanupRemove
        <4> QED BY <3>2, <4>2 DEF Contract!Next
      <3>3. CASE p \notin Content
        <4>1. acked' = acked
          BY <2>1, <3>3, <1>t DEF CleanupRemove, TypeOK
        <4> QED BY <3>1, <3>3, <4>1, <1>q DEF Path
      <3> QED BY <3>2, <3>3
    <2>2. CASE ~ \E p \in Path : CleanupRemove(k, p)
      <3>1. UNCHANGED <<file, acked>>
        BY <1>4, <2>2 DEF ScanStep, WalkEntry, WalkVanished, WalkDone, WalkFail, Diagnostics,
              CleanupPlan, CleanupRemoveFail, CleanupDone
      <3> QED BY <3>1, <1>q
    <2> QED BY <2>1, <2>2
  <1>5. ASSUME NEW k \in Scanners, ScanCrash(k) PROVE Goal
    BY <1>5, <1>q DEF ScanCrash
  <1>6. ASSUME NEW c \in Content, Damage(c) PROVE Goal
    <2>1. /\ file'[c] = [file[c] EXCEPT !.bytes = 0]
          /\ \A d \in Content \ {c} : file'[d] = file[d]
          /\ file[c] \in FileRec
      BY <1>6, <1>t DEF Damage, TypeOK, Exists, Path
    <2>2. file'[c] \in FileRec /\ file'[c].bytes = 0
      BY <2>1 DEF FileRec
    <2>3. file'[c] # NoFile /\ ~Intact(file'[c], c)
      BY <2>2, <1>6, StoreAssumption DEF Damage, Intact
    <2>4. c \in Held /\ Held' = Held /\ Corrupt' = Corrupt \cup {c}
      BY <1>6, <2>1, <2>3, OneObject DEF Held, Damage
    <2>5. Contract!Damage(c)
      BY <1>6, <2>4 DEF Contract!Damage, Damage
    <2> QED BY <2>5 DEF Contract!Next
  <1>7. CASE Tick
    BY <1>7, <1>q DEF Tick
  <1>8. CASE UNCHANGED vars
    BY <1>8, <1>q DEF vars
  <1> QED BY <1>1, <1>2, <1>3, <1>4, <1>5, <1>6, <1>7, <1>8 DEF Next

LEMMA InitImplements == Init => Contract!Init
  <1> SUFFICES ASSUME Init PROVE Contract!Init
    OBVIOUS
  <1>1. \A c \in Content : ~Exists(c)
    BY DEF Init, Exists, Path
  <1>2. Held = {} /\ Corrupt = {} /\ acked = {}
    BY <1>1, CorruptMembers DEF Held, Init
  <1> QED BY <1>2 DEF Contract!Init

\* Every behaviour of the store is one of the contract, seen through Get.
THEOREM StoreImplementsContract == Spec => ImplementsContract
  <1>1. IInv /\ [Next]_vars => [Contract!Next]_<<Held, acked, Corrupt>>
    BY StepImplements
  <1> QED BY InitImplements, InvInit, InvNext, <1>1, PTL DEF Spec, ImplementsContract, Contract!Spec

-----------------------------------------------------------------------------
(* Markers.                                                                  *)

LEMMA MarkerOf ==
    ASSUME NEW c \in Content
    PROVE  /\ ValidAddress(AddressForContent(c))
           /\ ParseMarker(RenderMarker(AddressForContent(c))) = AddressForContent(c)
           /\ AddressForContent(c) # ErrInvalid
           /\ AddressForContent(c).hex.of = c /\ AddressForContent(c).hex.form = "lower"
  <1>1. Size[c] >= 0
    BY StoreAssumption
  <1>2. AddressForContent(c) # ErrInvalid
    BY DEF AddressForContent, ErrInvalid
  <1>3. ValidAddress(AddressForContent(c))
    BY <1>1, <1>2 DEF ValidAddress, AddressForContent
  <1>4. ParseMarker(RenderMarker(AddressForContent(c))) = AddressForContent(c)
    BY <1>3 DEF ParseMarker, RenderMarker
  <1> QED BY <1>2, <1>3, <1>4 DEF AddressForContent

LEMMA GetOwn ==
    ASSUME NEW c \in Content, NEW address, address = AddressForContent(c),
           ValidAddress(address), address.hex.of = c, address.hex.form = "lower"
    PROVE  GetAddress(address) = IF ~Exists(c) THEN "ErrNotFound"
                                 ELSE IF Intact(file[c], c) THEN "content" ELSE "ErrCorrupt"
  <1>1. CASE ~Exists(c)
    BY <1>1 DEF GetAddress
  <1>2. CASE Exists(c)
    BY <1>2 DEF GetAddress
  <1> QED BY <1>1, <1>2

LEMMA InvMarkers == IInv => MarkersHonest
  <1> SUFFICES ASSUME IInv PROVE MarkersHonest
    OBVIOUS
  <1>1. ASSUME NEW c \in Content
        PROVE  /\ Retrieve(RenderMarker(AddressForContent(c))) =
                    IF ~Exists(c) THEN "ErrNotFound"
                    ELSE IF Intact(file[c], c) THEN "content" ELSE "ErrCorrupt"
               /\ Get(c) = IF ~Exists(c) THEN "ErrNotFound"
                           ELSE IF Intact(file[c], c) THEN "content" ELSE "ErrCorrupt"
    <2>1. Retrieve(RenderMarker(AddressForContent(c))) = GetAddress(AddressForContent(c))
      BY MarkerOf DEF Retrieve
    <2>2. /\ AddressForContent(c).hex.of = c /\ AddressForContent(c).hex.form = "lower"
          /\ ValidAddress(AddressForContent(c))
      BY MarkerOf
    <2>3. GetAddress(AddressForContent(c)) =
            IF ~Exists(c) THEN "ErrNotFound"
            ELSE IF Intact(file[c], c) THEN "content" ELSE "ErrCorrupt"
      BY <2>2, GetOwn
    <2> QED BY <2>1, <2>3 DEF Get
  <1>2. ASSUME NEW c \in acked \ damaged
        PROVE  Retrieve(RenderMarker(AddressForContent(c))) = "content"
    <2>1. c \in Content /\ Exists(c) /\ Intact(file[c], c)
      BY DEF IInv, TypeOK, AckedPresent, ObjectsWhole
    <2> QED BY <1>1, <2>1
  <1>3. ASSUME NEW text \in Text, Retrieve(text) = "content"
        PROVE  /\ RenderMarker(ParseMarker(text)) = RenderMarker(AddressForContent(text.address.hex.of))
               /\ Get(text.address.hex.of) = "content"
    <2> DEFINE c == text.address.hex.of
    <2>1. c \in Content
      BY DEF Text, Address, Hex
    <2>2. ParseMarker(text) # ErrInvalid /\ GetAddress(ParseMarker(text)) = "content"
      BY <1>3 DEF Retrieve
    <2>3. ParseMarker(text) = text.address
      BY <2>2 DEF ParseMarker
    <2>4. text.address = AddressForContent(c) /\ Exists(c) /\ Intact(file[c], c)
      BY <2>2, <2>3 DEF GetAddress
    <2> QED BY <1>1, <2>1, <2>3, <2>4
  <1>4. ASSUME NEW text \in Text, text = RenderMarker(AddressForContent(text.address.hex.of)),
               Retrieve(text) = "ErrCorrupt"
        PROVE  text.address.hex.of \in damaged
    <2> DEFINE c == text.address.hex.of
    <2>1. c \in Content
      BY DEF Text, Address, Hex
    <2>2. Exists(c) /\ ~Intact(file[c], c)
      BY <1>1, <1>4, <2>1
    <2> QED BY <2>1, <2>2 DEF IInv, ObjectsWhole
  <1> QED BY <1>2, <1>3, <1>4 DEF MarkersHonest

\* The marker of an original leads back to it until retention or damage took it away,
\* and no text leads anywhere else: for every text, size and file system.
THEOREM MarkersLeadBack == Spec => []MarkersHonest
  <1>1. IInv => MarkersHonest
    BY InvMarkers
  <1> QED BY InvInit, InvNext, <1>1, PTL DEF Spec

-----------------------------------------------------------------------------
(* Cleanup and Diagnostics.                                                  *)

Infos == [Path -> [size : Nat, mtime : Nat]]

\* What k noted of the files that nobody touched since is still so.
Noted(k, infos) == \A p \in stable[k] \cap scan[k].seen : infos[p] = Info(p)

\* Nothing that was there all along is overlooked by the walk.
Walked(k) ==
    /\ IsFiniteSet(scan[k].seen)
    /\ scan[k].pc = "walk" => ~scan[k].vanished /\ stable[k] \subseteq scan[k].todo \cup scan[k].seen
    /\ scan[k].pc \in {"plan", "apply", "done"} /\ ~scan[k].vanished => stable[k] \subseteq scan[k].seen
    /\ scan[k].pc \in {"walk", "plan"} => Noted(k, scan[k].infos)

\* The candidates follow from what was noted, and what is left of them has failed.
Chosen(k, infos) ==
    /\ Noted(k, infos)
    /\ scan[k].cands \in CleanupCandidates(infos, scan[k].seen, scan[k].policy, scan[k].now)
    /\ stable[k] \cap scan[k].cands \subseteq scan[k].todo \cup scan[k].failed

\* The slice that the walk built is dropped at the end, so "done" only knows that there was one.
Applied(k) ==
    /\ scan[k].pc \in {"apply", "done"} /\ scan[k].op = "cleanup" => \E infos \in Infos : Chosen(k, infos)
    /\ scan[k].pc = "done" => scan[k].todo = {}

\* The inductive invariant of a scan.
ScanInv(k) == Walked(k) /\ Applied(k)

ScansInv == TypeOK /\ \A k \in Scanners : ScanInv(k)

\* A step leaves alone what stays stable.
Left(k) == stable'[k] \subseteq stable[k] /\ \A p \in stable'[k] : file'[p] = file[p]

\* A scan that is not the one to move keeps its invariant.
LEMMA Bystander ==
    ASSUME NEW k \in Scanners, ScanInv(k), scan'[k] = scan[k], Left(k)
    PROVE  ScanInv(k)'
  <1>1. ASSUME NEW infos, Noted(k, infos) PROVE Noted(k, infos)'
    BY <1>1 DEF Noted, Left, Info
  <1>2. Walked(k)'
    <2>1. scan[k].pc \in {"walk", "plan"} => Noted(k, scan[k].infos)'
      BY <1>1 DEF ScanInv, Walked
    <2> QED BY <2>1 DEF ScanInv, Walked, Left
  <1>3. Applied(k)'
    <2>1. ASSUME NEW infos \in Infos, Chosen(k, infos) PROVE Chosen(k, infos)'
      BY <1>1, <2>1 DEF Chosen, Left
    <2> QED BY <2>1 DEF ScanInv, Applied
  <1> QED BY <1>2, <1>3 DEF ScanInv

\* What each step that changes the directory touches.
LEMMA StepsLeave ==
    ASSUME TypeOK, [Next]_vars, NEW k \in Scanners, scan'[k] = scan[k]
    PROVE  Left(k)
  <1> USE DEF TypeOK
  <1>1. ASSUME NEW P, Touch(P), \A q \in Path \ P : file'[q] = file[q]
        PROVE  Left(k)
    BY <1>1 DEF Touch, Left
  <1>2. ASSUME UNCHANGED <<file, stable>>
        PROVE  Left(k)
    BY <1>2 DEF Left
  <1>3. ASSUME NEW p \in Putters, PutStep(p) \/ PutCrash(p)
        PROVE  Left(k)
    <2>1. CASE PutStatHit(p) \/ PutStatMiss(p) \/ PutRenameExists(p) \/ PutFail(p) \/ PutUnlinkFail(p) \/ PutCrash(p)
      BY <1>2, <2>1 DEF PutStatHit, PutStatMiss, PutRenameExists, PutFail, PutUnlinkFail, PutCrash, disk
    <2>2. ASSUME NEW t \in Temp, PutCreateTemp(p, t) PROVE Left(k)
      <3>1. Touch({t}) /\ \A q \in Path \ {t} : file'[q] = file[q]
        BY <2>2 DEF PutCreateTemp
      <3> QED BY <1>1, <3>1
    <2>3. ASSUME NEW n, WriteTemp(p, n) PROVE Left(k)
      <3>1. Touch({put[p].temp}) /\ \A q \in Path \ {put[p].temp} : file'[q] = file[q]
        BY <2>3 DEF WriteTemp
      <3> QED BY <1>1, <3>1
    <2>4. CASE PutRename(p)
      <3>1. /\ Touch({put[p].arg, put[p].temp})
            /\ \A q \in Path \ {put[p].arg, put[p].temp} : file'[q] = file[q]
        BY <2>4 DEF PutRename
      <3> QED BY <1>1, <3>1
    <2>5. CASE PutUnlink(p)
      <3>1. Touch({put[p].temp}) /\ \A q \in Path \ {put[p].temp} : file'[q] = file[q]
        BY <2>5 DEF PutUnlink
      <3> QED BY <1>1, <3>1
    <2> QED BY <1>3, <2>1, <2>2, <2>3, <2>4, <2>5 DEF PutStep, PutWrite, PutShortWrite
  <1>4. ASSUME NEW j \in Scanners, ScanStep(j) \/ ScanCrash(j)
        PROVE  Left(k)
    <2>1. ASSUME NEW p \in Path, CleanupRemove(j, p) PROVE Left(k)
      <3>1. Touch({p}) /\ \A q \in Path \ {p} : file'[q] = file[q]
        BY <2>1 DEF CleanupRemove
      <3> QED BY <1>1, <3>1
    <2>2. CASE ~\E p \in Path : CleanupRemove(j, p)
      <3>1. UNCHANGED disk
        BY <1>4, <2>2 DEF ScanStep, ScanCrash, WalkEntry, WalkVanished, WalkDone, WalkFail,
              Diagnostics, CleanupPlan, CleanupRemoveFail, CleanupDone
      <3> QED BY <1>2, <3>1 DEF disk
    <2> QED BY <2>1, <2>2
  <1>5. ASSUME NEW j \in Scanners, NEW op \in {"cleanup", "dryrun", "diagnostics"}, NEW policy \in Policies,
               ScanCall(j, op, policy)
        PROVE  Left(k)
    <2>1. j # k
      <3>1. scan[j].pc # "walk"
        BY <1>5 DEF ScanCall, ScanAt
      <3>2. scan'[j].pc = "walk"
        BY <1>5 DEF ScanCall, Update, IdleScan
      <3> QED BY <3>1, <3>2
    <2>2. stable'[k] = stable[k] /\ file' = file
      BY <1>5, <2>1 DEF ScanCall
    <2> QED BY <2>2 DEF Left
  <1>6. ASSUME NEW c \in Content, Damage(c) PROVE Left(k)
    <2>1. Touch({c}) /\ \A q \in Path \ {c} : file'[q] = file[q]
      BY <1>6 DEF Damage
    <2> QED BY <1>1, <2>1
  <1>7. ASSUME NEW p \in Putters, NEW c \in Content, PutCall(p, c) PROVE Left(k)
    BY <1>2, <1>7 DEF PutCall, disk
  <1>8. CASE Tick \/ UNCHANGED vars
    BY <1>2, <1>8 DEF Tick, vars, disk
  <1> QED BY <1>3, <1>4, <1>5, <1>6, <1>7, <1>8 DEF Next

\* One lemma for each kind of step of the scan itself.
LEMMA ScanCallInv ==
    ASSUME TypeOK, TypeOK', NEW k \in Scanners, NEW op, NEW policy, ScanCall(k, op, policy)
    PROVE  ScanInv(k)'
  <1>1. /\ scan'[k].pc = "walk" /\ scan'[k].seen = {} /\ scan'[k].vanished = FALSE
        /\ scan'[k].todo = {p \in Path : Exists(p)}
        /\ stable'[k] = {p \in Path : Exists(p)}
    BY DEF ScanCall, Update, IdleScan, TypeOK
  <1>2. IsFiniteSet({})
    BY FS_EmptySet
  <1> QED BY <1>1, <1>2 DEF ScanInv, Walked, Applied, Noted

LEMMA WalkEntryInv ==
    ASSUME TypeOK, TypeOK', NEW k \in Scanners, ScanInv(k), NEW p \in Path, WalkEntry(k, p)
    PROVE  ScanInv(k)'
  <1>1. /\ scan[k].pc = "walk" /\ scan'[k].pc = "walk" /\ scan'[k].vanished = scan[k].vanished
        /\ scan'[k].todo = scan[k].todo \ {p} /\ scan'[k].seen = scan[k].seen \cup {p}
        /\ stable' = stable /\ file' = file
    BY DEF WalkEntry, ScanAt, Update, TypeOK, ScanRec, disk
  <1>2. scan'[k].infos = [scan[k].infos EXCEPT ![p] = Info(p)] /\ scan[k].infos \in Infos
    BY DEF WalkEntry, ScanAt, Update, TypeOK, ScanRec, Infos
  <1>3. scan'[k].infos[p] = Info(p) /\ \A q \in Path \ {p} : scan'[k].infos[q] = scan[k].infos[q]
    BY <1>2 DEF Infos
  <1>4. IsFiniteSet(scan'[k].seen)
    BY <1>1, FS_AddElement DEF ScanInv, Walked
  <1>5. stable[k] \subseteq Path
    BY DEF TypeOK
  <1>6. Noted(k, scan[k].infos)'
    BY <1>1, <1>3, <1>5 DEF ScanInv, Walked, Noted, Info
  <1>7. Walked(k)'
    BY <1>1, <1>4, <1>6 DEF ScanInv, Walked
  <1> QED BY <1>1, <1>7 DEF ScanInv, Applied

LEMMA WalkEndInv ==
    ASSUME TypeOK, TypeOK', NEW k \in Scanners, ScanInv(k),
           (\E p \in Path : WalkVanished(k, p)) \/ WalkDone(k)
    PROVE  ScanInv(k)'
  <1>1. /\ scan[k].pc = "walk" /\ scan'[k].pc = "plan" /\ stable' = stable /\ file' = file
    <2>1. CASE WalkDone(k)
      BY <2>1 DEF WalkDone, ScanAt, Update, TypeOK, ScanRec, disk
    <2>2. ASSUME NEW p \in Path, WalkVanished(k, p)
          PROVE  scan[k].pc = "walk" /\ scan'[k].pc = "plan" /\ stable' = stable /\ file' = file
      BY <2>2 DEF WalkVanished, ScanAt, Update, TypeOK, ScanRec, disk
    <2> QED BY <2>1, <2>2
  <1>2. CASE WalkDone(k)
    <2>1. /\ scan'[k].seen = scan[k].seen /\ scan'[k].infos = scan[k].infos
          /\ scan[k].todo = {} /\ scan'[k].vanished = scan[k].vanished
      BY <1>2 DEF WalkDone, Update, TypeOK, ScanRec
    <2>2. Noted(k, scan[k].infos)'
      BY <1>1, <2>1 DEF ScanInv, Walked, Noted, Info
    <2> QED BY <1>1, <2>1, <2>2 DEF ScanInv, Walked, Applied
  <1>3. CASE \E p \in Path : WalkVanished(k, p)
    <2>1. scan'[k].seen = {} /\ scan'[k].vanished = TRUE
      BY <1>3 DEF WalkVanished, Update, TypeOK, ScanRec
    <2>2. IsFiniteSet({})
      BY FS_EmptySet
    <2> QED BY <1>1, <2>1, <2>2 DEF ScanInv, Walked, Applied, Noted
  <1> QED BY <1>2, <1>3

LEMMA AbortInv ==
    ASSUME TypeOK, TypeOK', NEW k \in Scanners, ScanInv(k), WalkFail(k) \/ ScanCrash(k)
    PROVE  ScanInv(k)'
  <1>1. scan'[k].pc \in {"error", "idle"} /\ scan'[k].seen = {}
    <2>1. CASE WalkFail(k)
      BY <2>1 DEF WalkFail, Update, TypeOK, IdleScan
    <2>2. CASE ScanCrash(k)
      BY <2>2 DEF ScanCrash, Update, TypeOK, IdleScan
    <2> QED BY <2>1, <2>2
  <1>2. IsFiniteSet({})
    BY FS_EmptySet
  <1> QED BY <1>1, <1>2 DEF ScanInv, Walked, Applied

LEMMA DiagnosticsInv ==
    ASSUME TypeOK, TypeOK', NEW k \in Scanners, ScanInv(k), Diagnostics(k)
    PROVE  ScanInv(k)'
  <1>1. /\ scan[k].pc = "plan" /\ scan'[k].pc = "done" /\ stable' = stable
        /\ scan'[k].seen = scan[k].seen /\ scan'[k].vanished = scan[k].vanished
        /\ scan'[k].op = "diagnostics" /\ scan'[k].todo = {}
    BY DEF Diagnostics, ScanAt, Finish, Update, TypeOK, ScanRec, disk
  <1> QED BY <1>1 DEF ScanInv, Walked, Applied

LEMMA CleanupPlanInv ==
    ASSUME TypeOK, TypeOK', NEW k \in Scanners, ScanInv(k), CleanupPlan(k)
    PROVE  ScanInv(k)'
  <1>1. PICK R \in CleanupCandidates(scan[k].infos, scan[k].seen, scan[k].policy, clock) :
          Update(k, [scan[k] EXCEPT !.pc = "apply", !.now = clock, !.cands = R,
                                    !.todo = IF scan[k].op = "cleanup" THEN R ELSE {}])
    BY DEF CleanupPlan
  <1>2. scan[k].pc = "plan" /\ stable' = stable /\ file' = file
    BY DEF CleanupPlan, ScanAt, disk
  <1>3. /\ scan'[k].pc = "apply" /\ scan'[k].op = scan[k].op /\ scan'[k].seen = scan[k].seen
        /\ scan'[k].policy = scan[k].policy /\ scan'[k].vanished = scan[k].vanished
        /\ scan'[k].now = clock /\ scan'[k].cands = R
        /\ scan[k].op = "cleanup" => scan'[k].todo = R
    BY <1>1 DEF Update, TypeOK, ScanRec
  <1>4. Walked(k)'
    BY <1>2, <1>3 DEF ScanInv, Walked
  <1>5. PICK infos \in Infos : infos = scan[k].infos
    BY DEF TypeOK, ScanRec, Infos
  <1>6. Noted(k, infos)'
    BY <1>2, <1>3, <1>5 DEF ScanInv, Walked, Noted, Info
  <1>7. scan[k].op = "cleanup" => Chosen(k, infos)'
    BY <1>2, <1>3, <1>5, <1>6 DEF Chosen
  <1> QED BY <1>3, <1>4, <1>7 DEF ScanInv, Applied

LEMMA CleanupApplyInv ==
    ASSUME TypeOK, TypeOK', NEW k \in Scanners, ScanInv(k),
           \/ \E p \in Path : CleanupRemove(k, p)
           \/ \E p \in Path : CleanupRemoveFail(k, p)
           \/ CleanupDone(k)
    PROVE  ScanInv(k)'
  <1> DEFINE Steps ==
        /\ scan[k].pc = "apply" /\ scan'[k].pc \in {"apply", "done"}
        /\ scan'[k].op = scan[k].op /\ scan'[k].seen = scan[k].seen
        /\ scan'[k].policy = scan[k].policy /\ scan'[k].vanished = scan[k].vanished
        /\ scan'[k].now = scan[k].now /\ scan'[k].cands = scan[k].cands
        /\ scan'[k].pc = "done" => scan'[k].todo = {}
        /\ Left(k)
        /\ stable'[k] \cap scan[k].todo \subseteq scan'[k].todo \cup scan'[k].failed
        /\ scan[k].failed \subseteq scan'[k].failed
  <1>1. ASSUME NEW p \in Path, CleanupRemove(k, p) PROVE Steps
    <2>1. /\ scan[k].pc = "apply" /\ scan'[k] = [scan[k] EXCEPT !.todo = @ \ {p}] /\ scan[k] \in ScanRec
          /\ Touch({p}) /\ \A q \in Path \ {p} : file'[q] = file[q]
      BY <1>1 DEF CleanupRemove, ScanAt, Update, TypeOK
    <2>2. /\ scan'[k].pc = "apply"
          /\ scan'[k].op = scan[k].op /\ scan'[k].seen = scan[k].seen
          /\ scan'[k].policy = scan[k].policy /\ scan'[k].vanished = scan[k].vanished
          /\ scan'[k].now = scan[k].now /\ scan'[k].cands = scan[k].cands
          /\ scan'[k].todo = scan[k].todo \ {p} /\ scan'[k].failed = scan[k].failed
      BY <2>1 DEF ScanRec
    <2>3. stable'[k] = stable[k] \ {p} /\ stable[k] \subseteq Path
      BY <2>1 DEF Touch, TypeOK
    <2>4. Left(k)
      BY <2>1, <2>3 DEF Left
    <2> QED BY <2>1, <2>2, <2>3, <2>4
  <1>2. ASSUME NEW p \in Path, CleanupRemoveFail(k, p) PROVE Steps
    <2>1. /\ scan[k].pc = "apply" /\ scan[k] \in ScanRec
          /\ scan'[k] = [scan[k] EXCEPT !.todo = @ \ {p}, !.failed = @ \cup {p}]
          /\ stable' = stable /\ file' = file
      BY <1>2 DEF CleanupRemoveFail, ScanAt, Update, TypeOK, disk
    <2>2. /\ scan'[k].pc = "apply"
          /\ scan'[k].op = scan[k].op /\ scan'[k].seen = scan[k].seen
          /\ scan'[k].policy = scan[k].policy /\ scan'[k].vanished = scan[k].vanished
          /\ scan'[k].now = scan[k].now /\ scan'[k].cands = scan[k].cands
          /\ scan'[k].todo = scan[k].todo \ {p} /\ scan'[k].failed = scan[k].failed \cup {p}
      BY <2>1 DEF ScanRec
    <2>3. Left(k)
      BY <2>1 DEF Left
    <2> QED BY <2>1, <2>2, <2>3
  <1>3. ASSUME CleanupDone(k) PROVE Steps
    <2>1. /\ scan[k].pc = "apply" /\ scan[k] \in ScanRec /\ scan[k].todo = {}
          /\ scan'[k] = [scan[k] EXCEPT !.pc = "done", !.todo = {}, !.infos = NoInfos]
          /\ stable' = stable /\ file' = file
      BY <1>3 DEF CleanupDone, Finish, ScanAt, Update, TypeOK, disk
    <2>2. /\ scan'[k].pc = "done"
          /\ scan'[k].op = scan[k].op /\ scan'[k].seen = scan[k].seen
          /\ scan'[k].policy = scan[k].policy /\ scan'[k].vanished = scan[k].vanished
          /\ scan'[k].now = scan[k].now /\ scan'[k].cands = scan[k].cands
          /\ scan'[k].todo = {} /\ scan'[k].failed = scan[k].failed
      BY <2>1 DEF ScanRec
    <2>3. Left(k)
      BY <2>1 DEF Left
    <2> QED BY <2>1, <2>2, <2>3
  <1>4. Steps
    BY <1>1, <1>2, <1>3
  <1>5. Walked(k)'
    BY <1>4 DEF ScanInv, Walked, Left
  <1>6. ASSUME NEW infos \in Infos, Chosen(k, infos) PROVE Chosen(k, infos)'
    <2>1. Noted(k, infos)'
      BY <1>4, <1>6 DEF Chosen, Noted, Left, Info
    <2>2. stable'[k] \cap scan'[k].cands \subseteq scan'[k].todo \cup scan'[k].failed
      BY <1>4, <1>6 DEF Chosen, Left
    <2> QED BY <1>4, <1>6, <2>1, <2>2 DEF Chosen
  <1> QED BY <1>4, <1>5, <1>6 DEF ScanInv, Applied

LEMMA ScansInit == Init => ScansInv
  <1> SUFFICES ASSUME Init, NEW k \in Scanners PROVE ScanInv(k)
    BY TypeInit DEF ScansInv
  <1>1. scan[k].pc = "idle" /\ scan[k].seen = {}
    BY DEF Init, IdleScan
  <1>2. IsFiniteSet({})
    BY FS_EmptySet
  <1> QED BY <1>1, <1>2 DEF ScanInv, Walked, Applied

LEMMA ScansNext == ScansInv /\ [Next]_vars => ScansInv'
  <1> SUFFICES ASSUME ScansInv, [Next]_vars PROVE ScansInv'
    OBVIOUS
  <1>1. TypeOK /\ TypeOK'
    BY TypeNext DEF ScansInv
  <1>2. ASSUME NEW k \in Scanners PROVE ScanInv(k)'
    <2>0. ScanInv(k)
      BY DEF ScansInv
    <2>1. CASE scan'[k] = scan[k]
      BY <1>1, <2>0, <2>1, StepsLeave, Bystander
    <2>2. CASE scan'[k] # scan[k]
      <3>1. ASSUME NEW j \in Scanners, NEW op \in {"cleanup", "dryrun", "diagnostics"}, NEW policy \in Policies,
                   ScanCall(j, op, policy)
            PROVE  j = k
        BY <1>1, <2>2, <3>1 DEF ScanCall, Update, TypeOK
      <3>2. ASSUME NEW j \in Scanners, ScanStep(j) \/ ScanCrash(j)
            PROVE  j = k
        <4>1. \E call : Update(j, call)
          BY <3>2 DEF ScanStep, ScanCrash, WalkEntry, WalkVanished, WalkDone, WalkFail, Finish,
             Diagnostics, CleanupPlan, CleanupRemove, CleanupRemoveFail, CleanupDone
        <4> QED BY <1>1, <2>2, <4>1 DEF Update, TypeOK
      <3>3. \/ \E op \in {"cleanup", "dryrun", "diagnostics"}, policy \in Policies : ScanCall(k, op, policy)
            \/ ScanStep(k) \/ ScanCrash(k)
        <4>1. ASSUME scan' = scan PROVE FALSE
          BY <2>2, <4>1
        <4>2. ASSUME NEW p \in Putters, PutStep(p) \/ PutCrash(p) PROVE scan' = scan
          BY <4>2 DEF PutStep, PutCrash, PutStatHit, PutStatMiss, PutCreateTemp, PutWrite, PutShortWrite,
             PutRename, PutRenameExists, PutFail, PutUnlink, PutUnlinkFail, PutAt
        <4>3. ASSUME NEW p \in Putters, NEW c \in Content, PutCall(p, c) PROVE scan' = scan
          BY <4>3 DEF PutCall, PutAt
        <4>4. ASSUME NEW c \in Content, Damage(c) PROVE scan' = scan
          BY <4>4 DEF Damage
        <4>5. ASSUME Tick \/ UNCHANGED vars PROVE scan' = scan
          BY <4>5 DEF Tick, vars
        <4> QED BY <3>1, <3>2, <4>1, <4>2, <4>3, <4>4, <4>5 DEF Next
      <3>4. ASSUME NEW op \in {"cleanup", "dryrun", "diagnostics"}, NEW policy \in Policies, ScanCall(k, op, policy)
            PROVE  ScanInv(k)'
        BY <1>1, <3>4, ScanCallInv
      <3>5. CASE ScanCrash(k) \/ WalkFail(k)
        BY <1>1, <2>0, <3>5, AbortInv
      <3>6. ASSUME NEW p \in Path, WalkEntry(k, p) PROVE ScanInv(k)'
        BY <1>1, <2>0, <3>6, WalkEntryInv
      <3>7. CASE (\E p \in Path : WalkVanished(k, p)) \/ WalkDone(k)
        BY <1>1, <2>0, <3>7, WalkEndInv
      <3>8. CASE Diagnostics(k)
        BY <1>1, <2>0, <3>8, DiagnosticsInv
      <3>9. CASE CleanupPlan(k)
        BY <1>1, <2>0, <3>9, CleanupPlanInv
      <3>10. CASE \/ \E p \in Path : CleanupRemove(k, p)
                  \/ \E p \in Path : CleanupRemoveFail(k, p)
                  \/ CleanupDone(k)
        BY <1>1, <2>0, <3>10, CleanupApplyInv
      <3> QED BY <3>3, <3>4, <3>5, <3>6, <3>7, <3>8, <3>9, <3>10 DEF ScanStep
    <2> QED BY <2>1, <2>2
  <1> QED BY <1>1, <1>2 DEF ScansInv

\* The bytes of a finite set of files are a sum.
LEMMA BytesSum ==
    ASSUME NEW S, IsFiniteSet(S), NEW infos, NEW size, \A p \in S : size[p] = infos[p].size
    PROVE  \E F : IsSum(F, S, size) /\ Bytes(infos, S) = F[S]
  <1> DEFINE Turn(F) == [s \in SUBSET S |->
                           IF s = {} THEN 0
                           ELSE infos[CHOOSE x \in s : TRUE].size + F[s \ {CHOOSE x \in s : TRUE}]]
  <1>1. \A F : IsSum(F, S, size) <=> F = Turn(F)
    <2> SUFFICES ASSUME NEW F PROVE [s \in SUBSET S |-> SumStep(F, size, s)] = Turn(F)
      BY DEF IsSum
    <2>1. ASSUME NEW s \in SUBSET S PROVE SumStep(F, size, s) = Turn(F)[s]
      <3>1. s # {} => (CHOOSE x \in s : TRUE) \in S
        OBVIOUS
      <3> QED BY <3>1 DEF SumStep
    <2> QED BY <2>1
  <1>3. Bytes(infos, S) = (CHOOSE F : F = Turn(F))[S]
    BY DEF Bytes, MapThenSumSet, MapThenFoldSet
  <1> HIDE DEF Turn
  <1>2. \E F : F = Turn(F)
    <2>1. PICK F : IsSum(F, S, size)
      BY SumExists, Zenon
    <2>2. F = Turn(F)
      BY <1>1, <2>1, Zenon
    <2> QED BY <2>2, Zenon
  <1>4. (CHOOSE F : F = Turn(F)) = Turn(CHOOSE F : F = Turn(F))
    BY <1>2, Zenon
  <1> QED BY <1>1, <1>3, <1>4, Zenon

\* Fewer files of the same sizes have no more bytes.
LEMMA BytesFewer ==
    ASSUME NEW S, IsFiniteSet(S), NEW infos, \A p \in S : infos[p].size \in Nat,
           NEW T \in SUBSET S, NEW info, \A p \in T : info[p].size = infos[p].size
    PROVE  Bytes(info, T) \in Nat /\ Bytes(infos, S) \in Nat /\ Bytes(info, T) <= Bytes(infos, S)
  <1> DEFINE size == [p \in S |-> infos[p].size]
             part == [p \in T |-> info[p].size]
  <1>1. /\ \A p \in S : size[p] = infos[p].size /\ size[p] \in Nat
        /\ \A p \in T : part[p] = info[p].size /\ part[p] = size[p]
    OBVIOUS
  <1> HIDE DEF size, part
  <1>2. IsFiniteSet(T)
    BY FS_Subset
  <1>3. PICK F : IsSum(F, S, size) /\ Bytes(infos, S) = F[S]
    BY <1>1, BytesSum
  <1>4. PICK G : IsSum(G, T, part) /\ Bytes(info, T) = G[T]
    BY <1>1, <1>2, BytesSum
  <1>5. G[T] <= F[S]
    BY <1>1, <1>3, <1>4, SumFewer
  <1>6. F[S] \in Nat
    BY <1>1, <1>3, SumNat
  <1>7. G[T] \in Nat
    BY <1>1, <1>2, <1>4, SumNat
  <1> QED BY <1>3, <1>4, <1>5, <1>6, <1>7

\* What a finished Cleanup left of what stood there all along is within its policy.
LEMMA ChosenObeyed ==
    ASSUME TypeOK, NEW k \in Scanners, Walked(k), NEW infos \in Infos, Chosen(k, infos),
           scan[k].pc = "done", scan[k].todo = {}, ~scan[k].vanished
    PROVE  Obeyed(k)
  <1> DEFINE seen == scan[k].seen
             pol == scan[k].policy
             left == stable[k] \ scan[k].failed
             info == [p \in left |-> Info(p)]
             old == {p \in seen : Expired(infos[p], pol, scan[k].now)}
  <1>1. /\ seen \subseteq Path /\ IsFiniteSet(seen) /\ stable[k] \subseteq seen /\ pol \in [maxAge : Nat, maxBytes : Nat]
    BY PolicyAssumption DEF Walked, TypeOK, ScanRec
  <1>2. PICK Q \in OverLimit(infos, seen \ old, pol) : scan[k].cands = old \cup Q
    BY DEF Chosen, CleanupCandidates
  <1>3. left \subseteq seen /\ left \cap scan[k].cands = {}
    BY <1>1 DEF Chosen
  <1>4. \A p \in left : info[p] = infos[p]
    BY <1>1 DEF Chosen, Noted
  <1>5. ASSUME NEW p \in left PROVE ~Expired(info[p], pol, scan[k].now)
    <2>1. p \notin old /\ p \in seen
      BY <1>2, <1>3
    <2> QED BY <1>4, <2>1
  <1>6. ASSUME pol.maxBytes > 0 PROVE Bytes(info, left) <= pol.maxBytes
    <2> DEFINE rest == (seen \ old) \ Q
    <2>1. Bytes(infos, rest) <= pol.maxBytes
      BY <1>1, <1>2, <1>6 DEF OverLimit
    <2>2. left \in SUBSET rest /\ rest \in SUBSET seen
      BY <1>2, <1>3
    <2>3. IsFiniteSet(rest)
      BY <1>1, <2>2, FS_Subset
    <2>4. \A p \in rest : infos[p].size \in Nat
      BY <1>1, <2>2 DEF Infos
    <2>5. \A p \in left : info[p].size = infos[p].size
      BY <1>4
    <2> HIDE DEF rest, left, info
    <2>6. /\ Bytes(info, left) \in Nat /\ Bytes(infos, rest) \in Nat
          /\ Bytes(info, left) <= Bytes(infos, rest)
      BY <2>2, <2>3, <2>4, <2>5, BytesFewer
    <2> QED BY <1>1, <2>1, <2>6
  <1> QED BY <1>5, <1>6 DEF Obeyed

LEMMA ScansExact == ScansInv => RetentionExact
  <1> SUFFICES ASSUME ScansInv, NEW k \in Scanners
               PROVE  /\ scan[k].pc \in {"plan", "apply", "done"} /\ ~scan[k].vanished =>
                           stable[k] \subseteq scan[k].seen
                      /\ scan[k].pc = "done" /\ scan[k].op = "cleanup" /\ ~scan[k].vanished => Obeyed(k)
    BY DEF RetentionExact, WalkComplete, PolicyObeyed
  <1>1. TypeOK /\ Walked(k) /\ Applied(k)
    BY DEF ScansInv, ScanInv
  <1>2. ASSUME scan[k].pc = "done", scan[k].op = "cleanup", ~scan[k].vanished
        PROVE  Obeyed(k)
    <2>1. PICK infos \in Infos : Chosen(k, infos)
      BY <1>1, <1>2 DEF Applied
    <2>2. scan[k].todo = {}
      BY <1>1, <1>2 DEF Applied
    <2> QED BY <1>1, <1>2, <2>1, <2>2, ChosenObeyed
  <1> QED BY <1>1, <1>2 DEF Walked

\* A Cleanup overlooks no file that stood there all along, and what it leaves of those is
\* within its policy: for any number of writers and cleaners, any files and any policy.
THEOREM RetentionIsExact == Spec => []RetentionExact
  <1>1. ScansInv => RetentionExact
    BY ScansExact
  <1> QED BY ScansInit, ScansNext, <1>1, PTL DEF Spec
=============================================================================
