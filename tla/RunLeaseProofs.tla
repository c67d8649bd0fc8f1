---------------------------- MODULE RunLeaseProofs ----------------------------
(***************************************************************************)
(* TLAPS proofs about RunLease, for any number of calls and of historical  *)
(* qualifiers.  The argument: as long as the run directory has not been    *)
(* renamed, each lock name has been bound to one file only, so every call  *)
(* that works there works on the same two files, and flock on them lets one*)
(* call through.  A call that was overtaken by the rename may lock files of*)
(* its own, but it is turned away when it records its lease, because its   *)
(* directory is no longer at the path.                                     *)
(***************************************************************************)
EXTENDS MCRunLease, TLAPS

-------------------------------------------------------------------------------
(* Type correctness.                                                       *)

LEMMA GotoType ==
  ASSUME TypeOK, NEW p \in Holder, NEW label \in Control, Goto(p, label)
  PROVE  pc' \in [Holder -> Control]
BY DEF TypeOK, Goto

LEMMA BindType ==
  ASSUME TypeOK, NEW p \in Holder, NEW n \in Name, NEW f \in Nat,
         fd' = [fd EXCEPT ![p][n] = f]
  PROVE  fd' \in [Holder -> [Name -> Nat]]
BY DEF TypeOK

LEMMA OpenType ==
  ASSUME TypeOK, NEW p \in Holder, NEW n \in Name,
         OpenExisting(p, n) \/ CreateExclusive(p, n)
  PROVE  /\ dir' \in {"visible", "hidden", "gone"}
         /\ inode' \in [Name -> Nat]
         /\ used' \in [Name -> Nat]
         /\ meta' \in Proc \cup {None}
         /\ listed' \subseteq Name \cup {"owner"}
         /\ fd' \in [Holder -> [Name -> Nat]]
<1>1. CASE OpenExisting(p, n)
  <2>1. inode[n] \in Nat
    BY DEF TypeOK
  <2>2. QED
    BY <1>1, <2>1, BindType DEF TypeOK, OpenExisting, fileVars
<1>2. CASE CreateExclusive(p, n)
  <2>1. used[n] + 1 \in Nat
    BY DEF TypeOK
  <2>2. QED
    BY <1>2, <2>1, BindType DEF TypeOK, CreateExclusive
<1>3. QED
  BY <1>1, <1>2

LEMMA LockType ==
  ASSUME TypeOK, NEW p \in Holder, NEW n \in Name,
         NEW granted \in Control, NEW refused \in Control,
         TryLock(p, n, granted, refused)
  PROVE  TypeOK'
<1>1. pc' \in [Holder -> Control]
  BY GotoType DEF TryLock
<1>2. locked' \in [Holder -> SUBSET Name]
  BY DEF TryLock, TypeOK
<1>3. QED
  BY <1>1, <1>2 DEF TryLock, TypeOK, fileVars

LEMMA CloseType ==
  ASSUME TypeOK, NEW p \in Holder, NEW n \in Name, CloseLock(p, n)
  PROVE  /\ fd' \in [Holder -> [Name -> Nat]]
         /\ locked' \in [Holder -> SUBSET Name]
BY BindType DEF TypeOK, CloseLock

LEMMA TypeStep == TypeOK /\ [Next]_vars => TypeOK'
<1> SUFFICES ASSUME TypeOK, [Next]_vars PROVE TypeOK'
  OBVIOUS
<1> USE DEF Holder
<1>1. ASSUME NEW p \in Proc, AcquireStep(p) PROVE TypeOK'
  <2>1. CASE OpenOrCreateLegacyLock(p)
    BY <2>1, OpenType, GotoType
       DEF OpenOrCreateLegacyLock, TypeOK, Name, Control
  <2>2. CASE LockLegacy(p)
    BY <2>2, LockType DEF LockLegacy, Name, Control
  <2>3. CASE OpenOrCreateLock(p)
    BY <2>3, OpenType, GotoType DEF OpenOrCreateLock, TypeOK, Name, Control
  <2>4. CASE LockLease(p)
    BY <2>4, LockType DEF LockLease, Name, Control
  <2>5. CASE PublishOwner(p)
    BY <2>5, GotoType DEF PublishOwner, TypeOK, Control
  <2>6. CASE RecordAcquiredLease(p)
    BY <2>6, GotoType DEF RecordAcquiredLease, TypeOK, Control, fileVars
  <2>7. CASE AcquireFails(p)
    BY <2>7, GotoType DEF AcquireFails, TypeOK, Control, fileVars
  <2>8. QED
    BY <1>1, <2>1, <2>2, <2>3, <2>4, <2>5, <2>6, <2>7 DEF AcquireStep
<1>2. ASSUME NEW p \in Proc, InspectStep(p) PROVE TypeOK'
  <2>1. CASE OpenExistingLegacyLock(p)
    BY <2>1, OpenType, GotoType
       DEF OpenExistingLegacyLock, TypeOK, Name, Control, fileVars
  <2>2. CASE ProbeLegacy(p)
    BY <2>2, LockType DEF ProbeLegacy, Name, Control
  <2>3. CASE ProbeOpen(p)
    BY <2>3, OpenType, GotoType DEF ProbeOpen, TypeOK, Name, Control, fileVars
  <2>4. CASE ProbeLock(p)
    BY <2>4, LockType DEF ProbeLock, Name, Control
  <2>5. CASE ProbeRead(p) \/ InspectFails(p)
    BY <2>5, GotoType DEF ProbeRead, InspectFails, TypeOK, Control, fileVars
  <2>6. QED
    BY <1>2, <2>1, <2>2, <2>3, <2>4, <2>5 DEF InspectStep
<1>3. ASSUME NEW p \in Holder, UnlockLease(p) \/ UnlockLegacy(p) PROVE TypeOK'
  BY <1>3, GotoType, CloseType
     DEF UnlockLease, UnlockLegacy, TypeOK, Control, Name, fileVars
<1>4. ASSUME NEW p \in Proc, OpenRunDirectory(p) \/ Release(p) PROVE TypeOK'
  BY <1>4, GotoType DEF OpenRunDirectory, Release, TypeOK, Control, fileVars
<1>5. ASSUME NEW p \in Proc, RemoveStep(p) PROVE TypeOK'
  <2>1. CASE HideDirectory(p) \/ FinishRemoval(p)
    BY <1>5, <2>1, GotoType DEF HideDirectory, FinishRemoval, TypeOK, Control, Name
  <2>2. ASSUME NEW n \in Name \cup {"owner"}, Unlink(p, n) PROVE TypeOK'
    BY <2>2 DEF Unlink, TypeOK, Name
  <2>3. QED
    BY <1>5, <2>1, <2>2 DEF RemoveStep
<1>6. ASSUME NEW q \in OldQualifier, OldOpen(q) \/ OldLock(q) \/ OldRelease(q)
      PROVE  TypeOK'
  <2>1. CASE OldOpen(q)
    BY <2>1, OpenType, GotoType DEF OldOpen, TypeOK, Name, Control
  <2>2. CASE OldLock(q)
    BY <2>2, LockType DEF OldLock, Name, Control
  <2>3. CASE OldRelease(q)
    BY <2>3, GotoType DEF OldRelease, TypeOK, Control, fileVars
  <2>4. QED
    BY <1>6, <2>1, <2>2, <2>3
<1>7. ASSUME NEW p \in Holder, Crash(p) PROVE TypeOK'
  BY <1>7, GotoType DEF Crash, TypeOK, Control, NoFile, Name, fileVars
<1>8. CASE UNCHANGED vars
  BY <1>8 DEF vars, TypeOK
<1>9. QED
  BY <1>1, <1>2, <1>3, <1>4, <1>5, <1>6, <1>7, <1>8
     DEF Next, ProcStep, OldStep, ReleaseStep

-------------------------------------------------------------------------------
(* The inductive invariant.                                                *)

LEMMA InitIInv == Init => IInv
<1> SUFFICES ASSUME Init PROVE IInv
  OBVIOUS
<1> USE DEF Init
<1>1. TypeOK
  BY DEF TypeOK, NoFile, Control
<1>2. LockExclusion /\ OwnersHoldLocks /\ HeldPathsUnchanged /\ RemovingIsHidden
  BY DEF LockExclusion, OwnersHoldLocks, HeldPathsUnchanged, RemovingIsHidden,
         Owns, Holder
<1>3. FirstFiles /\ OpenedFirst
  BY DEF FirstFiles, OpenedFirst, NoFile, Name, Holder
<1>4. LabelsTellLocks
  BY DEF LabelsTellLocks
<1>5. QED
  BY <1>1, <1>2, <1>3, <1>4 DEF IInv

\* A call that moves without touching files or locks keeps the invariant when
\* the label it reaches promises nothing about its locks.
LEMMA MovePreserves ==
  ASSUME IInv, TypeOK', NEW p \in Holder, NEW label \in {"unlockLease", "openLegacy"},
         Goto(p, label), UNCHANGED <<fileVars, fd, locked>>,
         label = "openLegacy" => pc[p] = "idle"
  PROVE  IInv'
<1> USE DEF IInv, TypeOK, Goto, fileVars
<1>1. LockExclusion' /\ FirstFiles' /\ OpenedFirst'
  BY DEF LockExclusion, FirstFiles, OpenedFirst
<1>2. LabelsTellLocks'
  BY DEF LabelsTellLocks
<1>3. OwnersHoldLocks' /\ HeldPathsUnchanged' /\ RemovingIsHidden'
  BY DEF OwnersHoldLocks, HeldPathsUnchanged, RemovingIsHidden, Owns, PathsUnchanged,
         Holder
<1>4. QED
  BY <1>1, <1>2, <1>3

\* Opening a file: the caller did not hold a lock on that name, so no lock
\* moves to another file, and a name of a visible directory that is bound
\* anew is bound for the first time.
LEMMA OpenPreserves ==
  ASSUME IInv, TypeOK', NEW p \in Holder, NEW n \in Name,
         OpenExisting(p, n) \/ CreateExclusive(p, n),
         n \notin locked[p], UNCHANGED locked,
         p \in OldQualifier => dir = "visible" /\ ~Owns(p),
         \/ pc[p] \in {"idle", "openLegacy"} /\ n = "legacy" /\ Goto(p, "lockLegacy")
         \/ pc[p] = "openLease" /\ n = "lease" /\ Goto(p, "lockLease")
         \/ /\ pc[p] = "probeOpen" /\ n = "lease" /\ Goto(p, "probeLock")
            /\ OpenExisting(p, n)
  PROVE  IInv'
<1> USE HoldersDistinct
    DEF IInv, TypeOK, Name, Holder, OpenExisting, CreateExclusive, fileVars, Goto
<1>1. LockExclusion'
  BY DEF LockExclusion
<1>2. FirstFiles' /\ OpenedFirst'
  <2>1. CASE OpenExisting(p, n)
    BY <2>1 DEF FirstFiles, OpenedFirst
  <2>2. CASE CreateExclusive(p, n)
    BY <2>2 DEF FirstFiles, OpenedFirst
  <2>3. QED
    BY <2>1, <2>2
<1>3. LabelsTellLocks'
  BY DEF LabelsTellLocks
<1>4. OwnersHoldLocks' /\ RemovingIsHidden'
  BY DEF OwnersHoldLocks, RemovingIsHidden, Owns
<1>5. HeldPathsUnchanged'
  BY DEF HeldPathsUnchanged, PathsUnchanged
<1>6. QED
  BY <1>1, <1>2, <1>3, <1>4, <1>5

\* flock: the lock is taken only when no other open file on the inode has it.
LEMMA LockPreserves ==
  ASSUME IInv, TypeOK', NEW p \in Holder, NEW n \in Name,
         NEW granted, NEW refused, TryLock(p, n, granted, refused),
         <<pc[p], n, granted, refused>> \in
           {<<"lockLegacy", "legacy", "openLease", "probeOpen">>,
            <<"lockLegacy", "legacy", "probeOpen", "probeOpen">>,
            <<"lockLegacy", "legacy", "held", "unlockLegacy">>,
            <<"lockLease", "lease", "publish", "unlockLease">>,
            <<"probeLock", "lease", "probeRead", "probeRead">>},
         granted = "held" <=> p \in OldQualifier
  PROVE  IInv'
<1> USE HoldersDistinct DEF IInv, TypeOK, Name, Holder, TryLock, fileVars, Goto
<1>1. LockExclusion'
  BY DEF LockExclusion, Blocked
<1>2. FirstFiles' /\ OpenedFirst'
  BY DEF FirstFiles, OpenedFirst
<1>3. LabelsTellLocks'
  BY DEF LabelsTellLocks
<1>4. OwnersHoldLocks' /\ RemovingIsHidden'
  BY DEF OwnersHoldLocks, RemovingIsHidden, Owns, LabelsTellLocks, OpenedFirst
<1>5. HeldPathsUnchanged'
  BY DEF HeldPathsUnchanged, PathsUnchanged
<1>6. QED
  BY <1>1, <1>2, <1>3, <1>4, <1>5

LEMMA ClosePreserves ==
  ASSUME IInv, TypeOK', NEW p \in Holder,
         UnlockLease(p) \/ UnlockLegacy(p) \/ Crash(p)
  PROVE  IInv'
<1> USE DEF IInv, TypeOK, Name, Holder, UnlockLease, UnlockLegacy, Crash,
            CloseLock, NoFile, fileVars, Goto
<1>1. LockExclusion'
  BY DEF LockExclusion
<1>2. FirstFiles' /\ OpenedFirst'
  BY DEF FirstFiles, OpenedFirst
<1>3. LabelsTellLocks'
  BY DEF LabelsTellLocks
<1>4. OwnersHoldLocks' /\ HeldPathsUnchanged' /\ RemovingIsHidden'
  BY DEF OwnersHoldLocks, HeldPathsUnchanged, RemovingIsHidden, Owns, PathsUnchanged
<1>5. QED
  BY <1>1, <1>2, <1>3, <1>4

\* In a visible directory the migration guard is one file, so whoever has it
\* locked is the only one: the fact that protects an owner from the others.
LEMMA GuardIsUnique ==
  ASSUME IInv, dir = "visible", NEW p \in Holder, NEW q \in Holder,
         "legacy" \in locked[p], "legacy" \in locked[q]
  PROVE  p = q
<1>1. fd[p]["legacy"] = 1 /\ fd[q]["legacy"] = 1
  BY DEF IInv, TypeOK, LabelsTellLocks, OpenedFirst, FirstFiles, Name
<1>2. QED
  BY <1>1 DEF IInv, LockExclusion, Name

LEMMA PublishPreserves ==
  ASSUME IInv, TypeOK', NEW p \in Proc, PublishOwner(p)
  PROVE  IInv'
<1> USE DEF IInv, TypeOK, Holder, PublishOwner, Goto
<1>1. LockExclusion' /\ FirstFiles' /\ OpenedFirst'
  BY DEF LockExclusion, FirstFiles, OpenedFirst
<1>2. LabelsTellLocks'
  BY DEF LabelsTellLocks
<1>3. OwnersHoldLocks' /\ RemovingIsHidden'
  BY DEF OwnersHoldLocks, RemovingIsHidden, Owns
<1>4. HeldPathsUnchanged'
  \* A caller holding its lease would share the guard with p.
  <2>1. \A q \in Proc : pc[q] # "held"
    BY GuardIsUnique
       DEF HeldPathsUnchanged, PathsUnchanged, OwnersHoldLocks, Owns, LabelsTellLocks
  <2>2. QED
    BY <2>1 DEF HeldPathsUnchanged
<1>5. QED
  BY <1>1, <1>2, <1>3, <1>4

LEMMA RecordPreserves ==
  ASSUME IInv, TypeOK', NEW p \in Proc, RecordAcquiredLease(p)
  PROVE  IInv'
<1>1. CASE ~PathsUnchanged(p)
  BY <1>1, MovePreserves DEF RecordAcquiredLease, Holder
<1>2. CASE PathsUnchanged(p)
  <2> USE <1>2 DEF IInv, TypeOK, Holder, RecordAcquiredLease, Goto, fileVars
  <2>1. LockExclusion' /\ FirstFiles' /\ OpenedFirst'
    BY DEF LockExclusion, FirstFiles, OpenedFirst
  <2>2. LabelsTellLocks' /\ RemovingIsHidden'
    BY HoldersDistinct DEF LabelsTellLocks, RemovingIsHidden
  <2>3. OwnersHoldLocks'
    <3>1. "legacy" \in locked[p] /\ "lease" \in locked[p]
      BY DEF LabelsTellLocks
    <3>2. fd[p]["legacy"] = 1
      BY DEF PathsUnchanged, FirstFiles, Name
    <3>3. QED
      BY <3>1, <3>2 DEF OwnersHoldLocks, Owns
  <2>4. HeldPathsUnchanged'
    BY DEF HeldPathsUnchanged, PathsUnchanged
  <2>5. QED
    BY <2>1, <2>2, <2>3, <2>4
<1>3. QED
  BY <1>1, <1>2

LEMMA RemovePreserves ==
  ASSUME IInv, TypeOK', NEW p \in Proc, RemoveStep(p)
  PROVE  IInv'
<1> USE DEF IInv, TypeOK, Holder, Name, Goto
\* Who holds a lease while p removes, or is about to, is p itself.
<1>1. pc[p] \in {"held", "removing"}
  BY DEF RemoveStep, HideDirectory, FinishRemoval, Unlink
<1>2. \A q \in Proc \ {p} : pc[q] # "held"
  BY <1>1, GuardIsUnique
     DEF HeldPathsUnchanged, PathsUnchanged, RemovingIsHidden, OwnersHoldLocks, Owns
<1>3. CASE HideDirectory(p)
  BY <1>2, <1>3
     DEF HideDirectory, LockExclusion, FirstFiles, OpenedFirst, LabelsTellLocks,
         OwnersHoldLocks, HeldPathsUnchanged, RemovingIsHidden, Owns
<1>4. CASE FinishRemoval(p)
  BY <1>2, <1>4
     DEF FinishRemoval, LockExclusion, FirstFiles, OpenedFirst, LabelsTellLocks,
         OwnersHoldLocks, HeldPathsUnchanged, RemovingIsHidden, Owns
<1>5. ASSUME NEW n \in Name \cup {"owner"}, Unlink(p, n) PROVE IInv'
  BY <1>2, <1>5
     DEF Unlink, LockExclusion, FirstFiles, OpenedFirst, LabelsTellLocks,
         OwnersHoldLocks, HeldPathsUnchanged, RemovingIsHidden, Owns
<1>6. QED
  BY <1>3, <1>4, <1>5 DEF RemoveStep

LEMMA StepIInv == IInv /\ [Next]_vars => IInv'
<1> SUFFICES ASSUME IInv, [Next]_vars PROVE IInv'
  OBVIOUS
<1>1. TypeOK'
  BY TypeStep DEF IInv
<1> USE <1>1, HoldersDistinct DEF Holder
<1>2. ASSUME NEW p \in Proc, AcquireStep(p) PROVE IInv'
  <2>1. CASE OpenOrCreateLegacyLock(p)
    BY <2>1, OpenPreserves
       DEF OpenOrCreateLegacyLock, Name, IInv, LabelsTellLocks
  <2>2. CASE LockLegacy(p)
    BY <2>2, LockPreserves DEF LockLegacy, Name
  <2>3. CASE OpenOrCreateLock(p)
    BY <2>3, OpenPreserves DEF OpenOrCreateLock, Name, IInv, LabelsTellLocks
  <2>4. CASE LockLease(p)
    BY <2>4, LockPreserves DEF LockLease, Name
  <2>5. CASE PublishOwner(p)
    BY <2>5, PublishPreserves
  <2>6. CASE RecordAcquiredLease(p)
    BY <2>6, RecordPreserves
  <2>7. CASE AcquireFails(p)
    BY <2>7, MovePreserves DEF AcquireFails
  <2>8. QED
    BY <1>2, <2>1, <2>2, <2>3, <2>4, <2>5, <2>6, <2>7 DEF AcquireStep
<1>3. ASSUME NEW p \in Proc, InspectStep(p) PROVE IInv'
  <2>1. CASE OpenExistingLegacyLock(p)
    <3>1. CASE inode["legacy"] = 0
      BY <2>1, <3>1
         DEF OpenExistingLegacyLock, OpenExisting, IInv, TypeOK, Goto, fileVars,
             LockExclusion, FirstFiles, OpenedFirst, LabelsTellLocks, OwnersHoldLocks,
             HeldPathsUnchanged, PathsUnchanged, RemovingIsHidden, Owns
    <3>2. CASE inode["legacy"] # 0
      BY <2>1, <3>2, OpenPreserves
         DEF OpenExistingLegacyLock, Name, IInv, LabelsTellLocks
    <3>3. QED
      BY <3>1, <3>2
  <2>2. CASE ProbeLegacy(p)
    BY <2>2, LockPreserves DEF ProbeLegacy, Name
  <2>3. CASE ProbeOpen(p)
    <3>1. CASE inode["lease"] = 0
      BY <2>3, <3>1
         DEF ProbeOpen, OpenExisting, IInv, TypeOK, Goto, fileVars,
             LockExclusion, FirstFiles, OpenedFirst, LabelsTellLocks, OwnersHoldLocks,
             HeldPathsUnchanged, PathsUnchanged, RemovingIsHidden, Owns
    <3>2. CASE inode["lease"] # 0
      BY <2>3, <3>2, OpenPreserves DEF ProbeOpen, Name, IInv, LabelsTellLocks
    <3>3. QED
      BY <3>1, <3>2
  <2>4. CASE ProbeLock(p)
    BY <2>4, LockPreserves DEF ProbeLock, Name
  <2>5. CASE ProbeRead(p) \/ InspectFails(p)
    BY <2>5, MovePreserves DEF ProbeRead, InspectFails
  <2>6. QED
    BY <1>3, <2>1, <2>2, <2>3, <2>4, <2>5 DEF InspectStep
<1>4. ASSUME NEW p \in Proc, OpenRunDirectory(p) \/ Release(p) PROVE IInv'
  BY <1>4, MovePreserves DEF OpenRunDirectory, Release
<1>5. ASSUME NEW p \in Holder, UnlockLease(p) \/ UnlockLegacy(p) \/ Crash(p)
      PROVE  IInv'
  BY <1>5, ClosePreserves
<1>6. ASSUME NEW p \in Proc, RemoveStep(p) PROVE IInv'
  BY <1>6, RemovePreserves
<1>7. ASSUME NEW q \in OldQualifier, OldStep(q) PROVE IInv'
  <2>1. CASE OldOpen(q)
    BY <2>1, OpenPreserves DEF OldOpen, Name, Owns, IInv, LabelsTellLocks
  <2>2. CASE OldLock(q)
    BY <2>2, LockPreserves DEF OldLock, Name
  <2>3. CASE OldRelease(q)
    BY <2>3
       DEF OldRelease, IInv, TypeOK, Goto, fileVars,
           LockExclusion, FirstFiles, OpenedFirst, LabelsTellLocks, OwnersHoldLocks,
           HeldPathsUnchanged, PathsUnchanged, RemovingIsHidden, Owns
  <2>4. QED
    BY <1>5, <1>7, <2>1, <2>2, <2>3 DEF OldStep
<1>8. CASE UNCHANGED vars
  BY <1>8
     DEF vars, IInv, LockExclusion, FirstFiles, OpenedFirst, LabelsTellLocks,
         OwnersHoldLocks, HeldPathsUnchanged, PathsUnchanged, RemovingIsHidden, Owns
<1>9. QED
  BY <1>2, <1>3, <1>4, <1>5, <1>6, <1>7, <1>8 DEF Next, ProcStep, ReleaseStep

LEMMA Inductive == Spec => []IInv
<1>1. QED
  BY InitIInv, StepIInv, PTL DEF Spec

-------------------------------------------------------------------------------
(* The theorems.                                                           *)

\* Every variable keeps its type (the values the descriptors, locks and files
\* of app/run_lease.py can take).
THEOREM TypeCorrect == Spec => []TypeOK
<1>1. IInv => TypeOK
  BY DEF IInv
<1>2. QED
  BY <1>1, Inductive, PTL

LEMMA IInvMutualExclusion == IInv => MutualExclusion
BY DEF IInv, MutualExclusion, OwnersHoldLocks, LockExclusion, Name

\* At most one acquire_run_lease call, or historical qualifier, owns the run at
\* a time, for any number of them and any interleaving with crashes, failures
\* and the removal of the run directory.
THEOREM OneOwner == Spec => []MutualExclusion
<1>1. QED
  BY Inductive, IInvMutualExclusion, PTL

\* A returned lease satisfies what require_acquired_run_lease checks until its
\* owner releases it or removes the run.
THEOREM HeldLeaseStaysValid == Spec => []HeldLeaseIsValid
<1>1. IInv => HeldLeaseIsValid
  BY DEF IInv, HeldLeaseIsValid, HeldPathsUnchanged, AuthorityValid, PathsUnchanged,
         OwnersHoldLocks, Owns, Name, Holder
<1>2. QED
  BY <1>1, Inductive, PTL

\* Until the run directory leaves its path, no lock name that is bound to a
\* file is ever bound to another or unlinked.
THEOREM LockFilesNeverReplaced == Spec => LockFilesStable
<1>1. ASSUME IInv, [Next]_vars, NEW n \in Name, dir' = "visible", inode[n] # 0
      PROVE  inode'[n] = inode[n]
  <2> USE <1>1 DEF fileVars
  <2>1. ASSUME NEW p \in Proc, ProcStep(p) PROVE inode'[n] = inode[n]
    <3> USE DEF OpenExisting, CreateExclusive, IInv, TypeOK, Name
    <3>1. CASE AcquireStep(p)
      BY <3>1
         DEF AcquireStep, OpenOrCreateLegacyLock, LockLegacy, OpenOrCreateLock,
             LockLease, PublishOwner, RecordAcquiredLease, AcquireFails, TryLock
    <3>2. CASE InspectStep(p)
      BY <3>2
         DEF InspectStep, OpenExistingLegacyLock, ProbeLegacy, ProbeOpen, ProbeLock,
             ProbeRead, InspectFails, TryLock
    <3>3. CASE RemoveStep(p)
      BY <3>3
         DEF RemoveStep, HideDirectory, FinishRemoval, Unlink, RemovingIsHidden, Holder
    <3>4. CASE OpenRunDirectory(p) \/ ReleaseStep(p)
      BY <3>4 DEF OpenRunDirectory, ReleaseStep, Release, UnlockLease, UnlockLegacy
    <3>5. QED
      BY <2>1, <3>1, <3>2, <3>3, <3>4 DEF ProcStep
  <2>2. ASSUME NEW q \in OldQualifier, OldStep(q) PROVE inode'[n] = inode[n]
    BY <2>2
       DEF OldStep, OldOpen, OldLock, OldRelease, UnlockLegacy, OpenExisting,
           CreateExclusive, TryLock, IInv, TypeOK, Name
  <2>3. CASE UNCHANGED vars
    BY <2>3 DEF vars
  <2>4. ASSUME NEW p \in Holder, Crash(p) PROVE inode'[n] = inode[n]
    BY <2>4 DEF Crash
  <2>5. QED
    BY <2>1, <2>2, <2>3, <2>4 DEF Next
<1>2. IInv /\ [Next]_vars =>
        [\A n \in Name : dir' = "visible" /\ inode[n] # 0 => inode'[n] = inode[n]]_vars
  BY <1>1
<1>3. QED
  BY <1>2, Inductive, PTL DEF Spec, LockFilesStable

-------------------------------------------------------------------------------
(* Refinement of RunOwnership.                                             *)

OwnerNow == IF \E p \in Holder : Owns(p)
            THEN CHOOSE p \in Holder : Owns(p) ELSE None

LEMMA OwnerIsUnique ==
  ASSUME MutualExclusion, NEW p \in Holder, Owns(p)
  PROVE  OwnerNow = p
BY DEF MutualExclusion, OwnerNow

LEMMA NobodyOwns ==
  ASSUME \A p \in Holder : ~Owns(p)
  PROVE  OwnerNow = None
BY DEF OwnerNow

\* A step moves one caller, so at most the ownership of that caller changes.
LEMMA OwnerChange ==
  ASSUME IInv, IInv', NEW p \in Holder, NEW label, Goto(p, label)
  PROVE  /\ Owns(p) => OwnerNow = p
         /\ ~Owns(p) /\ Owns(p)' => OwnerNow = None /\ OwnerNow' = p
         /\ Owns(p) /\ ~Owns(p)' => OwnerNow' = None
         /\ (Owns(p) <=> Owns(p)') => OwnerNow' = OwnerNow
<1>1. MutualExclusion /\ MutualExclusion'
  BY DEF IInv, MutualExclusion, OwnersHoldLocks, LockExclusion, Name
<1>2. \A q \in Holder \ {p} : Owns(q) <=> Owns(q)'
  BY DEF IInv, TypeOK, Goto, Owns
<1>3. CASE Owns(p)
  <2>1. OwnerNow = p
    BY <1>1, <1>3, OwnerIsUnique
  <2>2. Owns(p)' => OwnerNow' = p
    BY <1>1 DEF MutualExclusion, OwnerNow
  <2>3. ~Owns(p)' => \A q \in Holder : ~Owns(q)'
    BY <1>1, <1>2, <1>3 DEF MutualExclusion
  <2>4. QED
    BY <1>3, <2>1, <2>2, <2>3 DEF OwnerNow
<1>4. CASE ~Owns(p) /\ Owns(p)'
  <2>1. OwnerNow' = p
    BY <1>1, <1>4 DEF MutualExclusion, OwnerNow
  <2>2. \A q \in Holder : ~Owns(q)
    BY <1>1, <1>2, <1>4 DEF MutualExclusion
  <2>3. QED
    BY <1>4, <2>1, <2>2, NobodyOwns
<1>5. CASE ~Owns(p) /\ ~Owns(p)'
  <2>1. \A q \in Holder : Owns(q) <=> Owns(q)'
    BY <1>2, <1>5
  <2>2. CASE \A q \in Holder : ~Owns(q)
    BY <1>5, <2>1, <2>2 DEF OwnerNow
  <2>3. CASE \E q \in Holder : Owns(q)
    <3>1. PICK q \in Holder : Owns(q)
      BY <2>3
    <3>2. OwnerNow = q
      BY <1>1, <3>1, OwnerIsUnique
    <3>3. OwnerNow' = q
      BY <1>1, <2>1, <3>1 DEF MutualExclusion, OwnerNow
    <3>4. QED
      BY <1>5, <3>2, <3>3
  <2>4. QED
    BY <2>2, <2>3
<1>6. QED
  BY <1>3, <1>4, <1>5

LEMMA InitOwnership == Init => Ownership!Init
BY DEF Init, Ownership!Init, Owns


\* What each effect on the owner and the directory is to RunOwnership.
LEMMA QuietStep ==
  ASSUME OwnerNow' = OwnerNow, dir = "visible" <=> dir' = "visible"
  PROVE  UNCHANGED Ownership!vars
<1>1. (dir' = "visible") = (dir = "visible")
  OBVIOUS
<1>2. QED
  BY <1>1 DEF Ownership!vars, OwnerNow

LEMMA GrantStep ==
  ASSUME NEW p \in Holder, p \in Proc => dir = "visible",
         OwnerNow = None, OwnerNow' = p, UNCHANGED dir
  PROVE  Ownership!Next
<1>1. Ownership!Grant(p)
  BY DEF Ownership!Grant, OwnerNow
<1>2. QED
  BY <1>1 DEF Ownership!Next, Holder

LEMMA RelinquishStep ==
  ASSUME OwnerNow # None, OwnerNow' = None, dir = "visible" <=> dir' = "visible"
  PROVE  Ownership!Next
<1>1. (dir' = "visible") = (dir = "visible")
  OBVIOUS
<1>2. Ownership!Relinquish
  BY <1>1 DEF Ownership!Relinquish, OwnerNow
<1>3. QED
  BY <1>2 DEF Ownership!Next

LEMMA RemoveStepImplements ==
  ASSUME NEW p \in Proc, OwnerNow = p, OwnerNow' = p,
         dir = "visible", dir' # "visible"
  PROVE  Ownership!Next
<1>1. (dir = "visible") = TRUE /\ (dir' = "visible") = FALSE
  OBVIOUS
<1>2. Ownership!Remove(p)
  BY <1>1 DEF Ownership!Remove, OwnerNow
<1>3. QED
  BY <1>2 DEF Ownership!Next

\* A step after which its caller owns nothing it did not own before either
\* gives the run up or is invisible.
LEMMA NoGrant ==
  ASSUME IInv, IInv', NEW p \in Holder, NEW label, Goto(p, label),
         ~Owns(p)', dir = "visible" <=> dir' = "visible"
  PROVE  [Ownership!Next]_(Ownership!vars)
<1>1. CASE Owns(p)
  <2>1. OwnerNow # None /\ OwnerNow' = None
    BY <1>1, OwnerChange, HoldersDistinct DEF Holder
  <2>2. QED
    BY <2>1, RelinquishStep
<1>2. CASE ~Owns(p)
  BY <1>2, OwnerChange, QuietStep
<1>3. QED
  BY <1>1, <1>2

LEMMA StepOwnership ==
  ASSUME IInv, IInv', [Next]_vars
  PROVE  [Ownership!Next]_(Ownership!vars)
<1> USE DEF fileVars
<1>1. ASSUME NEW p \in Proc, ProcStep(p)
      PROVE  [Ownership!Next]_(Ownership!vars)
  <2> USE DEF IInv, TypeOK, Holder
  <2>1. CASE AcquireStep(p) /\ ~RecordAcquiredLease(p)
    <3>1. \E label \in {"lockLegacy", "openLease", "probeOpen", "lockLease",
                        "publish", "unlockLease", "record"} :
             Goto(p, label) /\ (dir' = dir)
      BY <2>1
         DEF AcquireStep, OpenOrCreateLegacyLock, LockLegacy, OpenOrCreateLock,
             LockLease, PublishOwner, AcquireFails, TryLock, OpenExisting,
             CreateExclusive
    <3>2. QED
      BY <3>1, NoGrant DEF Owns, Goto
  <2>2. CASE RecordAcquiredLease(p)
    <3>1. CASE PathsUnchanged(p)
      <4>1. Goto(p, "held") /\ ~Owns(p) /\ Owns(p)' /\ dir = "visible" /\ dir' = dir
        BY <2>2, <3>1 DEF RecordAcquiredLease, PathsUnchanged, Owns, Goto
      <4>2. OwnerNow = None /\ OwnerNow' = p
        BY <4>1, OwnerChange
      <4>3. QED
        BY <4>1, <4>2, GrantStep
    <3>2. CASE ~PathsUnchanged(p)
      BY <2>2, <3>2, NoGrant DEF RecordAcquiredLease, Owns, Goto
    <3>3. QED
      BY <3>1, <3>2
  <2>3. CASE InspectStep(p)
    <3>1. \E label \in {"lockLegacy", "probeOpen", "probeLock", "probeRead",
                        "unlockLease"} :
             Goto(p, label) /\ (dir' = dir)
      BY <2>3
         DEF InspectStep, OpenExistingLegacyLock, ProbeLegacy, ProbeOpen, ProbeLock,
             ProbeRead, InspectFails, TryLock, OpenExisting
    <3>2. QED
      BY <3>1, NoGrant DEF Owns, Goto
  <2>4. CASE OpenRunDirectory(p) \/ ReleaseStep(p)
    <3>1. \E label \in {"openLegacy", "unlockLease", "unlockLegacy", "idle"} :
             Goto(p, label) /\ (dir' = dir)
      BY <2>4 DEF OpenRunDirectory, ReleaseStep, Release, UnlockLease, UnlockLegacy
    <3>2. QED
      BY <3>1, NoGrant DEF Owns, Goto
  <2>5. CASE HideDirectory(p)
    <3>1. Goto(p, "removing") /\ Owns(p) /\ Owns(p)' /\ dir' # "visible"
      BY <2>5 DEF HideDirectory, Owns, Goto
    <3>2. OwnerNow = p /\ OwnerNow' = p
      BY <3>1, OwnerChange
    <3>3. dir = "visible"
      BY <2>5 DEF HideDirectory, HeldPathsUnchanged, PathsUnchanged
    <3>4. QED
      BY <3>1, <3>2, <3>3, RemoveStepImplements
  <2>6. CASE FinishRemoval(p)
    <3>1. /\ Goto(p, "unlockLease") /\ ~Owns(p)'
          /\ dir # "visible" /\ dir' # "visible"
      BY <2>6 DEF FinishRemoval, Owns, Goto, RemovingIsHidden
    <3>2. QED
      BY <3>1, NoGrant
  <2>7. ASSUME NEW n \in Name \cup {"owner"}, Unlink(p, n)
        PROVE  [Ownership!Next]_(Ownership!vars)
    BY <2>7, QuietStep DEF Unlink, OwnerNow, Owns
  <2>8. QED
    BY <1>1, <2>1, <2>2, <2>3, <2>4, <2>5, <2>6, <2>7 DEF ProcStep, RemoveStep
<1>2. ASSUME NEW q \in OldQualifier, OldStep(q)
      PROVE  [Ownership!Next]_(Ownership!vars)
  <2> USE DEF IInv, TypeOK, Holder
  <2>1. CASE OldLock(q) /\ ~Blocked(q, "legacy")
    <3>1. Goto(q, "held") /\ ~Owns(q) /\ Owns(q)' /\ dir' = dir
      BY <2>1 DEF OldLock, TryLock, Owns, Goto
    <3>2. OwnerNow = None /\ OwnerNow' = q
      BY <3>1, OwnerChange
    <3>3. QED
      BY <3>1, <3>2, GrantStep, HoldersDistinct
  <2>2. CASE ~(OldLock(q) /\ ~Blocked(q, "legacy"))
    <3>1. \E label \in {"lockLegacy", "unlockLegacy", "idle"} :
             Goto(q, label) /\ (dir' = dir)
      BY <1>2, <2>2
         DEF OldStep, OldOpen, OldLock, OldRelease, UnlockLegacy, OpenExisting,
             CreateExclusive, TryLock
    <3>2. QED
      BY <3>1, NoGrant DEF Owns, Goto
  <2>3. QED
    BY <2>1, <2>2
<1>3. ASSUME NEW p \in Holder, Crash(p)
      PROVE  [Ownership!Next]_(Ownership!vars)
  BY <1>3, NoGrant DEF Crash, Owns, Goto, IInv, TypeOK
<1>4. CASE UNCHANGED vars
  BY <1>4, QuietStep DEF vars, OwnerNow, Owns
<1>5. QED
  BY <1>1, <1>2, <1>3, <1>4 DEF Next

\* The files, locks and sidecar of app/run_lease.py implement plain ownership:
\* every step of a call is invisible, or grants the run to a caller when nobody
\* owns it, gives it up, or removes it by its owner.
THEOREM LeaseImplementsOwnership == Spec => ImplementsOwnership
<1>1. QED
  BY Inductive, InitOwnership, StepOwnership, PTL
     DEF Spec, ImplementsOwnership, Ownership!Spec

-------------------------------------------------------------------------------
(* An inspection that answers "unheld" (MCRunLease).                       *)

LEMMA HistoryIsRunLease == MCSpec => Spec
<1>1. MCInit => Init
  BY DEF MCInit
<1>2. [MCNext]_mcVars => [Next]_vars
  BY DEF MCNext, mcVars, vars
<1>3. QED
  BY <1>1, <1>2, PTL DEF MCSpec, Spec

\* Without a legacy file nobody can own a run at its path.
LEMMA NoFileNoOwner ==
  ASSUME IInv, dir = "visible", inode["legacy"] = 0
  PROVE  Unowned
<1> SUFFICES ASSUME NEW q \in Holder, Owns(q) PROVE FALSE
  BY DEF Unowned
<1>1. "legacy" \in Name
  BY DEF Name
<1>2. used["legacy"] = 0
  BY <1>1 DEF IInv, FirstFiles
<1>3. fd[q]["legacy"] = 1
  BY DEF IInv, OwnersHoldLocks
<1>4. fd[q]["legacy"] <= used["legacy"]
  BY <1>1 DEF IInv, OpenedFirst
<1>5. QED
  BY <1>2, <1>3, <1>4

Probing(p) == mode[p] = "inspect" /\ pc[p] \in {"probeOpen", "probeLock", "probeRead"}

\* An inspection that found no legacy file saw an instant without an owner.
SawNoFile ==
  /\ sawFree \in [Proc -> BOOLEAN]
  /\ \A p \in Proc : dir = "visible" /\ Probing(p) /\ fd[p]["legacy"] = 0 => sawFree[p]

\* What p's own step, or another's, leaves of p: an inspection that is probing
\* without a legacy file was doing so before, or has just found none.
CameProbing(p) ==
  /\ dir = "visible"
  /\ (Probing(p) /\ fd[p]["legacy"] = 0) \/ inode["legacy"] = 0

\* How an inspection gets to its probes.
LEMMA ProbingStep ==
  ASSUME IInv, Next, NEW p \in Proc, dir' = "visible",
         Probing(p)', fd'[p]["legacy"] = 0
  PROVE  CameProbing(p)
<1> USE DEF Holder, Name, IInv, TypeOK, CameProbing, Probing
<1>1. pc[p] = "lockLegacy" => fd[p]["legacy"] >= 1
  BY DEF LabelsTellLocks
<1>2. ASSUME NEW q \in Proc, ProcStep(q) PROVE CameProbing(p)
  <2>1. CASE OpenRunDirectory(q)
    BY <2>1 DEF OpenRunDirectory, Goto, fileVars
  <2>2. CASE AcquireStep(q)
    <3>1. CASE OpenOrCreateLegacyLock(q) \/ OpenOrCreateLock(q)
      BY <3>1 DEF OpenOrCreateLegacyLock, OpenOrCreateLock, OpenExisting,
                  CreateExclusive, Goto, fileVars
    <3>2. CASE LockLegacy(q) \/ LockLease(q)
      BY <3>2 DEF LockLegacy, LockLease, TryLock, Goto, fileVars
    <3>3. CASE PublishOwner(q) \/ RecordAcquiredLease(q) \/ AcquireFails(q)
      BY <3>3 DEF PublishOwner, RecordAcquiredLease, AcquireFails, Goto, fileVars
    <3>4. QED
      BY <2>2, <3>1, <3>2, <3>3 DEF AcquireStep
  <2>3. CASE InspectStep(q)
    <3>1. CASE OpenExistingLegacyLock(q)
      BY <3>1 DEF OpenExistingLegacyLock, OpenExisting, Goto, fileVars
    <3>2. CASE ProbeLegacy(q)
      BY <1>1, <3>2 DEF ProbeLegacy, TryLock, Goto, fileVars
    <3>3. CASE ProbeOpen(q)
      BY <3>3 DEF ProbeOpen, OpenExisting, Goto, fileVars
    <3>4. CASE ProbeLock(q) \/ ProbeRead(q) \/ InspectFails(q)
      BY <3>4 DEF ProbeLock, ProbeRead, InspectFails, TryLock, Goto, fileVars
    <3>5. QED
      BY <2>3, <3>1, <3>2, <3>3, <3>4 DEF InspectStep
  <2>4. CASE ReleaseStep(q)
    BY <2>4 DEF ReleaseStep, Release, UnlockLease, UnlockLegacy, CloseLock, Goto,
                fileVars
  <2>5. CASE RemoveStep(q)
    BY <2>5 DEF RemoveStep, HideDirectory, FinishRemoval, Unlink, Goto
  <2>6. QED
    BY <1>2, <2>1, <2>2, <2>3, <2>4, <2>5 DEF ProcStep
<1>3. ASSUME NEW q \in OldQualifier, OldStep(q) PROVE CameProbing(p)
  BY <1>3, HoldersDistinct
     DEF OldStep, OldOpen, OldLock, OldRelease, UnlockLegacy, OpenExisting,
         CreateExclusive, TryLock, CloseLock, Goto, fileVars
<1>4. ASSUME NEW q \in Holder, Crash(q) PROVE CameProbing(p)
  BY <1>4 DEF Crash, Goto, fileVars
<1>5. QED
  BY <1>2, <1>3, <1>4 DEF Next

LEMMA InitSaw == MCInit => SawNoFile
BY DEF MCInit, SawNoFile, Init

LEMMA StepSaw == IInv /\ SawNoFile /\ [MCNext]_mcVars => SawNoFile'
<1> SUFFICES ASSUME IInv, SawNoFile, [MCNext]_mcVars PROVE SawNoFile'
  OBVIOUS
<1>1. CASE MCNext
  <2>1. sawFree' = [p \in Proc |-> Unowned \/ (pc[p] # "idle" /\ sawFree[p])]
    BY <1>1 DEF MCNext
  <2>2. sawFree' \in [Proc -> BOOLEAN]
    BY <2>1 DEF SawNoFile
  <2>3. ASSUME NEW p \in Proc, dir' = "visible", Probing(p)', fd'[p]["legacy"] = 0
        PROVE  sawFree'[p]
    <3>1. CameProbing(p)
      BY <1>1, <2>3, ProbingStep DEF MCNext
    <3>2. CASE Probing(p) /\ fd[p]["legacy"] = 0
      <4>1. sawFree[p] /\ pc[p] # "idle"
        BY <3>1, <3>2 DEF CameProbing, Probing, SawNoFile
      <4>2. QED
        BY <2>1, <4>1
    <3>3. CASE inode["legacy"] = 0
      <4>1. Unowned
        BY <3>1, <3>3, NoFileNoOwner DEF CameProbing
      <4>2. QED
        BY <2>1, <4>1
    <3>4. QED
      BY <3>1, <3>2, <3>3 DEF CameProbing
  <2>4. QED
    BY <2>2, <2>3 DEF SawNoFile
<1>2. CASE UNCHANGED mcVars
  BY <1>2 DEF mcVars, vars, SawNoFile, Probing
<1>3. QED
  BY <1>1, <1>2

\* run_lease_is_definitively_unheld: an inspection of a run at its path that
\* has both locks, or found no file to lock, saw an instant at which neither a
\* lease nor an old qualifier owned the run.
LEMMA SawImpliesUnheld == IInv /\ SawNoFile => UnheldWasTrue
<1> SUFFICES ASSUME IInv, SawNoFile, NEW p \in Proc, dir = "visible",
                    AnswersUnheld(p)
             PROVE  sawFree[p] \/ Unowned
  BY DEF UnheldWasTrue
<1>1. p \in Holder /\ "legacy" \in Name
  BY DEF Holder, Name
<1>2. CASE "legacy" \in locked[p]
  <2>1. ASSUME NEW q \in Holder, Owns(q) PROVE FALSE
    <3>1. "legacy" \in locked[q]
      BY <2>1 DEF IInv, OwnersHoldLocks
    <3>2. p = q
      BY <1>1, <1>2, <3>1, GuardIsUnique
    <3>3. QED
      BY <2>1, <3>2 DEF Owns, AnswersUnheld
  <2>2. QED
    BY <2>1 DEF Unowned
<1>3. CASE fd[p]["legacy"] = 0
  BY <1>3 DEF SawNoFile, Probing, AnswersUnheld
<1>4. QED
  BY <1>1, <1>2, <1>3 DEF AnswersUnheld

\* "unheld" is never reported of a run at its path that had an owner all the
\* while the inspection ran.
THEOREM UnheldIsTrue == MCSpec => []UnheldWasTrue
<1>1. MCSpec => []IInv
  BY HistoryIsRunLease, Inductive
<1>2. MCInit => SawNoFile
  BY InitSaw
<1>3. IInv /\ SawNoFile /\ [MCNext]_mcVars => SawNoFile'
  BY StepSaw
<1>4. IInv /\ SawNoFile => UnheldWasTrue
  BY SawImpliesUnheld
<1>5. QED
  BY <1>1, <1>2, <1>3, <1>4, PTL DEF MCSpec
===============================================================================
