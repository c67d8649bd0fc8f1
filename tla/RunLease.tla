------------------------------- MODULE RunLease -------------------------------
(***************************************************************************)
(* The lease protocol of app/run_lease.py for one persisted run, together  *)
(* with the one caller that removes the run directory while it holds the   *)
(* lease (clear_saved_runs of app/main.py).                                *)
(*                                                                         *)
(* A run directory holds two lock files and an owner-metadata sidecar.  An *)
(* operation opens the directory, then works through the descriptor it     *)
(* got, so it can still create files in a directory that has been renamed  *)
(* away.  flock belongs to an open file description: every open counts as  *)
(* a separate lock holder, also inside one process, which is why an element*)
(* of Proc stands for one call (acquire, inspect) rather than for a PID.   *)
(*                                                                         *)
(* Files are compared by inode.  A name is bound to 0 (absent) or to the   *)
(* number of the file it was last created as: 1 for the first, 2 for one   *)
(* created after rmtree unlinked the first, and so on.                     *)
(***************************************************************************)
EXTENDS Naturals

CONSTANTS Proc,          \* calls of the current protocol
          OldQualifier,  \* processes of the historical Azure qualifier
          None           \* no owner metadata, nobody

ASSUME HoldersDistinct == /\ Proc \cap OldQualifier = {}
                          /\ None \notin Proc \cup OldQualifier

VARIABLES
  dir,      \* the run directory: at its path, renamed away, or removed
  inode,    \* what each lock-file name is bound to, 0 when absent
  used,     \* how many files each name has been bound to
  meta,     \* the owner published in the sidecar, None when absent
  listed,   \* the names rmtree has read and not unlinked yet
  pc,       \* where each call stands
  mode,     \* which operation each call is
  fd,       \* the lock files each call has open, 0 when none
  locked    \* the names whose open file each call has locked

vars == <<dir, inode, used, meta, listed, pc, mode, fd, locked>>
fileVars == <<dir, inode, used, meta, listed>>

Name   == {"legacy", "lease"}
Holder == Proc \cup OldQualifier

Control == {"idle", "openLegacy", "lockLegacy", "openLease", "lockLease",
            "publish", "record", "held", "removing",
            "probeOpen", "probeLock", "probeRead",
            "unlockLease", "unlockLegacy"}

TypeOK ==
  /\ dir \in {"visible", "hidden", "gone"}
  /\ inode \in [Name -> Nat]
  /\ used \in [Name -> Nat]
  /\ meta \in Proc \cup {None}
  /\ listed \subseteq Name \cup {"owner"}
  /\ pc \in [Holder -> Control]
  /\ mode \in [Holder -> {"acquire", "inspect"}]
  /\ fd \in [Holder -> [Name -> Nat]]
  /\ locked \in [Holder -> SUBSET Name]

NoFile == [n \in Name |-> 0]

Init ==
  /\ dir = "visible"
  /\ inode = NoFile
  /\ used = NoFile
  /\ meta = None
  /\ listed = {}
  /\ pc = [p \in Holder |-> "idle"]
  /\ mode = [p \in Holder |-> "acquire"]
  /\ fd = [p \in Holder |-> NoFile]
  /\ locked = [p \in Holder |-> {}]

-------------------------------------------------------------------------------
(* File-system primitives.                                                 *)

\* flock(LOCK_EX | LOCK_NB) on p's own open file fails exactly when another
\* open file on the same inode is locked.
Blocked(p, n) == \E q \in Holder \ {p} : n \in locked[q] /\ fd[q][n] = fd[p][n]

Goto(p, label) == pc' = [pc EXCEPT ![p] = label]

\* Opens what name n is bound to.
OpenExisting(p, n) ==
  /\ inode[n] # 0
  /\ fd' = [fd EXCEPT ![p][n] = inode[n]]
  /\ UNCHANGED fileVars

\* O_CREAT | O_EXCL: relative to the directory descriptor, so it works in a
\* renamed directory but not in one that has been removed.
CreateExclusive(p, n) ==
  /\ inode[n] = 0
  /\ dir # "gone"
  /\ used' = [used EXCEPT ![n] = @ + 1]
  /\ inode' = [inode EXCEPT ![n] = used[n] + 1]
  /\ fd' = [fd EXCEPT ![p][n] = used[n] + 1]
  /\ UNCHANGED <<dir, meta, listed>>

TryLock(p, n, granted, refused) ==
  /\ IF Blocked(p, n)
     THEN UNCHANGED locked /\ Goto(p, refused)
     ELSE locked' = [locked EXCEPT ![p] = @ \cup {n}] /\ Goto(p, granted)
  /\ UNCHANGED <<fileVars, mode, fd>>

\* LOCK_UN and close of p's descriptor for n; harmless when n is not open.
CloseLock(p, n) ==
  /\ locked' = [locked EXCEPT ![p] = @ \ {n}]
  /\ fd' = [fd EXCEPT ![p][n] = 0]

-------------------------------------------------------------------------------
(* acquire_run_lease.                                                      *)

\* Both operations start by opening the run directory at its path.
OpenRunDirectory(p) ==
  /\ p \in Proc
  /\ pc[p] = "idle"
  /\ dir = "visible"
  /\ \E m \in {"acquire", "inspect"} : mode' = [mode EXCEPT ![p] = m]
  /\ Goto(p, "openLegacy")
  /\ UNCHANGED <<fileVars, fd, locked>>

OpenOrCreateLegacyLock(p) ==
  /\ pc[p] = "openLegacy" /\ mode[p] = "acquire"
  /\ OpenExisting(p, "legacy") \/ CreateExclusive(p, "legacy")
  /\ Goto(p, "lockLegacy")
  /\ UNCHANGED <<mode, locked>>

\* Mistake: a busy migration guard does not stop the call.
LockLegacyUnguarded(p) ==
  /\ pc[p] = "lockLegacy" /\ mode[p] = "acquire"
  /\ TryLock(p, "legacy", "openLease", "openLease")

\* A busy migration guard makes acquire look at the shared lease only to
\* name the owner in its error.
LockLegacy(p) ==
  /\ pc[p] = "lockLegacy" /\ mode[p] = "acquire"
  /\ TryLock(p, "legacy", "openLease", "probeOpen")

\* Metadata without its lock file is refused before anything is created.
OpenOrCreateLock(p) ==
  /\ pc[p] = "openLease"
  /\ \/ OpenExisting(p, "lease")
     \/ meta = None /\ CreateExclusive(p, "lease")
  /\ Goto(p, "lockLease")
  /\ UNCHANGED <<mode, locked>>

LockLease(p) ==
  /\ pc[p] = "lockLease"
  /\ TryLock(p, "lease", "publish", "unlockLease")

\* Mistake: the sidecar gets the name of the operation instead of its caller.
PublishOperation(p) ==
  /\ pc[p] = "publish"
  /\ dir # "gone"
  /\ meta' = mode[p]
  /\ Goto(p, "record")
  /\ UNCHANGED <<dir, inode, used, listed, mode, fd, locked>>

\* _replace_owner_metadata: the staged file becomes visible in one rename.
PublishOwner(p) ==
  /\ pc[p] = "publish"
  /\ dir # "gone"
  /\ meta' = p
  /\ Goto(p, "record")
  /\ UNCHANGED <<dir, inode, used, listed, mode, fd, locked>>

\* What _record_acquired_lease compares before it registers the lease: the
\* canonical path still leads to this directory, both names to the files p
\* has open, and the sidecar names p.
PathsUnchanged(p) ==
  /\ dir = "visible"
  /\ \A n \in Name : inode[n] # 0 /\ fd[p][n] = inode[n]
  /\ meta = p

\* Mistake: both locks are taken to be enough.
RecordUnchecked(p) ==
  /\ pc[p] = "record"
  /\ Goto(p, "held")
  /\ UNCHANGED <<fileVars, mode, fd, locked>>

RecordAcquiredLease(p) ==
  /\ pc[p] = "record"
  /\ IF PathsUnchanged(p) THEN Goto(p, "held") ELSE Goto(p, "unlockLease")
  /\ UNCHANGED <<fileVars, mode, fd, locked>>

\* require_acquired_run_lease compares the same relationships again and
\* expects a probe through a fresh descriptor to find both files locked.
AuthorityValid(p) ==
  /\ PathsUnchanged(p)
  /\ \A n \in Name : \E q \in Holder : n \in locked[q] /\ fd[q][n] = inode[n]

\* Every call between opening the directory and returning the lease can
\* raise; the handler unlocks the lease first and the guard last.
AcquireFails(p) ==
  /\ mode[p] = "acquire"
  /\ pc[p] \in {"openLegacy", "lockLegacy", "openLease", "lockLease",
                "publish", "record", "probeOpen", "probeLock", "probeRead"}
  /\ Goto(p, "unlockLease")
  /\ UNCHANGED <<fileVars, mode, fd, locked>>

-------------------------------------------------------------------------------
(* RunLease.release, and the epilogue shared by every failing or finished  *)
(* call: the shared lock goes first, the migration guard last.             *)

Release(p) ==
  /\ pc[p] = "held" /\ p \in Proc
  /\ Goto(p, "unlockLease")
  /\ UNCHANGED <<fileVars, mode, fd, locked>>

\* Mistake: the lock file is tidied away with the lock.
UnlockAndUnlinkLease(p) ==
  /\ pc[p] = "unlockLease"
  /\ CloseLock(p, "lease")
  /\ inode' = [inode EXCEPT !["lease"] = 0]
  /\ Goto(p, "unlockLegacy")
  /\ UNCHANGED <<dir, used, meta, listed, mode>>

UnlockLease(p) ==
  /\ pc[p] = "unlockLease"
  /\ CloseLock(p, "lease")
  /\ Goto(p, "unlockLegacy")
  /\ UNCHANGED <<fileVars, mode>>

UnlockLegacy(p) ==
  /\ pc[p] = "unlockLegacy"
  /\ CloseLock(p, "legacy")
  /\ Goto(p, "idle")
  /\ UNCHANGED <<fileVars, mode>>

-------------------------------------------------------------------------------
(* inspect_run_lease, and _inspect_shared_lease, which acquire also runs   *)
(* after finding the migration guard busy.                                 *)

\* Mistake: an inspection looks at the shared lease only.
SkipLegacyLock(p) ==
  /\ pc[p] = "openLegacy" /\ mode[p] = "inspect"
  /\ Goto(p, "probeOpen")
  /\ UNCHANGED <<fileVars, fd, mode, locked>>

\* An inspection creates nothing: without a legacy file it goes on to the
\* shared lease.
OpenExistingLegacyLock(p) ==
  /\ pc[p] = "openLegacy" /\ mode[p] = "inspect"
  /\ \/ OpenExisting(p, "legacy") /\ Goto(p, "lockLegacy")
     \/ /\ inode["legacy"] = 0
        /\ Goto(p, "probeOpen")
        /\ UNCHANGED <<fileVars, fd>>
  /\ UNCHANGED <<mode, locked>>

ProbeLegacy(p) ==
  /\ pc[p] = "lockLegacy" /\ mode[p] = "inspect"
  /\ TryLock(p, "legacy", "probeOpen", "probeOpen")

\* Without a lease file there is nothing to lock: the shared lease is unheld,
\* or ambiguous (an error) when its sidecar exists.
ProbeOpen(p) ==
  /\ pc[p] = "probeOpen"
  /\ \/ OpenExisting(p, "lease") /\ Goto(p, "probeLock")
     \/ /\ inode["lease"] = 0
        /\ Goto(p, IF meta = None THEN "probeRead" ELSE "unlockLease")
        /\ UNCHANGED <<fileVars, fd>>
  /\ UNCHANGED <<mode, locked>>

ProbeLock(p) ==
  /\ pc[p] = "probeLock"
  /\ TryLock(p, "lease", "probeRead", "probeRead")

\* Reads the sidecar and returns; the answer is what the probe saw.
ProbeRead(p) ==
  /\ pc[p] = "probeRead"
  /\ Goto(p, "unlockLease")
  /\ UNCHANGED <<fileVars, mode, fd, locked>>

InspectFails(p) ==
  /\ mode[p] = "inspect"
  /\ pc[p] \in {"openLegacy", "lockLegacy", "probeOpen", "probeLock"}
  /\ Goto(p, "unlockLease")
  /\ UNCHANGED <<fileVars, mode, fd, locked>>

-------------------------------------------------------------------------------
(* History deletion under the lease (clear_saved_runs): rename the run     *)
(* directory away, then unlink what it holds, then release.                *)

\* Mistake: the directory is emptied at its path.
RemoveInPlace(p) ==
  /\ pc[p] = "held" /\ p \in Proc
  /\ listed' = {n \in Name : inode[n] # 0} \cup {"owner"}
  /\ Goto(p, "removing")
  /\ UNCHANGED <<dir, inode, used, meta, mode, fd, locked>>

HideDirectory(p) ==
  /\ pc[p] = "held" /\ p \in Proc
  /\ dir' = "hidden"
  /\ listed' = {n \in Name : inode[n] # 0}
                 \cup (IF meta = None THEN {} ELSE {"owner"})
  /\ Goto(p, "removing")
  /\ UNCHANGED <<inode, used, meta, mode, fd, locked>>

\* rmtree unlinks what it listed, in directory order.
Unlink(p, n) ==
  /\ pc[p] = "removing"
  /\ n \in listed
  /\ listed' = listed \ {n}
  /\ IF n = "owner" THEN meta' = None /\ UNCHANGED inode
                    ELSE inode' = [inode EXCEPT ![n] = 0] /\ UNCHANGED meta
  /\ UNCHANGED <<dir, used, pc, mode, fd, locked>>

\* rmdir fails when another call has created a file in the meantime, and any
\* unlink may fail: the hidden remnant then stays for the operator.
FinishRemoval(p) ==
  /\ pc[p] = "removing"
  /\ dir' \in IF listed = {} /\ inode = NoFile /\ meta = None
              THEN {"gone"} ELSE {"hidden"}
  /\ Goto(p, "unlockLease")
  /\ UNCHANGED <<inode, used, meta, listed, mode, fd, locked>>

-------------------------------------------------------------------------------
(* The historical qualifier opens (or creates) the legacy file by path and *)
(* locks it without waiting; it knows nothing else.                        *)

OldOpen(q) ==
  /\ q \in OldQualifier
  /\ pc[q] = "idle"
  /\ dir = "visible"
  /\ OpenExisting(q, "legacy") \/ CreateExclusive(q, "legacy")
  /\ Goto(q, "lockLegacy")
  /\ UNCHANGED <<mode, locked>>

OldLock(q) ==
  /\ q \in OldQualifier
  /\ pc[q] = "lockLegacy"
  /\ TryLock(q, "legacy", "held", "unlockLegacy")

OldRelease(q) ==
  /\ q \in OldQualifier
  /\ pc[q] = "held"
  /\ Goto(q, "unlockLegacy")
  /\ UNCHANGED <<fileVars, mode, fd, locked>>

-------------------------------------------------------------------------------
\* A process that dies loses its descriptors and with them its locks.  The
\* files, the sidecar and a half-removed directory stay as they are.
Crash(p) ==
  /\ pc[p] # "idle"
  /\ Goto(p, "idle")
  /\ locked' = [locked EXCEPT ![p] = {}]
  /\ fd' = [fd EXCEPT ![p] = NoFile]
  /\ UNCHANGED <<fileVars, mode>>

AcquireStep(p) ==
  \/ OpenOrCreateLegacyLock(p) \/ LockLegacy(p) \/ OpenOrCreateLock(p)
  \/ LockLease(p) \/ PublishOwner(p) \/ RecordAcquiredLease(p)
  \/ AcquireFails(p)

InspectStep(p) ==
  \/ OpenExistingLegacyLock(p) \/ ProbeLegacy(p) \/ ProbeOpen(p)
  \/ ProbeLock(p) \/ ProbeRead(p) \/ InspectFails(p)

ReleaseStep(p) == Release(p) \/ UnlockLease(p) \/ UnlockLegacy(p)

RemoveStep(p) ==
  \/ HideDirectory(p) \/ FinishRemoval(p)
  \/ \E n \in Name \cup {"owner"} : Unlink(p, n)

ProcStep(p) ==
  \/ OpenRunDirectory(p)
  \/ AcquireStep(p)
  \/ InspectStep(p)
  \/ ReleaseStep(p)
  \/ RemoveStep(p)

OldStep(q) ==
  \/ OldOpen(q)
  \/ OldLock(q)
  \/ OldRelease(q)
  \/ UnlockLegacy(q)

Next ==
  \/ \E p \in Proc : ProcStep(p)
  \/ \E q \in OldQualifier : OldStep(q)
  \/ \E p \in Holder : Crash(p)

Spec == Init /\ [][Next]_vars

-------------------------------------------------------------------------------
(* Properties.                                                             *)

\* Whoever may mutate the run: a caller between getting its lease and
\* beginning to release it, and an old qualifier between lock and unlock.
Owns(p) == pc[p] \in {"held", "removing"}

\* Two calls never own the run at once, whichever of the two protocols they
\* follow, however calls, crashes and the removal of the directory interleave
\* ("preventing an old and a new process from simultaneously owning the same
\* persisted run").
MutualExclusion == \A p, q \in Holder : Owns(p) /\ Owns(q) => p = q

\* require_acquired_run_lease accepts every lease that has been returned and
\* not released or used for removal: nothing another call does can make a
\* genuine owner lose its authority, and no lease is ever returned for a
\* directory that was renamed away under the acquiring call.
HeldLeaseIsValid == \A p \in Proc : pc[p] = "held" => AuthorityValid(p)

\* "The lease file is never unlinked": while the run is at its path, a lock
\* name that is bound to a file stays bound to that file.
LockFilesStable ==
  [][\A n \in Name : dir' = "visible" /\ inode[n] # 0 => inode'[n] = inode[n]]_vars

\* The protocol implements the abstract ownership it documents.
Ownership ==
  INSTANCE RunOwnership
    WITH owner <- IF \E p \in Holder : Owns(p)
                  THEN CHOOSE p \in Holder : Owns(p) ELSE None,
         present <- dir = "visible"

ImplementsOwnership == Ownership!Spec

-------------------------------------------------------------------------------
(* The inductive invariant behind MutualExclusion and HeldLeaseIsValid.    *)

\* flock: one open file per inode is locked.
LockExclusion ==
  \A p, q \in Holder, n \in Name :
    n \in locked[p] /\ n \in locked[q] /\ fd[p][n] = fd[q][n] => p = q

\* Until the directory is renamed away each name has been bound at most once.
FirstFiles == dir = "visible" => \A n \in Name : used[n] <= 1 /\ inode[n] = used[n]

\* So whatever a call has open then is the first file of that name, and an
\* old qualifier, which opens by path, never has another one.
OpenedFirst ==
  /\ dir = "visible" => \A p \in Holder, n \in Name : fd[p][n] <= used[n]
  /\ \A q \in OldQualifier : fd[q]["legacy"] <= 1

\* What each label says of the caller's descriptors and locks.
LabelsTellLocks ==
  \A p \in Holder :
    /\ pc[p] \in {"idle", "openLegacy", "lockLegacy"} => locked[p] = {}
    /\ pc[p] \in {"openLease", "lockLease", "probeOpen", "probeLock", "unlockLegacy"}
         => "lease" \notin locked[p]
    /\ pc[p] \in {"openLease", "lockLease", "publish", "record"}
         => "legacy" \in locked[p]
    /\ pc[p] \in {"publish", "record"} => "lease" \in locked[p]
    /\ pc[p] = "lockLegacy" => fd[p]["legacy"] >= 1
    /\ \A n \in locked[p] : n # "lease" => fd[p][n] >= 1
    /\ p \in OldQualifier => "lease" \notin locked[p]

\* An owner holds the migration guard on the first legacy file; a current
\* owner holds the shared lock too.
OwnersHoldLocks ==
  \A p \in Holder :
    Owns(p) => /\ "legacy" \in locked[p] /\ fd[p]["legacy"] = 1
               /\ p \in Proc => "lease" \in locked[p]

HeldPathsUnchanged == \A p \in Proc : pc[p] = "held" => PathsUnchanged(p)

\* The directory is only emptied once it has been renamed away.
RemovingIsHidden == \A p \in Holder : pc[p] = "removing" => dir # "visible"

IInv ==
  /\ TypeOK
  /\ LockExclusion
  /\ FirstFiles
  /\ OpenedFirst
  /\ LabelsTellLocks
  /\ OwnersHoldLocks
  /\ HeldPathsUnchanged
  /\ RemovingIsHidden
===============================================================================
