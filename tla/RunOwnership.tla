----------------------------- MODULE RunOwnership -----------------------------
(***************************************************************************)
(* What app/run_lease.py promises its callers, with no file, no lock and   *)
(* no step inside an operation: a persisted run has at most one owner, an  *)
(* owner that follows the current protocol is only ever granted a run whose*)
(* directory is still in place, and only the owner removes the directory.  *)
(* A historical qualifier, which knows one of the two locks, obeys the same*)
(* exclusion but never looks at the directory again.                       *)
(***************************************************************************)
CONSTANTS Proc,      \* operations of the current protocol
          OldQualifier,  \* processes of the historical Azure qualifier
          None       \* "nobody"

VARIABLES owner,     \* the one process that may mutate the run, or None
          present    \* the run's directory is still at its canonical path

vars == <<owner, present>>

Init == owner = None /\ present = TRUE

\* acquire_run_lease returning a lease.
Grant(p) ==
  /\ owner = None
  /\ p \in Proc => present
  /\ owner' = p
  /\ UNCHANGED present

\* RunLease.release, or the death of the owner.
Relinquish ==
  /\ owner # None
  /\ owner' = None
  /\ UNCHANGED present

\* The owner hides the run directory before removing it.
Remove(p) ==
  /\ owner = p
  /\ present
  /\ present' = FALSE
  /\ UNCHANGED owner

Next ==
  \/ \E p \in Proc \cup OldQualifier : Grant(p)
  \/ Relinquish
  \/ \E p \in Proc : Remove(p)

Spec == Init /\ [][Next]_vars
===============================================================================
