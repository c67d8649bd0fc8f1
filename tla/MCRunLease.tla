------------------------------ MODULE MCRunLease ------------------------------
(***************************************************************************)
(* RunLease with a history variable that remembers, for each inspection,   *)
(* whether the run had no owner at some instant since it began.           *)
(***************************************************************************)
EXTENDS RunLease, TLC

VARIABLE sawFree

mcVars == <<vars, sawFree>>

Unowned == \A q \in Holder : ~Owns(q)

MCInit == Init /\ sawFree = [p \in Proc |-> TRUE]

MCNext ==
  /\ Next
  /\ sawFree' = [p \in Proc |-> Unowned \/ (pc[p] # "idle" /\ sawFree[p])]

\* The calls of the current protocol are interchangeable.
Symmetry == Permutations(Proc)

MCSpec == MCInit /\ [][MCNext]_mcVars

\* The inspection of p is about to answer "unheld": it has both locks, or has
\* found no file to lock.
AnswersUnheld(p) ==
  /\ pc[p] = "probeRead" /\ mode[p] = "inspect"
  /\ \A n \in Name : n \in locked[p] \/ fd[p][n] = 0

\* "unheld" is sound: run_lease_is_definitively_unheld acts on an inspection's
\* answer, and as long as the run is still at its path there was an instant
\* during that inspection at which neither a lease nor an old qualifier owned
\* the run, although its two probes and the reads are separate steps.
UnheldWasTrue ==
  \A p \in Proc : dir = "visible" /\ AnswersUnheld(p) => sawFree[p] \/ Unowned
===============================================================================
