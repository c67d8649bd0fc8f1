------------------------------ MODULE SupportStage ------------------------------
(***************************************************************************)
(* prepare_candidate_support_stage (app/deathstarbench_candidate_          *)
(* deployment.py) with the commands of deathstarbench_candidate_k3s.py and *)
(* deathstarbench_candidate_storage.py on the K3s server: storage for the  *)
(* databases, then six phases of manifests, each journaled before and      *)
(* after it is applied.  A process that was killed is resumed: its last    *)
(* apply may still run, and what it applied must still be the same.        *)
(***************************************************************************)
EXTENDS CandidateState

VARIABLES
  live,      \* what the cluster has of each phase: identity, and all of it?
  databases, \* directories: blank, prepared, or opened by the support Pods
  applying,  \* a phase whose apply outlived its caller and holds the lock
  meddled    \* somebody else replaced or deleted something

stageCluster == <<live, databases, applying, meddled>>

Phases == <<"namespace", "storage", "policies", "services", "workloads", "applications">>
StagePhases == {Phases[i] : i \in 1..Len(Phases)}

Nothing == [uid |-> 0, whole |-> FALSE]
EmptyCluster == [p \in StagePhases |-> Nothing]

ClusterInit == live = EmptyCluster /\ databases = "blank" /\ applying = "none" /\ meddled = FALSE

WithStage(s) == [candidate EXCEPT !.stage = s]

AfterApply(p) == [live EXCEPT ![p] = [uid |-> IF @.uid = 0 THEN 1 ELSE @.uid, whole |-> TRUE]]
PartlyApplied(p) == [live EXCEPT ![p].uid = IF @ = 0 THEN 1 ELSE @]
OpenedBy(p) == IF p = "workloads" THEN "opened" ELSE databases

\* The directories are there, each of the run and with its marker.
StorageObserved == databases # "blank"

\* Every object of every phase is there, none is foreign, support Pods are ready
\* and applications have no replica.
WholeSupport == \A p \in StagePhases : live[p].whole

\* _same_resource_identity: what was seen is still there.
SameIdentity(prior, now) == prior.uid = 0 \/ prior.uid = now.uid

\* _require_completed_resource_uids
CompletedRemain(s) == \A i \in 1..Len(s.receipts) : live[Phases[i]].uid = s.receipts[i]

CurrentPhase == Phases[Len(candidate.stage.receipts) + 1]

-------------------------------------------------------------------------------
(* Up to the first phase.                                                  *)

\* A journal with progress is history: ready is revoked before the first command.
OpenStage ==
  LET s == candidate.stage
  IN /\ at = "stage"
     /\ SaveJob(WithStage([s EXCEPT !.state =
               CASE @ \in {"absent", "preflight"} -> "preflight"
                 [] @ = "preparing" -> @
                 [] OTHER -> "revalidating"]),
             "attest")
     /\ UNCHANGED <<guarded, stageCluster>>

\* The cluster, its authority and the volume, then the namespace: the one on
\* record, or none, unless its creation is pending.
AttestTarget ==
  LET s == candidate.stage
      now == live["namespace"].uid
  IN /\ at = "attest"
     /\ IF now \in (IF s.receipts # <<>> THEN {s.receipts[1]}
                   ELSE IF s.pending # {} THEN {0, now} ELSE {0})
        THEN GoOn("storage") ELSE Decline /\ UNCHANGED setbacks
     /\ UNCHANGED <<candidate, recorded, guarded, stageCluster>>

BeginDatabases ==
  LET s == candidate.stage
  IN /\ at = "storage" /\ ~s.prepared
     /\ IF live["namespace"].uid = 0
        THEN SaveJob(WithStage([s EXCEPT !.state = "preparing"]), "prepareStorage")
        ELSE Decline /\ UNCHANGED <<candidate, recorded, setbacks>>
     /\ UNCHANGED <<guarded, stageCluster>>

PrepareDatabases ==
  /\ at = "prepareStorage"
  /\ \/ databases' = "prepared" /\ GoOn("storagePrepared")
     \/ databases' \in {databases, "prepared"} /\ BreakOff
  /\ UNCHANGED <<candidate, recorded, guarded, live, applying, meddled>>

RecordStorage ==
  /\ at = "storagePrepared"
  /\ SaveJob(WithStage([candidate.stage EXCEPT !.state = "storage_prepared", !.prepared = TRUE]), "storage")
  /\ UNCHANGED <<guarded, stageCluster>>

\* The storage is observed, and every phase on record is complete and the same.
RevisitPhases ==
  LET s == candidate.stage
  IN /\ at = "storage" /\ s.prepared
     /\ IF /\ StorageObserved
           /\ \A i \in 1..Len(s.receipts) :
                live[Phases[i]] = [uid |-> s.receipts[i], whole |-> TRUE]
        THEN SaveJob(candidate, "reconcile")
        ELSE Decline /\ UNCHANGED <<candidate, recorded, setbacks>>
     /\ UNCHANGED <<guarded, stageCluster>>

-------------------------------------------------------------------------------
(* A phase.                                                                *)

\* What is there now is recorded before anything is applied.
ReconcilePhase ==
  LET s == candidate.stage
      before == live[CurrentPhase]
  IN /\ at = "reconcile" /\ Len(s.receipts) < Len(Phases)
     /\ IF CompletedRemain(s) /\ \A r \in s.pending : SameIdentity(r, before)
        THEN SaveJob(WithStage([s EXCEPT !.state = "reconciling", !.pending = {before}]),
                  IF before.whole THEN "reconciled" ELSE "apply")
        ELSE Decline /\ UNCHANGED <<candidate, recorded, setbacks>>
     /\ UNCHANGED <<guarded, stageCluster>>

\* Mistake: the phase is on record before it is there.
BeginApplyDone ==
  /\ at = "apply"
  /\ SaveJob(WithStage([candidate.stage EXCEPT !.state = "revalidating", !.receipts = Append(@, 1), !.pending = {}]),
          "reconcile")
  /\ UNCHANGED <<guarded, stageCluster>>

BeginApply ==
  /\ at = "apply"
  /\ SaveJob(WithStage([candidate.stage EXCEPT !.state = "applying"]), "sendPhase")
  /\ UNCHANGED <<guarded, stageCluster>>

\* The command takes the lock or fails, never waits, and wants the namespace
\* first.  Its answer may be lost, and it may go on alone.
SendPhase ==
  LET p == CurrentPhase
      admitted == applying = "none" /\ (p = "namespace" \/ live["namespace"].uid # 0)
  IN /\ at = "sendPhase"
     /\ \/ admitted /\ live' = AfterApply(p) /\ databases' = OpenedBy(p)
           /\ GoOn("reconciled") /\ UNCHANGED applying
        \/ admitted /\ BreakOff
           /\ \/ live' = AfterApply(p) /\ databases' = OpenedBy(p) /\ UNCHANGED applying
              \/ live' \in {live, PartlyApplied(p)} /\ applying' \in {"none", p} /\ UNCHANGED databases
        \/ ~admitted /\ Decline /\ UNCHANGED <<setbacks, live, databases, applying>>
     /\ UNCHANGED <<candidate, recorded, guarded, meddled>>

\* Every earlier phase, and what was seen of this one, is still there.
RecordPhase ==
  LET s == candidate.stage
      after == live[CurrentPhase]
      last == Len(s.receipts) + 1 = Len(Phases)
  IN /\ at = "reconciled"
     /\ IF CompletedRemain(s) /\ after.whole /\ \A r \in s.pending : SameIdentity(r, after)
        THEN SaveJob(WithStage([s EXCEPT !.state = IF last THEN "attesting" ELSE "revalidating",
                                      !.receipts = Append(@, after.uid), !.pending = {}]),
                  "reconcile")
        ELSE Decline /\ UNCHANGED <<candidate, recorded, setbacks>>
     /\ UNCHANGED <<guarded, stageCluster>>

AttestSupport ==
  LET s == candidate.stage
  IN /\ at = "reconcile" /\ Len(s.receipts) = Len(Phases)
     /\ IF CompletedRemain(s) /\ WholeSupport
        THEN SaveJob(WithStage([s EXCEPT !.state = "ready"]), IF guarded THEN "hotel" ELSE "validate")
        ELSE Decline /\ UNCHANGED <<candidate, recorded, setbacks>>
     /\ UNCHANGED <<guarded, stageCluster>>

StageStep ==
  \/ OpenStage \/ AttestTarget \/ BeginDatabases \/ PrepareDatabases \/ RecordStorage
  \/ RevisitPhases \/ ReconcilePhase \/ BeginApply \/ SendPhase \/ RecordPhase \/ AttestSupport

-------------------------------------------------------------------------------
(* The cluster.                                                            *)

\* An apply whose caller is gone ends.
Leftover ==
  /\ applying # "none" /\ applying' = "none"
  /\ \/ (applying = "namespace" \/ live["namespace"].uid # 0)
        /\ live' = AfterApply(applying) /\ databases' = OpenedBy(applying)
     \/ UNCHANGED <<live, databases>>
  /\ UNCHANGED <<state, meddled>>

\* The process dies while its apply runs.
DieApplying ==
  /\ at = "sendPhase" /\ applying = "none" /\ Die
  /\ applying' = CurrentPhase
  /\ UNCHANGED <<live, databases, meddled>>

\* Between two attempts somebody deletes a phase or puts another in its place;
\* what is in a namespace goes with it.
Meddle ==
  /\ at \in Ended \ {"idle"} /\ Setback /\ meddled' = TRUE
  /\ \E p \in StagePhases, new \in {Nothing, [uid |-> 2, whole |-> TRUE]} :
       /\ p = "namespace" \/ live["namespace"].uid # 0
       /\ live' = IF p = "namespace" THEN [EmptyCluster EXCEPT ![p] = new]
                  ELSE [live EXCEPT ![p] = new]
  /\ UNCHANGED <<at, candidate, recorded, call, guarded, databases, applying>>
===============================================================================
