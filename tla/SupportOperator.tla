----------------------------- MODULE SupportOperator -----------------------------
(***************************************************************************)
(* run_candidate_support_operator (app/deathstarbench_candidate_           *)
(* operator.py) as qualify_deathstarbench_candidate_support.py calls it,   *)
(* with CandidateCloud: a new run, the resumption of one whose process was *)
(* killed, or cleanup only.  Once a run is accepted every way out leads    *)
(* through cleanup, which archives the journal of the stage, deletes what  *)
(* was provisioned and proves from a copy of its record that it is gone.   *)
(***************************************************************************)
EXTENDS HotelInitialization

candidateRun == <<state, stageCluster, initialization>>

CandidateInit == StateInit /\ ClusterInit /\ InitializationInit
CandidateIdle == NoCandidate /\ ClusterInit /\ InitializationInit

With(s) == [candidate EXCEPT !.state = s]

\* Mistake: a state is forgotten.
TeardownStatesShort == {"cleaning", "cleanup_complete", "cleanup_failed"}

\* Validated history of these states is not resumed.
TeardownStates == {"cleanup_pending", "cleaning", "cleanup_complete", "cleanup_failed"}

-------------------------------------------------------------------------------
(* Modes.                                                                  *)

\* A private directory, the lease, the pins, the first state, the artifacts.
Allocate ==
  /\ at = "allocate" /\ SaveJob(candidate, "accept")
  /\ UNCHANGED <<guarded, stageCluster, initialization>>

Accept ==
  /\ at = "accept" /\ SaveJob(With("accepted"), "provision")
  /\ UNCHANGED <<guarded, stageCluster, initialization>>

\* After the death of a process; Hotel is never resumed.
StartResume ==
  /\ at = "down"
  /\ ~guarded /\ recorded.state \notin {"unwritten", "queued"} \cup TeardownStates
  /\ at' = "verify" /\ candidate' = recorded /\ call' = NoCall
  /\ UNCHANGED <<recorded, guarded, setbacks, stageCluster, initialization>>

\* The cloud is audited before anything is written: a refusal is left to cleanup.
AcceptResume ==
  /\ at = "verify"
  /\ IF AuditPasses /\ candidate.identity \in {0, Identity}
     THEN SaveJob([With("accepted") EXCEPT !.proof = FALSE], "adopt")
     ELSE Cannot
  /\ UNCHANGED <<guarded, stageCluster, initialization>>

StartCleanup ==
  /\ at \in {"down", "refused", "returned"}
  /\ recorded.state \notin {"unwritten", "queued"} /\ ~recorded.proof
  /\ at' = "pend" /\ candidate' = recorded
  /\ call' = [NoCall EXCEPT !.cleanupOnly = TRUE]
  /\ UNCHANGED <<recorded, guarded, setbacks, stageCluster, initialization>>

-------------------------------------------------------------------------------
(* Work.                                                                   *)

BeginProvisioning ==
  /\ at = "provision" /\ SaveJob(With("provisioning"), "contract")
  /\ UNCHANGED <<guarded, stageCluster, initialization>>

\* The provider saves what it is about to create.
SaveContract ==
  /\ at = "contract" /\ SaveJob([candidate EXCEPT !.contract = "active"], "create")
  /\ UNCHANGED <<guarded, stageCluster, initialization>>

Provision ==
  /\ at = "create"
  /\ \/ machines = "none" /\ machines' = "partial" /\ UNCHANGED at
     \/ machines = "partial" /\ machines' = "ready" /\ at' = "adopt"
  /\ UNCHANGED <<candidate, recorded, call, guarded, setbacks, stageCluster, files, jobPods, released>>

\* The audited identity is saved before the runtime is prepared, ...
AdoptCloud ==
  /\ at = "adopt"
  /\ IF AuditPasses
     THEN SaveJob([With("preparing_runtime") EXCEPT !.identity = Identity], "prepare")
     ELSE Cannot
  /\ UNCHANGED <<guarded, stageCluster, initialization>>

\* ... and must be the same afterwards.
PrepareRuntime ==
  /\ at = "prepare"
  /\ IF SameCloud THEN SaveJob(With("staging_support"), "stage") ELSE Cannot
  /\ UNCHANGED <<guarded, stageCluster, initialization>>

ObserveSupport ==
  /\ at = "validate"
  /\ IF candidate.stage.state = "ready" /\ (guarded => candidate.hotel.verified)
     THEN SaveJob(With("support_observed"), "pend")
     ELSE Cannot
  /\ UNCHANGED <<guarded, stageCluster, initialization>>

-------------------------------------------------------------------------------
(* Cleanup.  A failure is kept and the next part goes ahead; a signal is   *)
(* kept too.                                                               *)

CleanupFails(next) == at' = next /\ call' = [call EXCEPT !.cleanupFailed = TRUE]

\* Saves the job and goes on either way.
SaveOr(job, next, otherwise) ==
  /\ candidate' = job
  /\ \/ recorded' = job /\ at' = next /\ UNCHANGED <<call, setbacks>>
     \/ recorded' \in {recorded, job} /\ Setback /\ CleanupFails(otherwise)

BeginTeardown ==
  /\ at = "pend"
  /\ SaveOr([With("cleanup_pending") EXCEPT !.proof = FALSE], "archive", "clean")
  /\ UNCHANGED <<guarded, stageCluster, initialization>>

\* Mistake: the key is removed before its value is archived.
ArchiveAfterRemoval ==
  /\ at = "archive"
  /\ SaveOr([candidate EXCEPT !.stage = NoStage], "removeKey", "clean")
  /\ UNCHANGED <<guarded, stageCluster, initialization>>

\* The journal of the stage is evidence: it is archived, not overwritten, ...
ArchiveStage ==
  LET s == candidate.stage
      kept == candidate.archive
  IN /\ at = "archive"
     /\ CASE s = NoStage -> at' = "clean" /\ UNCHANGED <<candidate, recorded, call, setbacks>>
          [] s # NoStage /\ kept \in {NoStage, s} ->
               SaveOr([candidate EXCEPT !.archive = s], "removeKey", "clean")
          [] OTHER -> CleanupFails("clean") /\ UNCHANGED <<candidate, recorded, setbacks>>
     /\ UNCHANGED <<guarded, stageCluster, initialization>>

\* ... and then leaves the resources.
RemoveStage ==
  /\ at = "removeKey"
  /\ SaveOr([candidate EXCEPT !.stage = NoStage], "clean", "clean")
  /\ UNCHANGED <<guarded, stageCluster, initialization>>

BeginCleaning ==
  /\ at = "clean" /\ SaveOr(With("cleaning"), "source", "source")
  /\ UNCHANGED <<guarded, stageCluster, initialization>>

\* Mistake: every pass makes its own copy.
SaveSourceAnew ==
  /\ at = "source"
  /\ SaveOr([candidate EXCEPT !.source = candidate.contract], "delete", "finish")
  /\ UNCHANGED <<guarded, stageCluster, initialization>>

\* Before the first deletion what has to be absent at the end is saved, once.
SaveSource ==
  /\ at = "source"
  /\ IF candidate.source = "none"
     THEN SaveOr([candidate EXCEPT !.source = candidate.contract], "delete", "finish")
     ELSE at' = "delete" /\ UNCHANGED <<candidate, recorded, call, setbacks>>
  /\ UNCHANGED <<guarded, stageCluster, initialization>>

\* Azure deletes nothing whose identity is not the audited one.
RefuseReplaced ==
  /\ at = "delete" /\ candidate.contract = "active" /\ machines = "replaced"
  /\ CleanupFails("finish")
  /\ UNCHANGED <<candidate, recorded, guarded, setbacks, stageCluster, initialization>>

\* The provider deletes what is on record.  A deletion may fail half way, or seem
\* done too early.
Delete ==
  /\ at = "delete"
  /\ \/ candidate.contract # "active" /\ at' = "absence" /\ UNCHANGED <<call, setbacks, machines, live, databases, applying>>
     \/ candidate.contract = "active" /\ Setback /\ CleanupFails("finish")
           /\ machines' = (IF machines = "none" THEN "none" ELSE "partial")
           /\ live' = EmptyCluster /\ databases' = "blank" /\ applying' = "none"
     \/ candidate.contract = "active"
           /\ \/ machines' = "none" /\ UNCHANGED setbacks
              \/ machines # "none" /\ machines' = "lingering" /\ Setback
           /\ live' = EmptyCluster /\ databases' = "blank" /\ applying' = "none"
           /\ at' = "clear" /\ UNCHANGED call
  /\ UNCHANGED <<candidate, recorded, guarded, meddled, files, jobPods, released>>

\* It leaves its terminal marker in place of the record.
ClearContract ==
  /\ at = "clear" /\ SaveOr([candidate EXCEPT !.contract = "cleared"], "absence", "finish")
  /\ UNCHANGED <<guarded, stageCluster, initialization>>

\* Absence is read again for everything the copy names, and the record must be
\* in its terminal form, without the journal of the stage.
ProveAbsence ==
  /\ at = "absence"
  /\ \/ /\ candidate.source = "active" => machines = "none"
        /\ candidate.stage = NoStage
        /\ at' = "finish" /\ call' = [call EXCEPT !.proved = TRUE] /\ UNCHANGED setbacks
     \/ /\ (candidate.source = "active" /\ machines # "none") \/ candidate.stage # NoStage
        /\ CleanupFails("finish") /\ UNCHANGED setbacks
     \/ Setback /\ CleanupFails("finish")
  /\ UNCHANGED <<candidate, recorded, guarded, stageCluster, initialization>>

Complete == call.proved /\ ~call.cleanupFailed

Finish ==
  /\ at = "finish"
  /\ SaveOr([With(IF Complete THEN "cleanup_complete" ELSE "cleanup_failed") EXCEPT !.proof = Complete],
            "late", "late")
  /\ UNCHANGED <<guarded, stageCluster, initialization>>

ExitCode ==
  CASE ~Complete -> "2"
    [] Complete /\ call.signal -> "128+n"
    [] Complete /\ ~call.signal /\ call.failure = "interrupted" -> "130"
    [] Complete /\ ~call.signal /\ call.failure = "error" -> "1"
    [] OTHER -> "0"

\* A first signal during the last save is saved once more.
Return ==
  /\ at = "late" /\ at' = "returned"
  /\ \/ call' = [call EXCEPT !.exit = ExitCode] /\ UNCHANGED setbacks
     \/ /\ call.signal /\ call.failure = "none" /\ Setback
        /\ call' = [call EXCEPT !.exit = "2"]
  /\ UNCHANGED <<candidate, recorded, guarded, stageCluster, initialization>>

\* Signals no longer raise.
Defer ==
  /\ at \in Teardown /\ ~call.signal /\ Setback
  /\ call' = [call EXCEPT !.signal = TRUE]
  /\ UNCHANGED <<at, candidate, recorded, guarded, stageCluster, initialization>>

OperatorStep ==
  \/ Allocate \/ Accept \/ AcceptResume
  \/ BeginProvisioning \/ SaveContract \/ Provision \/ AdoptCloud \/ PrepareRuntime
  \/ StageStep /\ UNCHANGED initialization
  \/ HotelStep \/ ObserveSupport
  \/ BeginTeardown \/ ArchiveStage \/ RemoveStage \/ BeginCleaning
  \/ SaveSource \/ RefuseReplaced \/ Delete \/ ClearContract \/ ProveAbsence \/ Finish \/ Return

-------------------------------------------------------------------------------
(* What happens around it.                                                 *)

\* What was deleted is gone at last.
Settle ==
  /\ machines = "lingering" /\ machines' = "none"
  /\ UNCHANGED <<state, stageCluster, files, jobPods, released>>

\* A resource of the run is taken away and another put in its place.
Replace ==
  /\ machines = "ready" /\ Setback
  /\ machines' = "replaced" /\ meddled' = TRUE
  /\ UNCHANGED <<at, candidate, recorded, call, guarded, live, databases, applying, files, jobPods, released>>

Around ==
  \/ (Interrupt \/ Die) /\ UNCHANGED <<stageCluster, initialization>>
  \/ DieApplying /\ UNCHANGED initialization
  \/ Leftover /\ UNCHANGED initialization
  \/ (machines = "ready" /\ Meddle) /\ UNCHANGED initialization
  \/ Defer \/ Replace

CandidateStep ==
  \/ OperatorStep \/ StartResume \/ StartCleanup \/ Around \/ Settle \/ PodEnds

-------------------------------------------------------------------------------
(* Properties.                                                             *)

\* The record says that cleanup is complete only when nothing is left and the
\* journal of the stage is archived; no exit but 2 says less; success means that
\* support, and Hotel where it was asked for, was observed.  While something is
\* left, state.json lets cleanup begin and names what has to go.
CandidateIsProved ==
  /\ recorded.proof => machines = "none" /\ recorded.stage = NoStage
  /\ at = "returned" /\ call.exit # "2" => recorded.proof
  /\ at = "returned" /\ call.exit = "0" =>
       /\ recorded.archive.state = "ready" \/ call.cleanupOnly
       /\ guarded /\ ~call.cleanupOnly => recorded.hotel.verified
  /\ machines # "none" =>
       /\ recorded.state \notin {"unwritten", "queued"}
       /\ "active" \in {recorded.contract, recorded.source}

\* What state.json says of phases, storage and the Hotel dataset has happened: a
\* phase that was applied is there unless somebody took it, support is ready in
\* the process only with every phase the one on record, the dataset was not
\* touched where it says so, was loaded where it says so, and was verified after.
RecordsAreEvidence ==
  LET intact(s) == \A i \in 1..Len(s.receipts) :
                     live[Phases[i]] = [uid |-> s.receipts[i], whole |-> TRUE]
      h == recorded.hotel
  IN /\ machines = "ready" /\ ~meddled => intact(recorded.stage) /\ intact(candidate.stage)
     /\ at \in HotelPlaces \cup {"validate"} /\ machines = "ready" =>
          candidate.stage.state = "ready" /\ intact(candidate.stage)
     /\ h.executed = "no" => released["initialize-empty"] = 0
     /\ h.executed = "yes" => jobPods["initialize-empty"] = "succeeded"
     /\ h.verified => jobPods["verify"] = "succeeded"
     /\ released["verify"] > 0 => jobPods["initialize-empty"] = "succeeded"

\* The journal of the stage leaves state.json only when a copy is there, the copy
\* stays as it is, latches stay, and directories that support Pods have opened
\* are not prepared again.
StageEvidenceIsKept ==
  [][/\ recorded.stage # NoStage /\ recorded'.stage = NoStage => recorded'.archive = recorded.stage
     /\ recorded.archive # NoStage => recorded'.archive = recorded.archive
     /\ files.latches \subseteq files'.latches
     /\ databases = "opened" /\ databases' # "opened" => live' = EmptyCluster]_candidateRun

\* The initializer and the verifier run at most once, each after its latch.
Dispatch == INSTANCE OneShot WITH Step <- Modes, latched <- files.latches, times <- released

InitializesOnce == Dispatch!Spec

\* With setbacks that come to an end, what was provisioned is proved to be gone,
\* unless somebody replaced it; what was never accepted has nothing to lose.
CleanedUp ==
  \/ at \in Ended /\ (recorded.proof \/ recorded.state \in {"unwritten", "queued"})
  \/ meddled
===============================================================================
