--------------------------- MODULE HotelInitialization ---------------------------
(***************************************************************************)
(* run_guarded_hotel_initialization (app/deathstarbench_hotel_             *)
(* controller.py) with GuardedHotelInitializationJournal and the commands  *)
(* of deathstarbench_hotel_live.py: two Pods, created behind a scheduling  *)
(* gate, are released once each, the initializer and then the verifier.    *)
(* Before a gate is removed a latch file is made and an event appended.    *)
(* Nothing is repeated and nothing resumed: any failure leads to cleanup.  *)
(***************************************************************************)
EXTENDS SupportStage

VARIABLES
  machines, \* none, partial, ready, replaced (one of them by another), lingering
  files,    \* the journal: number of events, and the latches
  jobPods,  \* the two Pods
  released  \* how often the gate of each was removed

initialization == <<machines, files, jobPods, released>>

Modes == {"initialize-empty", "verify"}

\* The journal is closed with six events.
Mode == IF files.events <= 3 THEN "initialize-empty" ELSE "verify"

InitializationInit ==
  /\ machines = "none"
  /\ files = [events |-> 0, latches |-> {}]
  /\ jobPods = [m \in Modes |-> "absent"]
  /\ released = [m \in Modes |-> 0]

WithHotel(h) == [candidate EXCEPT !.hotel = h]

\* The identity that a fresh audit of the cloud reads.
Identity == IF machines = "replaced" THEN 2 ELSE 1
AuditPasses == machines \in {"ready", "replaced"}
SameCloud == AuditPasses /\ Identity = candidate.identity

\* audit, storage and observe before and after every step; the Pods are those
\* that were recorded, since Kubernetes names a container that is run again.
Steady == SameCloud /\ StorageObserved /\ CompletedRemain(candidate.stage)

Gated(m) == jobPods[m] = "gated"
Completed(m) == jobPods[m] = "succeeded"
Over(m) == jobPods[m] \in {"succeeded", "failed"}

Cannot == Decline /\ UNCHANGED <<candidate, recorded, setbacks>>

-------------------------------------------------------------------------------
(* The controller.                                                         *)

\* What an earlier attempt left behind is never continued.
StartHotel ==
  /\ at = "hotel"
  /\ IF candidate.hotel = NoHotel /\ files = [events |-> 0, latches |-> {}]
        /\ candidate.stage.state = "ready"
     THEN SaveJob(WithHotel([NoHotel EXCEPT !.state = "preflight"]), "openJournal")
     ELSE /\ at' = "pend" /\ call' = [call EXCEPT !.failure = "error"]
          /\ UNCHANGED <<candidate, recorded, setbacks>>
  /\ UNCHANGED <<guarded, stageCluster, initialization>>

OpenJournal ==
  /\ at = "openJournal"
  /\ IF SameCloud
     THEN SaveJob(candidate, "createPods") /\ files' = [files EXCEPT !.events = 1]
     ELSE Cannot /\ UNCHANGED files
  /\ UNCHANGED <<guarded, stageCluster, machines, jobPods, released>>

BeginPods ==
  /\ at = "createPods"
  /\ IF Steady THEN SaveJob(WithHotel([candidate.hotel EXCEPT !.state = "creating"]), "sendPods") ELSE Cannot
  /\ UNCHANGED <<guarded, stageCluster, initialization>>

\* One attempt: a lost answer is a failure.
CreatePods ==
  /\ at = "sendPods"
  /\ LET gated == [m \in Modes |-> "gated"]
     IN \/ jobPods' = gated /\ GoOn("pinPods")
        \/ jobPods' \in {jobPods, gated} /\ BreakOff
  /\ UNCHANGED <<candidate, recorded, guarded, stageCluster, machines, files, released>>

RecordBlockedPods ==
  /\ at = "pinPods"
  /\ IF Steady
     THEN /\ SaveJob(WithHotel([candidate.hotel EXCEPT !.state = "blocked"]), "gate")
          /\ files' = [files EXCEPT !.events = 2]
     ELSE Cannot /\ UNCHANGED files
  /\ UNCHANGED <<guarded, stageCluster, machines, jobPods, released>>

\* The Pod is still blocked; the verifier also wants the initializer to have
\* succeeded.
CheckGate ==
  /\ at = "gate"
  /\ IF /\ Steady
        /\ Gated(Mode) /\ Gated("verify")
        /\ Mode = "verify" => Completed("initialize-empty")
     THEN GoOn("latch") ELSE Decline /\ UNCHANGED setbacks
  /\ UNCHANGED <<candidate, recorded, guarded, stageCluster, initialization>>

\* Mistake: the event alone is taken for the latch.
MakeLatchNever ==
  /\ at = "latch" /\ GoOn("intent")
  /\ UNCHANGED <<candidate, recorded, guarded, stageCluster, initialization>>

\* record_dispatch_intent makes the latch with O_EXCL and synchronises it ...
MakeLatch ==
  LET latch == [files EXCEPT !.latches = @ \cup {Mode}]
  IN /\ at = "latch"
     /\ \/ Mode \notin files.latches /\ files' = latch /\ GoOn("intent")
        \/ Mode \notin files.latches /\ files' \in {files, latch} /\ BreakOff
        \/ Mode \in files.latches /\ Decline /\ UNCHANGED <<files, setbacks>>
     /\ UNCHANGED <<candidate, recorded, guarded, stageCluster, machines, jobPods, released>>

\* ... and then the event.
RecordIntent ==
  LET event == [files EXCEPT !.events = @ + 1]
  IN /\ at = "intent"
     /\ \/ files' = event /\ GoOn("saveIntent")
        \/ files' \in {files, event} /\ BreakOff
     /\ UNCHANGED <<candidate, recorded, guarded, stageCluster, machines, jobPods, released>>

\* Mistake: the job says no until the exit is known.
SaveIntentOnly ==
  /\ at = "saveIntent"
  /\ SaveJob(WithHotel([candidate.hotel EXCEPT !.state = "intent"]), "release")
  /\ UNCHANGED <<guarded, stageCluster, initialization>>

\* From here on nobody can say that the dataset was not initialized.
SaveIntent ==
  /\ at = "saveIntent"
  /\ SaveJob(WithHotel([candidate.hotel EXCEPT
            !.state = "intent",
            !.executed = IF Mode = "initialize-empty" THEN "unknown" ELSE @]), "release")
  /\ UNCHANGED <<guarded, stageCluster, initialization>>

\* The guest removes the gate only if it is still there.  One attempt.
ReleaseGate ==
  LET m == Mode
      gone == /\ jobPods' = [jobPods EXCEPT ![m] = "released"]
              /\ released' = [released EXCEPT ![m] = @ + 1]
  IN /\ at = "release"
     /\ \/ Gated(m) /\ gone /\ GoOn("poll")
        \/ Gated(m) /\ BreakOff /\ (gone \/ UNCHANGED <<jobPods, released>>)
        \/ ~Gated(m) /\ Decline /\ UNCHANGED <<jobPods, released, setbacks>>
     /\ UNCHANGED <<candidate, recorded, guarded, stageCluster, machines, files>>

AwaitPod ==
  /\ at = "poll"
  /\ Over(Mode) \/ ~Steady
  /\ IF Completed(Mode) /\ Steady THEN GoOn("exit") ELSE Decline /\ UNCHANGED setbacks
  /\ UNCHANGED <<candidate, recorded, guarded, stageCluster, initialization>>

\* The event goes first, the saved job follows it.
RecordExit ==
  LET m == Mode
  IN /\ at = "exit"
     /\ IF Steady
        THEN /\ files' = [files EXCEPT !.events = @ + 1]
             /\ SaveJob(WithHotel([candidate.hotel EXCEPT
                       !.state = "exit",
                       !.executed = IF m = "initialize-empty" THEN "yes" ELSE @]),
                     IF m = "verify" THEN "final" ELSE "gate")
        ELSE Cannot /\ UNCHANGED files
     /\ UNCHANGED <<guarded, stageCluster, machines, jobPods, released>>

FinishHotel ==
  /\ at = "final"
  /\ IF Steady /\ \A m \in Modes : Completed(m)
     THEN SaveJob(WithHotel([candidate.hotel EXCEPT !.state = "verified", !.verified = TRUE]), "validate")
     ELSE Cannot
  /\ UNCHANGED <<guarded, stageCluster, initialization>>

\* The failure is saved if it can be, which a journal whose append has failed
\* forbids; latches stay, and so does what is known of the execution.
FailHotel ==
  LET job == WithHotel([candidate.hotel EXCEPT !.state = "failed", !.verified = FALSE])
  IN /\ at = "failHotel" /\ at' = "pend"
     /\ \/ /\ candidate.hotel # NoHotel /\ candidate' = job
           /\ \/ recorded' = job /\ UNCHANGED setbacks
              \/ recorded' = recorded /\ Setback
        \/ UNCHANGED <<candidate, recorded, setbacks>>
     /\ UNCHANGED <<call, guarded, stageCluster, initialization>>

HotelStep ==
  \/ StartHotel \/ OpenJournal \/ BeginPods \/ CreatePods \/ RecordBlockedPods
  \/ CheckGate \/ MakeLatch \/ RecordIntent \/ SaveIntent \/ ReleaseGate
  \/ AwaitPod \/ RecordExit \/ FinishHotel \/ FailHotel

-------------------------------------------------------------------------------
(* The cluster runs a Pod whose gate is gone.                              *)

PodEnds ==
  /\ machines \in {"ready", "replaced"}
  /\ \E m \in Modes :
       /\ jobPods[m] = "released"
       /\ \/ jobPods' = [jobPods EXCEPT ![m] = "succeeded"] /\ UNCHANGED setbacks
          \/ jobPods' = [jobPods EXCEPT ![m] = "failed"] /\ Setback
  /\ UNCHANGED <<at, candidate, recorded, call, guarded, stageCluster, machines, files, released>>
===============================================================================
