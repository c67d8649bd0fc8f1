------------------------------ MODULE Qualification ------------------------------
(***************************************************************************)
(* The operator's qualification of a distributed provider                  *)
(* (scripts/qualify_*_deathstarbench_distributed.py): a new run, its       *)
(* resumption after a process ended, or cleanup only, each under the lease *)
(* of the run.  A run that is interrupted leaves                           *)
(* qualification-interruption.json, which decides with the measurement     *)
(* journal whether it may be resumed.  Once the runner is entered, it      *)
(* unwinds through cleanup.                                                *)
(***************************************************************************)
EXTENDS Naturals, Sequences, Functions

CONSTANTS
  Interruptions, \* the checkpoints that are injected
  MaxUpsets      \* bound on failures, signals, deaths and damage

VARIABLES
  driver,   \* the script
  point,    \* where the process stands
  command,  \* what it was asked, and what it will report
  trial,    \* its job
  kept,     \* state.json
  pinFile,  \* distributed-provider-pin.json exists
  fleet,    \* what the provider has: none, partial, ready
  evidence, \* qualification-interruption.json
  sent,     \* how often each one-shot step of the measurement was sent
  upsets

Drivers == {"azure", "gcp", "aws_oci"}

\* MEASUREMENT_JOURNAL_STATES, in order, after that of a job without a journal.
Journal ==
  <<"none", "preparing_load_generator", "load_generator_ready", "initialization_started",
    "dataset_ready", "warmup_started", "warmup_complete", "measurement_started",
    "measurement_complete">>

Place(s) == CHOOSE i \in DOMAIN Journal : Journal[i] = s

\* The steps that must not be replayed, by the state that is saved before each.
OneShots == {"initialization_started", "warmup_started", "measurement_started"}

Checkpoints == {"load_generator_ready"} \cup OneShots

\* Mistake: a state that was saved before a step was sent is safe, too.
ReplayableUpTo(s) == Place(s) <= Place("initialization_started")

\* No journal, or a state of SAFE_MEASUREMENT_RESUME_STATES.
Replayable(s) == Place(s) <= Place("load_generator_ready")

TeardownStatuses == {"cleanup_pending", "destroying", "cleanup_failed", "destroyed"}

NewTrial ==
  [status |-> "queued", owns |-> "nothing", journal |-> "none", attested |-> FALSE,
   measured |-> FALSE, interrupted |-> FALSE]

NoAttempt ==
  [mode |-> "none", measure |-> FALSE, checkpoint |-> "none", hard |-> FALSE, signal |-> "none",
   failure |-> "none", setup |-> FALSE, qualified |-> FALSE, evidenceError |-> FALSE,
   exit |-> "none"]

NoEvidence == [source |-> "nobody"]
Damaged == [source |-> "damaged"]

QualificationIdle ==
  /\ driver = "azure" /\ point = "idle" /\ command = NoAttempt /\ trial = NewTrial
  /\ kept = [NewTrial EXCEPT !.status = "unwritten"] /\ pinFile = FALSE /\ fleet = "none"
  /\ evidence = NoEvidence /\ sent = [s \in OneShots |-> 0] /\ upsets = 0

\* What an invocation may command: a checkpoint needs a measurement.
Options ==
  [measure : BOOLEAN, checkpoint : {"none"} \cup (Interruptions \cap Checkpoints), hard : BOOLEAN]

Sensible(a) == /\ a.checkpoint # "none" => a.measure
               /\ a.checkpoint = "none" => ~a.hard

\* What a process begins with: its options, and nothing that has happened yet.
Invoked(m, a) ==
  [NoAttempt EXCEPT !.mode = m, !.measure = a.measure, !.checkpoint = a.checkpoint, !.hard = a.hard]

QualificationInit ==
  /\ driver \in Drivers /\ point = "create"
  /\ \E a \in Options : Sensible(a) /\ command = Invoked("new", a)
  /\ trial = NewTrial /\ kept = [NewTrial EXCEPT !.status = "unwritten"] /\ pinFile = FALSE
  /\ fleet = "none" /\ evidence = NoEvidence
  /\ sent = [s \in OneShots |-> 0] /\ upsets = 0

-------------------------------------------------------------------------------
(* Failures.                                                               *)

Upset == upsets < MaxUpsets /\ upsets' = upsets + 1

\* The body of the runner's try statement.
TryBody == {"begin", "admit", "own", "provision", "runtime", "paths", "measure", "checkpoint",
         "send", "check", "report", "qualify"}

\* An exception ends the process with a traceback.  The runner has no clause for
\* what its finally clause raises; cleanup-only finalizes the evidence on the way
\* out, but not on Azure.
Escapes ==
  /\ point' = IF command.mode = "cleanup" /\ driver # "azure" /\ point # "keep"
              THEN "late" ELSE "ended"
  /\ command' = [command EXCEPT !.exit = "traceback"]

\* An exception during the cleanup is a failed cleanup.
Retains(a) == point' = "undone" /\ command' = a

\* How an exception of kind f is handled by a process whose memory is a.
Raised(f, a) ==
  CASE point \in TryBody -> point' = "caught" /\ command' = [a EXCEPT !.failure = f]
    [] point = "caught" -> point' = "unwind" /\ command' = a
    [] point = "record" -> point' = "cleanup" /\ command' = [a EXCEPT !.signal = "lost"]
    [] point \in {"announce", "cleanup", "destroy", "proved"} /\ f = "cancelled" ->
         Retains([a EXCEPT !.failure = IF @ = "none" THEN f ELSE @])
    [] point = "proved" /\ f = "error" -> Retains(a) \/ (driver # "aws_oci" /\ Escapes)
    [] OTHER -> Escapes

\* persist_job_state: a new file replaces the old one; a failure may leave either.
SaveTrial(job, next) ==
  /\ trial' = job
  /\ \/ kept' = job /\ point' = next /\ UNCHANGED <<command, upsets>>
     \/ kept' \in {kept, job} /\ Upset /\ Raised("error", command)

\* Somewhere at work something fails.
Breaks ==
  /\ point \in TryBody /\ Upset /\ Raised("error", command)
  /\ UNCHANGED <<driver, trial, kept, pinFile, fleet, evidence, sent>>

\* Where the handlers of SIGINT and SIGTERM are installed.  Cleanup-only on Azure
\* has none: there a signal is the end.
Handled ==
  \/ command.mode \in {"new", "resume"} /\ point \in TryBody \cup {"caught", "unwind", "record"}
  \/ (command.mode # "cleanup" \/ driver # "azure")
     /\ point \in {"announce", "cleanup", "destroy", "proved", "undone", "late", "keep", "finalize"}

\* The first number is kept.  The handler raises until cleanup has returned.
Signal ==
  /\ Handled /\ Upset
  /\ LET a == [command EXCEPT !.signal = IF @ = "none" THEN "pending" ELSE @]
     IN IF point \notin {"late", "keep", "finalize"} THEN Raised("cancelled", a) ELSE point' = point /\ command' = a
  /\ UNCHANGED <<driver, trial, kept, pinFile, fleet, evidence, sent>>

\* The process is killed.
Killed ==
  /\ point \notin {"idle", "ended"} /\ Upset
  /\ point' = "ended" /\ command' = [NoAttempt EXCEPT !.exit = "killed"] /\ trial' = NewTrial
  /\ UNCHANGED <<driver, kept, pinFile, fleet, evidence, sent>>

\* Somebody edits or truncates the evidence.
Damage ==
  /\ evidence \notin {NoEvidence, Damaged} /\ point = "ended" /\ Upset
  /\ evidence' = Damaged
  /\ UNCHANGED <<driver, point, command, trial, kept, pinFile, fleet, sent>>

-------------------------------------------------------------------------------
(* The evidence of an interruption.                                        *)

Written == evidence \notin {NoEvidence, Damaged}

AtSignal ==
  [source |-> "signal", checkpoint |-> "none", hard |-> FALSE, state |-> trial.journal,
   later |-> "no", cleanup |-> "pending", recovery |-> "not_required"]

\* Mistake: a later signal takes the place of the origin.
LatestSignal == IF evidence = Damaged THEN evidence ELSE AtSignal

\* The origin is kept; the first signal after it has fields of its own.
WithSignal ==
  CASE evidence = NoEvidence -> AtSignal
    [] Written /\ evidence.later = "no" -> [evidence EXCEPT !.later = trial.journal]
    [] OTHER -> evidence

AtCheckpoint ==
  [source |-> "checkpoint", checkpoint |-> command.checkpoint, hard |-> command.hard,
   state |-> trial.journal, later |-> "no",
   cleanup |-> IF command.hard THEN "not_attempted_process_exit" ELSE "pending",
   recovery |-> IF command.hard THEN "pending" ELSE "not_required"]

Recovering(outcome) == IF Written THEN [evidence EXCEPT !.recovery = outcome] ELSE evidence

\* What _validated_interruption_evidence accepts.
Readable(e) ==
  /\ e.state \in Range(Journal) /\ e.later \in Range(Journal) \cup {"no"}
  /\ CASE e.source = "checkpoint" -> e.checkpoint = e.state /\ e.checkpoint \in Checkpoints
       [] e.source = "signal" -> e.checkpoint = "none" /\ ~e.hard
       [] OTHER -> FALSE

\* The state that the last interruption on record left.
EvidenceState(e) == IF e.later = "no" THEN e.state ELSE e.later

-------------------------------------------------------------------------------
(* Invocations.                                                            *)

\* The directory is private and leased before state.json is published.
NewJob ==
  /\ point = "create"
  /\ SaveTrial(trial, IF driver = "aws_oci" THEN "pin" ELSE "begin")
  /\ UNCHANGED <<driver, pinFile, fleet, evidence, sent>>

\* What every later invocation uses is on disk before anything is created.
WriteProviderPin ==
  /\ point = "pin"
  /\ \/ pinFile' = TRUE /\ point' = "begin" /\ UNCHANGED <<command, upsets>>
     \/ pinFile' \in BOOLEAN /\ Upset /\ Escapes
  /\ UNCHANGED <<driver, trial, kept, fleet, evidence, sent>>

\* Saved jobs of these scripts, which the pin of AWS and OCI belongs to.
Loadable == kept.status # "unwritten" /\ (driver = "aws_oci" => pinFile)

\* The measurement journal of the saved job and the evidence both allow it.
Resumable(a) ==
  /\ kept.status \notin TeardownStatuses /\ kept.owns # "nothing"
  /\ kept.journal # "none" => a.measure /\ Replayable(kept.journal)

EvidenceAllows(a) ==
  \/ evidence = NoEvidence
  \/ /\ Written /\ a.checkpoint = "none"
     /\ Replayable(EvidenceState(evidence)) /\ kept.journal = EvidenceState(evidence)

\* All is checked, also whether options, lock and pin are the saved ones, before
\* the runner is entered, which would clean up: a refusal leaves the fleet alone.
Resume ==
  /\ point = "ended" /\ Loadable
  /\ \E a \in Options, same \in BOOLEAN :
       /\ Sensible(a)
       /\ IF same /\ Resumable(a) /\ EvidenceAllows(a)
          THEN /\ point' = "begin" /\ command' = Invoked("resume", a) /\ trial' = kept
               /\ UNCHANGED evidence
          ELSE /\ command' = [NoAttempt EXCEPT !.mode = "resume", !.exit = "2"]
               /\ evidence' = Recovering("resume_refused")
               /\ UNCHANGED <<point, trial>>
  /\ UNCHANGED <<driver, kept, pinFile, fleet, sent, upsets>>

CleanupOnly ==
  /\ point = "ended" /\ Loadable /\ kept.status # "destroyed"
  /\ point' = "announce" /\ trial' = kept /\ command' = [NoAttempt EXCEPT !.mode = "cleanup"]
  /\ UNCHANGED <<driver, kept, pinFile, fleet, evidence, sent, upsets>>

\* Evidence that cannot be read or written does not stop the cleanup on Azure and
\* GCP; on AWS and OCI it does.
Announce ==
  /\ point = "announce"
  /\ \/ evidence # Damaged /\ evidence' = Recovering("cleanup_only_started")
        /\ point' = "cleanup" /\ UNCHANGED <<command, upsets>>
     \/ /\ \/ evidence = Damaged /\ UNCHANGED <<evidence, upsets>>
           \/ Written /\ Upset /\ evidence' \in {evidence, Recovering("cleanup_only_started")}
        /\ point' = IF driver = "aws_oci" THEN "late" ELSE "cleanup"
        /\ command' = [command EXCEPT !.evidenceError = TRUE]
  /\ UNCHANGED <<driver, trial, kept, pinFile, fleet, sent>>

-------------------------------------------------------------------------------
(* The runner.                                                             *)

EnterRunner ==
  /\ point = "begin"
  /\ LET e == IF command.mode = "resume" THEN Recovering("resume_started") ELSE evidence
     IN \/ /\ evidence' = e /\ point' = "admit" /\ UNCHANGED upsets
           /\ command' = [command EXCEPT !.setup = TRUE]
        \/ Upset /\ evidence' \in {evidence, e} /\ Raised("error", command)
  /\ UNCHANGED <<driver, trial, kept, pinFile, fleet, sent>>

Admit ==
  /\ point = "admit" /\ SaveTrial([trial EXCEPT !.status = "provisioning"], "own")
  /\ UNCHANGED <<driver, pinFile, fleet, evidence, sent>>

\* The provider saves the contract of the graph before it creates anything, ...
Own ==
  /\ point = "own" /\ SaveTrial([trial EXCEPT !.owns = "owned"], "provision")
  /\ UNCHANGED <<driver, pinFile, fleet, evidence, sent>>

\* ... and adopts what it finds.
ProvisionFleet ==
  /\ point = "provision"
  /\ \/ fleet = "none" /\ fleet' = "partial" /\ UNCHANGED <<point, trial, kept, command, upsets>>
     \/ /\ fleet \in {"partial", "ready"} /\ fleet' = "ready"
        /\ SaveTrial([trial EXCEPT !.status = "testing"], "runtime")
  /\ UNCHANGED <<driver, pinFile, evidence, sent>>

\* K3s and the Social Network; see PipelineRun.
PrepareWorkload ==
  /\ point = "runtime" /\ point' = "paths"
  /\ UNCHANGED <<driver, command, trial, kept, pinFile, fleet, evidence, sent, upsets>>

\* The network evidence is saved once; different evidence is refused.
QualifyNetworkPaths ==
  /\ point = "paths"
  /\ LET next == IF command.measure THEN "measure" ELSE "qualify"
     IN IF trial.attested
        THEN point' = next /\ UNCHANGED <<command, trial, kept, upsets>>
        ELSE SaveTrial([trial EXCEPT !.attested = TRUE], next)
  /\ UNCHANGED <<driver, pinFile, fleet, evidence, sent>>

\* Each state of the journal is saved, then the checkpoint is called, then the
\* step is sent.
Advance ==
  /\ point = "measure" /\ ~trial.measured
  /\ LET s == Journal[Place(trial.journal) + 1]
     IN SaveTrial([trial EXCEPT !.journal = s, !.measured = s = "measurement_complete"],
             CASE s \in Checkpoints -> "checkpoint"
               [] s = "measurement_complete" -> "check"
               [] OTHER -> "measure")
  /\ UNCHANGED <<driver, pinFile, fleet, evidence, sent>>

GoPast ==
  /\ point = "checkpoint" /\ trial.journal # command.checkpoint
  /\ point' = IF trial.journal \in OneShots THEN "send" ELSE "measure"
  /\ UNCHANGED <<driver, command, trial, kept, pinFile, fleet, evidence, sent, upsets>>

\* The injected interruption: evidence, once; then a cancellation, or the end of
\* the process.
InjectInterruption ==
  /\ point = "checkpoint" /\ trial.journal = command.checkpoint
  /\ \/ /\ evidence = NoEvidence /\ evidence' = AtCheckpoint /\ UNCHANGED upsets
        /\ IF command.hard
           THEN point' = "ended" /\ command' = [NoAttempt EXCEPT !.exit = "86"] /\ trial' = NewTrial
           ELSE Raised("cancelled", command) /\ UNCHANGED trial
     \/ /\ evidence # NoEvidence /\ Raised("error", command) /\ UNCHANGED <<trial, evidence, upsets>>
     \/ /\ evidence = NoEvidence /\ Upset /\ evidence' \in {evidence, AtCheckpoint}
        /\ Raised("error", command) /\ UNCHANGED trial
  /\ UNCHANGED <<driver, kept, pinFile, fleet, sent>>

SendOnce ==
  /\ point = "send" /\ sent' = [sent EXCEPT ![trial.journal] = @ + 1] /\ point' = "measure"
  /\ UNCHANGED <<driver, command, trial, kept, pinFile, fleet, evidence, upsets>>

\* Gates that are stricter than the parser's (see Breaks), and no mark of an
\* interruption in the saved job.
RequireResult ==
  /\ point = "check" /\ trial.journal = "measurement_complete"
  /\ IF trial.interrupted THEN Raised("error", command) ELSE point' = "report" /\ UNCHANGED command
  /\ UNCHANGED <<driver, trial, kept, pinFile, fleet, evidence, sent, upsets>>

Report ==
  /\ point = "report" /\ SaveTrial([trial EXCEPT !.status = "reporting"], "qualify")
  /\ UNCHANGED <<driver, pinFile, fleet, evidence, sent>>

\* The event that says so may fail.
Qualify ==
  /\ point = "qualify"
  /\ LET a == [command EXCEPT !.qualified = TRUE]
     IN \/ point' = "unwind" /\ command' = a /\ UNCHANGED upsets
        \/ Upset /\ Raised("error", a)
  /\ UNCHANGED <<driver, trial, kept, pinFile, fleet, evidence, sent>>

-------------------------------------------------------------------------------
(* Its end.                                                                *)

\* A result that is complete stays complete.
Marked(job) == [job EXCEPT !.interrupted = @ \/ ~job.measured]

Catch ==
  /\ point = "caught"
  /\ LET job == IF command.failure = "cancelled" THEN Marked(trial) ELSE trial
     IN SaveTrial([job EXCEPT !.status = "cleanup_pending"], "unwind")
  /\ UNCHANGED <<driver, pinFile, fleet, evidence, sent>>

SaveMark ==
  /\ point = "unwind"
  /\ CASE command.signal = "none" -> point' = "cleanup" /\ UNCHANGED <<command, trial, kept, upsets>>
       [] command.signal # "none" /\ driver # "aws_oci" -> SaveTrial(Marked(trial), "record")
       [] OTHER -> point' = "record" /\ trial' = Marked(trial) /\ UNCHANGED <<command, kept, upsets>>
  /\ UNCHANGED <<driver, pinFile, fleet, evidence, sent>>

\* A failure is printed; the last step of all tries again.
RecordSignal(next) ==
  \/ evidence # Damaged /\ evidence' = WithSignal /\ UNCHANGED upsets
     /\ point' = next /\ command' = [command EXCEPT !.signal = "recorded"]
  \/ /\ \/ evidence = Damaged /\ UNCHANGED <<evidence, upsets>>
        \/ Upset /\ evidence' \in {evidence, WithSignal}
     /\ point' = next
     /\ command' = [command EXCEPT !.signal = "lost", !.evidenceError = TRUE]

Record ==
  /\ point = "record" /\ RecordSignal("cleanup")
  /\ UNCHANGED <<driver, trial, kept, pinFile, fleet, sent>>

Cleanup ==
  /\ point = "cleanup"
  /\ IF trial.owns = "nothing"
     THEN SaveTrial([trial EXCEPT !.status = "destroyed"], "late")
     ELSE SaveTrial([trial EXCEPT !.status = "destroying"], "destroy")
  /\ UNCHANGED <<driver, pinFile, fleet, evidence, sent>>

\* The provider deletes and proves absence, or fails on the way.
Destroy ==
  /\ point = "destroy"
  /\ \/ fleet' = "none" /\ point' = "proved" /\ UNCHANGED upsets
     \/ Upset /\ point' = "undone" /\ fleet' \in {fleet, IF fleet = "none" THEN "none" ELSE "partial"}
  /\ UNCHANGED <<driver, command, trial, kept, pinFile, evidence, sent>>

\* Journals and network evidence stay in the resources.
SaveDestroyed ==
  /\ point = "proved" /\ SaveTrial([trial EXCEPT !.status = "destroyed", !.owns = "retained"], "late")
  /\ UNCHANGED <<driver, pinFile, fleet, evidence, sent>>

SaveFailed ==
  /\ point = "undone" /\ SaveTrial([trial EXCEPT !.status = "cleanup_failed"], "late")
  /\ UNCHANGED <<driver, pinFile, fleet, evidence, sent>>

\* Handlers no longer raise.  A signal that came during cleanup is recorded, here
\* or, by the runner of AWS and OCI, with the outcome.
LateSignal ==
  /\ point = "late"
  /\ IF command.signal = "pending" /\ (driver # "aws_oci" \/ command.mode = "cleanup")
     THEN \/ RecordSignal("keep") /\ trial' = Marked(trial) /\ UNCHANGED kept
     ELSE point' = "finalize" /\ UNCHANGED <<command, trial, kept, evidence, upsets>>
  /\ UNCHANGED <<driver, pinFile, fleet, sent>>

KeepLateSignal ==
  /\ point = "keep" /\ SaveTrial(trial, "finalize")
  /\ UNCHANGED <<driver, pinFile, fleet, evidence, sent>>

Clean == trial.status = "destroyed" /\ command.exit # "traceback"

RecoveryOutcome ==
  IF command.mode = "cleanup" THEN IF Clean THEN "cleanup_completed" ELSE "cleanup_failed"
  ELSE IF command.qualified THEN "resume_completed"
  ELSE IF command.setup THEN "resume_failed" ELSE "resume_refused"

Outcomes(e) ==
  IF e \in {NoEvidence, Damaged} THEN e
  ELSE [e EXCEPT !.cleanup = IF Clean THEN "completed" ELSE "failed",
                 !.recovery = IF command.mode = "new" THEN @ ELSE RecoveryOutcome]

ExitStatus(a) ==
  IF a.exit = "traceback" THEN a.exit
  ELSE IF ~Clean \/ (a.mode = "cleanup" /\ a.evidenceError) THEN "2"
  ELSE IF a.signal # "none" THEN "128+n"
  ELSE IF a.mode = "cleanup" THEN "0"
  ELSE IF a.failure = "cancelled" THEN "130"
  ELSE IF a.failure = "error" \/ ~a.qualified THEN "1" ELSE "0"

EndWith(a) == point' = "ended" /\ command' = [a EXCEPT !.exit = ExitStatus(a)]

\* The signal that is not recorded yet, and the outcomes, in one file.
Finalize ==
  /\ point = "finalize"
  /\ LET open == command.signal \in {"pending", "lost"}
         e == IF open THEN WithSignal ELSE evidence
         job == IF open THEN Marked(trial) ELSE trial
         failed == [command EXCEPT !.evidenceError = TRUE,
                                   !.failure = IF @ = "none" THEN "error" ELSE @]
     IN /\ trial' = job
        /\ \/ /\ evidence # Damaged /\ evidence' = Outcomes(e) /\ UNCHANGED upsets
              /\ kept' = IF open THEN job ELSE kept
              /\ EndWith([command EXCEPT !.signal = IF open THEN "recorded" ELSE @])
           \/ evidence = Damaged /\ EndWith(failed) /\ UNCHANGED <<kept, evidence, upsets>>
           \/ /\ Upset /\ evidence' \in {evidence, e, Outcomes(e)} /\ evidence # Damaged
              /\ kept' \in {kept, IF open THEN job ELSE kept} /\ EndWith(failed)
  /\ UNCHANGED <<driver, pinFile, fleet, sent>>

QualificationStep ==
  \/ NewJob \/ WriteProviderPin \/ Announce
  \/ EnterRunner \/ Admit \/ Own \/ ProvisionFleet \/ PrepareWorkload \/ QualifyNetworkPaths
  \/ Advance \/ GoPast \/ InjectInterruption \/ SendOnce \/ RequireResult \/ Report \/ Qualify
  \/ Catch \/ SaveMark \/ Record \/ Cleanup \/ Destroy \/ SaveDestroyed \/ SaveFailed
  \/ LateSignal \/ KeepLateSignal \/ Finalize

Upsets == Breaks \/ Signal \/ Killed \/ Damage

QualificationNext == QualificationStep \/ Resume \/ CleanupOnly \/ Upsets

qualification == <<driver, point, command, trial, kept, pinFile, fleet, evidence, sent, upsets>>

\* A process goes on; cleanup is asked for until it is proved.
QualificationSpec ==
  /\ QualificationInit /\ [][QualificationNext]_qualification
  /\ WF_qualification(QualificationStep) /\ WF_qualification(CleanupOnly)

-------------------------------------------------------------------------------
(* Properties.                                                             *)

\* An exit status that does not command for another cleanup means that nothing is
\* left, and success that all that was asked for was done, each step of a measurement
\* once.  Whatever is left can be cleaned up by a later process: it is owned by a job
\* that loads.  Evidence says that cleanup was completed only if it was, and evidence
\* that only the program wrote can be read.
FleetIsProved ==
  /\ fleet # "none" => Loadable /\ kept.owns = "owned"
  /\ kept.status = "destroyed" => fleet = "none"
  /\ point = "ended" /\ command.exit \in {"0", "1", "130", "128+n"} =>
       fleet = "none" /\ kept.status = "destroyed"
  /\ point = "ended" /\ command.exit = "0" /\ command.mode # "cleanup" =>
       /\ command.qualified /\ command.signal = "none"
       /\ command.measure =>
            kept.measured /\ ~kept.interrupted /\ \A s \in OneShots : sent[s] = 1
       /\ Written => evidence.cleanup = "completed" /\ evidence.recovery = "resume_completed"
  /\ Written => Readable(evidence) /\ (evidence.cleanup = "completed" => fleet = "none")

\* A step replaces neither the origin of an interruption nor the first signal after
\* it, and does not send again what the evidence forbids.
KeepsOrigin ==
  /\ Written /\ evidence' # Damaged =>
       /\ evidence'.source = evidence.source /\ evidence'.checkpoint = evidence.checkpoint
       /\ evidence'.hard = evidence.hard /\ evidence'.state = evidence.state
       /\ evidence.later # "no" => evidence'.later = evidence.later
  /\ sent' # sent /\ Written => Replayable(EvidenceState(evidence))

\* The evidence of an interruption is written for good, whichever signals, saves and
\* processes come after it.
OriginIsKept == [][KeepsOrigin]_qualification

\* The one-shot steps, also when a process resumes what another one began.
OneShotJournal ==
  INSTANCE OneShot WITH
    Step <- OneShots, times <- sent,
    latched <- {s \in OneShots : Place(kept.journal) >= Place(s)}

QualifiesOnce == OneShotJournal!Spec

\* With upsets that come to an end nothing is left, unless the evidence of a run
\* on AWS or OCI was damaged.
QualificationEnds ==
  \/ /\ point = "ended" /\ fleet = "none"
     /\ kept.status \in {"unwritten", "destroyed"} \/ ~Loadable
  \/ driver = "aws_oci" /\ evidence = Damaged

\* "Damaged retained evidence never blocks cloud cleanup, but it keeps the
\* qualification exit nonzero." (docs/deathstarbench-distributed.md)
DamageNeverBlocksCleanup ==
  point = "ended" /\ command.mode = "cleanup" /\ command.exit = "2" /\ evidence = Damaged =>
    kept.status \in {"destroying", "destroyed", "cleanup_failed"}
===============================================================================
