-------------------------- MODULE MeasurementJournal --------------------------
(***************************************************************************)
(* The measurement of a distributed Social Network                         *)
(* (app/deathstarbench_distributed_measurement.py).  The dataset           *)
(* initializer, the warm-up and the measured traffic must not be replayed; *)
(* a journal in the job's resources records each of them before it begins. *)
(* Commands go over SSH and their answers may be lost.  The initializer    *)
(* runs as a systemd unit of the load generator, which is only polled      *)
(* after its dispatch.  An invocation may fail anywhere, and a later       *)
(* invocation may follow, in the same process or after a restart.          *)
(***************************************************************************)
EXTENDS Naturals

CONSTANTS Grace,    \* INITIALIZER_DISPATCH_GRACE_SECONDS, in polls
          Deadline  \* INITIALIZER_POLL_TIMEOUT_SECONDS, in polls

ASSUME ClockAssumption == Grace \in Nat /\ Deadline \in Nat \ {0} /\ Grace <= Deadline

VARIABLES
  warmUp,    \* warmup_seconds is not zero
  pc,        \* where the invocation stands
  memory,    \* journal state and whether results holds the result: the job,
  disk,      \* and state.json
  clock,     \* elapsed time of the reconciliation
  confirmed, \* dispatch_confirmed
  answer,    \* what the dispatch command returned on the load generator
  flights,   \* dispatch commands on their way to it
  unit,      \* the transient unit as systemd shows it
  claimed,   \* initializer.claimed exists
  dataset,   \* the four databases
  traffic,   \* the load command of each phase
  times      \* how often each one-shot command was sent

runner == <<pc, memory, disk, clock, confirmed>>
remote == <<answer, flights, unit, claimed, dataset>>
vars == <<warmUp, runner, remote, traffic, times>>

\* _EXECUTION_STATES, after the state of a job without a journal.
Rank ==
  [none |-> 0, preparing_load_generator |-> 1, load_generator_ready |-> 2,
   initialization_started |-> 3, dataset_ready |-> 4, warmup_started |-> 5,
   warmup_complete |-> 6, measurement_started |-> 7, measurement_complete |-> 8]

JournalState ==
  {"none", "preparing_load_generator", "load_generator_ready", "initialization_started",
   "dataset_ready", "warmup_started", "warmup_complete", "measurement_started",
   "measurement_complete"}

OneShotState(state) == Rank[state] >= Rank["initialization_started"]

Phase == {"warmup", "measurement"}
Step == Phase \cup {"dispatch"}
LatchState ==
  [dispatch |-> "initialization_started", warmup |-> "warmup_started",
   measurement |-> "measurement_started"]

Place ==
  {"idle", "prepare", "probe", "latch", "dispatch", "answer", "poll", "database", "snapshot",
   "sendWarmup", "awaitWarmup", "start", "sendMeasurement", "awaitMeasurement", "attest"}

Job == [journal : JournalState, result : BOOLEAN]

TypeOK ==
  /\ warmUp \in BOOLEAN
  /\ pc \in Place
  /\ memory \in Job /\ disk \in Job
  /\ clock \in 0..Deadline
  /\ confirmed \in BOOLEAN
  /\ answer \in {"none", "accepted", "refused"}
  /\ flights \in Nat
  /\ unit \in {"none", "queued", "running", "succeeded", "failed"}
  /\ claimed \in BOOLEAN
  /\ dataset \in {"empty", "partial", "complete"}
  /\ traffic \in [Phase -> {"none", "sent", "running", "finished", "dead"}]
  /\ times \in [Step -> Nat]

Init ==
  /\ warmUp \in BOOLEAN
  /\ pc = "idle"
  /\ memory = [journal |-> "none", result |-> FALSE]
  /\ disk = memory
  /\ clock = 0
  /\ confirmed = FALSE
  /\ answer = "none" /\ flights = 0 /\ unit = "none" /\ claimed = FALSE
  /\ dataset = "empty"
  /\ traffic = [p \in Phase |-> "none"]
  /\ times = [s \in Step |-> 0]

-------------------------------------------------------------------------------
(* One invocation.                                                         *)

\* _write_journal: the resources of the job, then persist, which may raise.
WriteJournal(state, result, next) ==
  /\ memory' = [journal |-> state, result |-> result]
  /\ \/ disk' = memory' /\ pc' = next
     \/ disk' = disk /\ pc' = "idle"
  /\ UNCHANGED <<warmUp, clock, confirmed, remote, traffic, times>>

Goto(next) ==
  /\ pc' = next
  /\ UNCHANGED <<warmUp, memory, disk, clock, confirmed, remote, traffic, times>>

\* Mistake: only a completed journal is refused.
InvokeUnlessComplete ==
  /\ pc = "idle"
  /\ ~memory.result
  /\ memory.journal # "measurement_complete"
  /\ IF memory.journal = "none"
     THEN WriteJournal("preparing_load_generator", FALSE, "prepare")
     ELSE Goto("prepare")

Invoke ==
  /\ pc = "idle"
  /\ ~memory.result
  /\ ~OneShotState(memory.journal)
  /\ IF memory.journal = "none"
     THEN WriteJournal("preparing_load_generator", FALSE, "prepare")
     ELSE Goto("prepare")

\* A job that was ready once is attested again but its journal is kept.
PrepareLoadGenerator ==
  /\ pc = "prepare"
  /\ IF memory.journal = "load_generator_ready"
     THEN Goto("probe")
     ELSE WriteJournal("load_generator_ready", FALSE, "probe")

ProbeDatabase == pc = "probe" /\ dataset = "empty" /\ Goto("latch")

\* The point of no return.
BeginInitialization ==
  pc = "latch" /\ WriteJournal("initialization_started", FALSE, "dispatch")

Dispatch ==
  /\ pc = "dispatch"
  /\ times' = [times EXCEPT !["dispatch"] = @ + 1]
  /\ flights' = flights + 1
  /\ answer' = "none"
  /\ clock' = 0
  /\ pc' = "answer"
  /\ UNCHANGED <<warmUp, memory, disk, confirmed, unit, claimed, dataset, traffic>>

DispatchConfirmed ==
  /\ pc = "answer" /\ answer = "accepted"
  /\ confirmed' = TRUE
  /\ pc' = "poll"
  /\ UNCHANGED <<warmUp, memory, disk, clock, remote, traffic, times>>

\* Whatever goes wrong with the dispatch, the unit tells what came of it.
DispatchAmbiguous ==
  /\ pc = "answer"
  /\ confirmed' = FALSE
  /\ pc' = "poll"
  /\ UNCHANGED <<warmUp, memory, disk, clock, remote, traffic, times>>

\* Mistake: the deadline starts anew when the connection was lost.
PollFromReconnect ==
  /\ pc = "poll"
  /\ \E seen \in {unit, "nothing"}, now \in clock + 1..Deadline :
       /\ clock' = IF seen = "nothing" THEN 0 ELSE now
       /\ pc' = IF seen = "succeeded" THEN "database"
                ELSE IF \/ seen = "failed"
                        \/ seen = "none" /\ (confirmed \/ now >= Grace)
                        \/ clock' = Deadline
                THEN "idle"
                ELSE "poll"
  /\ UNCHANGED <<warmUp, memory, disk, confirmed, remote, traffic, times>>

\* Mistake: the last poll may come after the deadline.
PollPastDeadline ==
  /\ pc = "poll"
  /\ \E seen \in {unit, "nothing"}, now \in clock + 1..Deadline + 1 :
       /\ clock' = now
       /\ pc' = IF seen = "succeeded" THEN "database"
                ELSE IF \/ seen = "failed"
                        \/ seen = "none" /\ (confirmed \/ now >= Grace)
                        \/ now > Deadline
                THEN "idle"
                ELSE "poll"
  /\ UNCHANGED <<warmUp, memory, disk, confirmed, remote, traffic, times>>

\* One status command; it shows the unit, or its transport fails.
Poll ==
  /\ pc = "poll"
  /\ \E seen \in {unit, "nothing"}, now \in clock + 1..Deadline :
       /\ clock' = now
       /\ pc' = IF seen = "succeeded" THEN "database"
                ELSE IF \/ seen = "failed"
                        \/ seen = "none" /\ (confirmed \/ now >= Grace)
                        \/ now = Deadline
                THEN "idle"
                ELSE "poll"
  /\ UNCHANGED <<warmUp, memory, disk, confirmed, remote, traffic, times>>

AttestDataset ==
  /\ pc = "database" /\ dataset = "complete"
  /\ WriteJournal("dataset_ready", FALSE, "snapshot")

BeginWarmup ==
  /\ pc = "snapshot"
  /\ IF warmUp THEN WriteJournal("warmup_started", FALSE, "sendWarmup") ELSE Goto("start")

Send(phase, from, next) ==
  /\ pc = from
  /\ times' = [times EXCEPT ![phase] = @ + 1]
  /\ traffic' = [traffic EXCEPT ![phase] = "sent"]
  /\ pc' = next
  /\ UNCHANGED <<warmUp, memory, disk, clock, confirmed, remote>>

SendWarmup == Send("warmup", "sendWarmup", "awaitWarmup")

\* Mistake: the warm-up is not counted, so its failure is passed over.
EndWarmupAnyway ==
  /\ pc = "awaitWarmup"
  /\ WriteJournal("warmup_complete", FALSE, "start")

EndWarmup ==
  /\ pc = "awaitWarmup" /\ traffic["warmup"] = "finished"
  /\ WriteJournal("warmup_complete", FALSE, "start")

BeginMeasurement ==
  pc = "start" /\ WriteJournal("measurement_started", FALSE, "sendMeasurement")

SendMeasurement == Send("measurement", "sendMeasurement", "awaitMeasurement")

EndMeasurement ==
  pc = "awaitMeasurement" /\ traffic["measurement"] = "finished" /\ Goto("attest")

\* Mistake: the result is appended after the journal was written.
CompleteThenAppend ==
  /\ pc = "attest"
  /\ memory' = [journal |-> "measurement_complete", result |-> TRUE]
  /\ disk' = [journal |-> "measurement_complete", result |-> FALSE]
  /\ pc' = "idle"
  /\ UNCHANGED <<warmUp, clock, confirmed, remote, traffic, times>>

\* The result and the last journal state are saved together.
Complete == pc = "attest" /\ WriteJournal("measurement_complete", TRUE, "idle")

\* A command, a check or a checkpoint raises, a deadline passes, or a stop
\* request is seen.
Fail == pc # "idle" /\ Goto("idle")

-------------------------------------------------------------------------------
(* The process and the load generator.                                     *)

\* The process ends, and another one loads state.json.
Restart ==
  /\ pc' = "idle"
  /\ memory' = disk
  /\ UNCHANGED <<warmUp, disk, clock, confirmed, remote, traffic, times>>

others == <<warmUp, runner, traffic, times>>

\* durable_initializer_dispatch_command, when it arrives,
RunDispatch ==
  /\ flights > 0
  /\ flights' = flights - 1
  /\ IF unit = "none" /\ ~claimed
     THEN unit' = "queued" /\ answer' = "accepted"
     ELSE answer' = "refused" /\ UNCHANGED unit
  /\ UNCHANGED <<others, claimed, dataset>>

LoseDispatch ==
  /\ flights > 0
  /\ flights' = flights - 1
  /\ UNCHANGED <<others, answer, unit, claimed, dataset>>

\* and _initializer_script.
UnitStarts ==
  /\ unit = "queued"
  /\ IF claimed
     THEN unit' = "failed" /\ UNCHANGED <<claimed, dataset>>
     ELSE unit' = "running" /\ claimed' = TRUE /\ dataset' = "partial"
  /\ UNCHANGED <<others, answer, flights>>

\* The payload checks its counts; what reaches the databases is another matter.
UnitEnds ==
  /\ unit = "running"
  /\ unit' \in {"succeeded", "failed"}
  /\ dataset' \in {"partial", "complete"}
  /\ UNCHANGED <<others, answer, flights, claimed>>

\* _load_command: the container starts, and ends or is killed by its timeout.
TrafficMoves(phase) ==
  /\ \/ traffic[phase] = "sent"
        /\ traffic' = [traffic EXCEPT ![phase] = "running"]
     \/ traffic[phase] = "sent"
        /\ traffic' = [traffic EXCEPT ![phase] = "dead"]
     \/ traffic[phase] = "running"
        /\ \E end \in {"finished", "dead"} : traffic' = [traffic EXCEPT ![phase] = end]
  /\ UNCHANGED <<warmUp, runner, remote, times>>

\* Transient units do not survive a reboot; the claim does.
Reboot ==
  /\ unit' = "none"
  /\ traffic' = [p \in Phase |-> IF traffic[p] = "running" THEN "dead" ELSE traffic[p]]
  /\ UNCHANGED <<warmUp, runner, answer, flights, claimed, dataset, times>>

-------------------------------------------------------------------------------

Work ==
  \/ PrepareLoadGenerator \/ ProbeDatabase \/ BeginInitialization \/ Dispatch
  \/ DispatchConfirmed \/ DispatchAmbiguous \/ Poll \/ AttestDataset \/ BeginWarmup
  \/ SendWarmup \/ EndWarmup \/ BeginMeasurement \/ SendMeasurement \/ EndMeasurement
  \/ Complete

LoadGenerator ==
  \/ RunDispatch \/ LoseDispatch \/ UnitStarts \/ UnitEnds \/ Reboot
  \/ \E phase \in Phase : TrafficMoves(phase)

Next == Invoke \/ Work \/ Fail \/ Restart \/ LoadGenerator

Spec == Init /\ [][Next]_vars

\* An invocation goes on, and a command that is not answered raises at its
\* timeout, except the status command, whose failure Poll takes for no answer.
\* Nothing is assumed of the load generator.
FairSpec == Spec /\ WF_vars(Work) /\ WF_vars(pc # "poll" /\ Fail)

-------------------------------------------------------------------------------
(* Properties.                                                             *)

\* "The execution journal records the point of no return before the first
\* initializing request and refuses every later invocation": the dispatch, the
\* warm-up and the measured traffic are each sent at most once, only after their
\* state has reached the disk, whatever fails, restarts or is lost in between;
\* and no such state is ever taken back.
Promise ==
  INSTANCE OneShot
    WITH latched <- {s \in Step : Rank[disk.journal] >= Rank[LatchState[s]]}

ImplementsOneShot == Promise!Spec

\* Measured traffic never overlaps the warm-up or the initializer, although
\* either of them may go on after its answer was lost.
MeasuredAlone ==
  traffic["measurement"] \in {"sent", "running"} =>
    /\ flights = 0
    /\ unit \notin {"queued", "running"}
    /\ traffic["warmup"] \notin {"sent", "running"}

\* "One persistence operation binds the result and its measurement-complete
\* attestation": on disk there is a result exactly if the journal is complete,
\* and a result comes from one initializer, one finished warm-up if one was asked
\* for, and one finished measurement over a complete dataset.
ResultIsEvidence ==
  /\ disk.result <=> disk.journal = "measurement_complete"
  /\ memory.result \/ disk.result =>
       /\ dataset = "complete"
       /\ traffic["measurement"] = "finished"
       /\ traffic["warmup"] = IF warmUp THEN "finished" ELSE "none"
       /\ times = [s \in Step |-> IF s = "warmup" /\ ~warmUp THEN 0 ELSE 1]

\* An invocation ends, although the load generator may never be heard of again.
InvocationEnds == pc # "idle" ~> pc = "idle"

-------------------------------------------------------------------------------
(* The inductive invariant behind the first three properties.              *)

\* The job in memory is at least as far as the one on disk.
MemoryLeads == Rank[disk.journal] <= Rank[memory.journal]

\* What was sent has its latch on disk, and was sent once.
SentIsLatched ==
  \A s \in Step :
    /\ times[s] \in {0, 1}
    /\ times[s] = 1 => Rank[LatchState[s]] <= Rank[disk.journal]

Saved(state) == memory.journal = state /\ disk.journal = state

\* Each place of an invocation implies what has been journalled.
PlacesTellJournal ==
  /\ pc \in {"prepare", "probe", "latch"} => ~OneShotState(memory.journal)
  /\ pc \in {"dispatch", "answer", "poll", "database"} => Saved("initialization_started")
  /\ pc = "snapshot" => Saved("dataset_ready")
  /\ pc \in {"sendWarmup", "awaitWarmup"} => warmUp /\ Saved("warmup_started")
  /\ pc = "start" => Saved(IF warmUp THEN "warmup_complete" ELSE "dataset_ready")
  /\ pc \in {"sendMeasurement", "awaitMeasurement", "attest"} => Saved("measurement_started")
  /\ pc = "dispatch" => times["dispatch"] = 0
  /\ pc = "sendWarmup" => times["warmup"] = 0
  /\ pc = "sendMeasurement" => times["measurement"] = 0

\* Traffic comes from a command that was sent, and the unit from a dispatch.
EffectsAreSent ==
  /\ \A p \in Phase : times[p] = 0 => traffic[p] = "none"
  /\ times["dispatch"] = 0 => unit = "none" /\ flights = 0
  /\ flights \in {0, 1}
  /\ unit # "none" => flights = 0

Initialized == flights = 0 /\ unit \notin {"queued", "running"}

\* Once the initializer was seen to succeed it has ended, and so has the
\* warm-up once the measurement may begin.
EndedIsEnded ==
  /\ pc \in {"database", "snapshot", "sendWarmup", "awaitWarmup"} => Initialized
  /\ pc \in {"start", "sendMeasurement", "awaitMeasurement", "attest"}
       \/ times["measurement"] = 1
     => Initialized /\ traffic["warmup"] \notin {"sent", "running"}

IInv ==
  /\ TypeOK
  /\ MemoryLeads
  /\ SentIsLatched
  /\ PlacesTellJournal
  /\ EffectsAreSent
  /\ EndedIsEnded
===============================================================================
