----------------------- MODULE MeasurementJournalProofs -----------------------
(***************************************************************************)
(* TLAPS proofs about MeasurementJournal, for any grace and deadline.  The *)
(* argument: an invocation starts only below the one-shot states, climbs   *)
(* them one by one and stops where a save fails; so where it sends a       *)
(* one-shot command the disk has just reached the latch of that command,   *)
(* and a command that was sent before would have had it there already.     *)
(***************************************************************************)
EXTENDS MeasurementJournal, TLAPS

-------------------------------------------------------------------------------
(* The order of the journal states.                                        *)

LEMMA Ranks ==
  /\ Rank["none"] = 0 /\ Rank["preparing_load_generator"] = 1
  /\ Rank["load_generator_ready"] = 2 /\ Rank["initialization_started"] = 3
  /\ Rank["dataset_ready"] = 4 /\ Rank["warmup_started"] = 5
  /\ Rank["warmup_complete"] = 6 /\ Rank["measurement_started"] = 7
  /\ Rank["measurement_complete"] = 8
BY DEF Rank

LEMMA Climb ==
  /\ Rank["initialization_started"] <= Rank["dataset_ready"]
  /\ Rank["dataset_ready"] <= Rank["warmup_started"]
  /\ Rank["warmup_started"] <= Rank["warmup_complete"]
  /\ Rank["dataset_ready"] <= Rank["measurement_started"]
  /\ Rank["warmup_complete"] <= Rank["measurement_started"]
  /\ Rank["measurement_started"] <= Rank["measurement_complete"]
BY Ranks

LEMMA RankType == \A state \in JournalState : Rank[state] \in 0..8
BY Ranks DEF JournalState

LEMMA LatchRanks ==
  /\ LatchState["dispatch"] = "initialization_started"
  /\ LatchState["warmup"] = "warmup_started"
  /\ LatchState["measurement"] = "measurement_started"
BY DEF LatchState

LEMMA Steps == Step = {"dispatch", "warmup", "measurement"}
BY DEF Step, Phase

-------------------------------------------------------------------------------
(* Type correctness.                                                       *)

LEMMA InitType == Init => TypeOK
<1> SUFFICES ASSUME Init PROVE TypeOK
  OBVIOUS
<1>1. memory \in Job /\ disk \in Job
  BY DEF Init, Job, JournalState
<1>5. pc \in Place
  BY DEF Init, Place
<1>2. traffic \in [Phase -> {"none", "sent", "running", "finished", "dead"}]
  BY DEF Init
<1>3. times \in [Step -> Nat]
  BY DEF Init
<1>4. clock \in 0..Deadline
  BY ClockAssumption DEF Init
<1>6. QED
  BY <1>1, <1>2, <1>3, <1>4, <1>5 DEF Init, TypeOK

LEMMA WriteType ==
  ASSUME TypeOK, NEW state \in JournalState, NEW result \in BOOLEAN, NEW next \in Place,
         WriteJournal(state, result, next)
  PROVE  TypeOK'
<1>1. memory' \in Job
  BY DEF WriteJournal, Job
<1>2. disk' \in Job /\ pc' \in Place
  BY <1>1 DEF WriteJournal, TypeOK, Place
<1>3. QED
  BY <1>1, <1>2 DEF WriteJournal, TypeOK, remote

LEMMA GotoType ==
  ASSUME TypeOK, NEW next \in Place, Goto(next)
  PROVE  TypeOK'
BY DEF TypeOK, Goto, remote

LEMMA NextType == TypeOK /\ [Next]_vars => TypeOK'
<1> SUFFICES ASSUME TypeOK, [Next]_vars PROVE TypeOK'
  OBVIOUS
<1> USE WriteType, GotoType
<1>1. CASE Invoke
  BY <1>1 DEF Invoke, JournalState, Place
<1>2. CASE PrepareLoadGenerator \/ ProbeDatabase \/ BeginInitialization
  BY <1>2 DEF PrepareLoadGenerator, ProbeDatabase, BeginInitialization, JournalState, Place
<1>3. CASE Dispatch
  <2>1. times' \in [Step -> Nat]
    BY <1>3 DEF Dispatch, TypeOK, Step
  <2>2. flights' \in Nat /\ clock' \in 0..Deadline
    BY <1>3, ClockAssumption DEF Dispatch, TypeOK
  <2>3. QED
    BY <1>3, <2>1, <2>2 DEF Dispatch, TypeOK, Place
<1>4. CASE DispatchConfirmed \/ DispatchAmbiguous
  BY <1>4 DEF DispatchConfirmed, DispatchAmbiguous, TypeOK, Place, remote
<1>5. CASE Poll
  <2>1. clock' \in 0..Deadline
    BY <1>5, ClockAssumption DEF Poll, TypeOK
  <2>2. pc' \in {"database", "idle", "poll"}
    BY <1>5 DEF Poll
  <2>3. QED
    BY <1>5, <2>1, <2>2 DEF Poll, TypeOK, Place, remote
<1>6. CASE AttestDataset
  BY <1>6 DEF AttestDataset, JournalState, Place
<1>7. CASE BeginWarmup
  BY <1>7 DEF BeginWarmup, JournalState, Place
<1>8. CASE EndWarmup \/ BeginMeasurement \/ EndMeasurement
  BY <1>8 DEF EndWarmup, BeginMeasurement, EndMeasurement, JournalState, Place
<1>9. ASSUME NEW phase \in Phase, NEW from \in Place, NEW next \in Place,
             Send(phase, from, next)
      PROVE  TypeOK'
  <2>1. times' \in [Step -> Nat]
    BY <1>9 DEF Send, TypeOK, Step
  <2>2. traffic' \in [Phase -> {"none", "sent", "running", "finished", "dead"}]
    BY <1>9 DEF Send, TypeOK
  <2>3. QED
    BY <1>9, <2>1, <2>2 DEF Send, TypeOK, remote
<1>10. CASE SendWarmup \/ SendMeasurement
  BY <1>9, <1>10 DEF SendWarmup, SendMeasurement, Phase, Place
<1>11. CASE Complete \/ Fail
  BY <1>11 DEF Complete, Fail, JournalState, Place
<1>12. CASE Restart
  BY <1>12 DEF Restart, TypeOK, Place, remote
<1>13. CASE RunDispatch \/ LoseDispatch
  <2>1. flights' \in Nat
    BY <1>13 DEF RunDispatch, LoseDispatch, TypeOK
  <2>2. QED
    BY <1>13, <2>1 DEF RunDispatch, LoseDispatch, TypeOK, others, runner
<1>14. CASE UnitStarts \/ UnitEnds
  BY <1>14 DEF UnitStarts, UnitEnds, TypeOK, others, runner
<1>15. CASE Reboot
  BY <1>15 DEF Reboot, TypeOK, runner
<1>16. ASSUME NEW phase \in Phase, TrafficMoves(phase) PROVE TypeOK'
  BY <1>16 DEF TrafficMoves, TypeOK, runner, remote
<1>17. CASE UNCHANGED vars
  BY <1>17 DEF vars, TypeOK, runner, remote
<1>18. QED
  BY <1>1, <1>2, <1>3, <1>4, <1>5, <1>6, <1>7, <1>8, <1>10, <1>11, <1>12, <1>13, <1>14,
     <1>15, <1>16, <1>17
     DEF Next, Work, LoadGenerator

\* Every variable of the measurement stays within its type, for any deadline.
THEOREM MeasurementTypeCorrect == Spec => []TypeOK
<1>1. QED
  BY InitType, NextType, PTL DEF Spec

-------------------------------------------------------------------------------
(* The inductive invariant.                                                *)

LEMMA InitInv == Init => IInv
<1> SUFFICES ASSUME Init PROVE IInv
  OBVIOUS
<1>1. TypeOK
  BY InitType
<1>2. MemoryLeads /\ PlacesTellJournal
  BY Ranks DEF Init, MemoryLeads, PlacesTellJournal
<1>3. SentIsLatched /\ EffectsAreSent /\ EndedIsEnded
  BY Steps DEF Init, SentIsLatched, EffectsAreSent, EndedIsEnded, Initialized, Phase
<1>4. QED
  BY <1>1, <1>2, <1>3 DEF IInv

\* Journal writes that move the disk forward keep what was sent latched.
LEMMA ForwardKeepsLatches ==
  ASSUME IInv, TypeOK', UNCHANGED times, Rank[disk.journal] <= Rank[disk'.journal]
  PROVE  SentIsLatched'
<1> SUFFICES ASSUME NEW s \in Step
             PROVE  /\ times'[s] \in {0, 1}
                    /\ times'[s] = 1 => Rank[LatchState[s]] <= Rank[disk'.journal]
  BY DEF SentIsLatched
<1>1. /\ times[s] \in {0, 1}
      /\ times[s] = 1 => Rank[LatchState[s]] <= Rank[disk.journal]
  BY DEF IInv, SentIsLatched
<1>2. Rank[LatchState[s]] \in 0..8 /\ Rank[disk.journal] \in 0..8 /\ Rank[disk'.journal] \in 0..8
  <2>1. disk.journal \in JournalState /\ disk'.journal \in JournalState
    BY DEF IInv, TypeOK, Job
  <2>2. LatchState[s] \in JournalState
    BY Steps, LatchRanks DEF JournalState
  <2>3. QED
    BY <2>1, <2>2, RankType
<1>3. QED
  BY <1>1, <1>2

\* A save from a place where the journal is known.
LEMMA WriteForward ==
  ASSUME IInv, NEW state \in JournalState, NEW result \in BOOLEAN, NEW next \in Place,
         WriteJournal(state, result, next),
         Rank[memory.journal] <= Rank[state]
  PROVE  TypeOK' /\ MemoryLeads' /\ SentIsLatched'
<1>1. TypeOK'
  BY WriteType DEF IInv
<1>2. Rank[disk.journal] \in 0..8 /\ Rank[memory.journal] \in 0..8 /\ Rank[state] \in 0..8
  BY RankType DEF IInv, TypeOK, Job
<1>3. Rank[disk.journal] <= Rank[state]
  BY <1>2 DEF IInv, MemoryLeads
<1>4. memory'.journal = state /\ (disk'.journal = state \/ disk' = disk)
  BY DEF WriteJournal
<1>5. Rank[disk.journal] <= Rank[disk'.journal] /\ MemoryLeads'
  BY <1>2, <1>3, <1>4 DEF MemoryLeads
<1>6. QED
  BY <1>1, <1>5, ForwardKeepsLatches DEF WriteJournal

\* A save either ends the invocation or leaves the same journal in both places.
LEMMA WriteOutcome ==
  ASSUME NEW state, NEW result, NEW next, WriteJournal(state, result, next)
  PROVE  /\ UNCHANGED <<warmUp, remote, traffic, times>>
         /\ memory'.journal = state
         /\ pc' = "idle" \/ (pc' = next /\ disk'.journal = state)
BY DEF WriteJournal

LEMMA GotoKeeps ==
  ASSUME IInv, NEW next \in Place, Goto(next)
  PROVE  TypeOK' /\ MemoryLeads' /\ SentIsLatched' /\ EffectsAreSent'
<1>1. TypeOK'
  BY GotoType DEF IInv
<1>2. QED
  BY <1>1 DEF Goto, IInv, MemoryLeads, SentIsLatched, EffectsAreSent, remote

\* What has not reached the disk has not been sent.
LEMMA NotLatchedNotSent ==
  ASSUME IInv, NEW s \in Step, Rank[disk.journal] < Rank[LatchState[s]]
  PROVE  times[s] = 0
<1>1. Rank[disk.journal] \in 0..8 /\ Rank[LatchState[s]] \in 0..8
  <2>1. disk.journal \in JournalState /\ LatchState[s] \in JournalState
    BY Steps, LatchRanks DEF IInv, TypeOK, Job, JournalState
  <2>2. QED
    BY <2>1, RankType
<1>2. times[s] \in {0, 1} /\ (times[s] = 1 => Rank[LatchState[s]] <= Rank[disk.journal])
  BY DEF IInv, SentIsLatched
<1>3. QED
  BY <1>1, <1>2

\* Before the first one-shot state nothing has been sent.
LEMMA EarlyNothingSent ==
  ASSUME IInv, ~OneShotState(memory.journal)
  PROVE  \A s \in Step : times[s] = 0
<1>1. Rank[disk.journal] \in 0..8 /\ Rank[memory.journal] \in 0..8
  BY RankType DEF IInv, TypeOK, Job
<1>2. Rank[disk.journal] < 3
  BY <1>1, Ranks DEF IInv, MemoryLeads, OneShotState
<1>3. \A s \in Step : Rank[disk.journal] < Rank[LatchState[s]]
  BY <1>1, <1>2, Ranks, LatchRanks, Steps
<1>4. QED
  BY <1>3, NotLatchedNotSent

LEMMA InvokeInv == IInv /\ Invoke => IInv'
<1> SUFFICES ASSUME IInv, Invoke PROVE IInv'
  OBVIOUS
<1>1. TypeOK' /\ MemoryLeads' /\ SentIsLatched'
  <2>1. CASE memory.journal = "none"
    <3>1. Rank[memory.journal] <= Rank["preparing_load_generator"]
      BY <2>1, Ranks
    <3>2. WriteJournal("preparing_load_generator", FALSE, "prepare")
      BY <2>1 DEF Invoke
    <3>3. QED
      BY <3>1, <3>2, WriteForward DEF JournalState, Place
  <2>2. CASE memory.journal # "none"
    BY <2>2, GotoKeeps DEF Invoke, Place
  <2>3. QED
    BY <2>1, <2>2
<1>2. UNCHANGED <<warmUp, remote, traffic, times>> /\ pc' \in {"idle", "prepare"}
  BY DEF Invoke, WriteJournal, Goto
<1>3. EffectsAreSent' /\ EndedIsEnded'
  BY <1>2 DEF IInv, EffectsAreSent, EndedIsEnded, Initialized, remote
<1>4. ~OneShotState(memory'.journal)
  BY Ranks DEF Invoke, WriteJournal, Goto, OneShotState
<1>5. PlacesTellJournal'
  BY <1>2, <1>4 DEF PlacesTellJournal, OneShotState
<1>6. QED
  BY <1>1, <1>3, <1>5 DEF IInv

LEMMA PrepareInv == IInv /\ PrepareLoadGenerator => IInv'
<1> SUFFICES ASSUME IInv, PrepareLoadGenerator PROVE IInv'
  OBVIOUS
<1>1. ~OneShotState(memory.journal)
  BY DEF IInv, PlacesTellJournal, PrepareLoadGenerator
<1>2. TypeOK' /\ MemoryLeads' /\ SentIsLatched'
  <2>1. CASE memory.journal = "load_generator_ready"
    BY <2>1, GotoKeeps DEF PrepareLoadGenerator, Place
  <2>2. CASE memory.journal # "load_generator_ready"
    <3>1. Rank[memory.journal] <= Rank["load_generator_ready"]
      BY <1>1, Ranks DEF IInv, TypeOK, Job, JournalState, OneShotState
    <3>2. QED
      BY <2>2, <3>1, WriteForward DEF PrepareLoadGenerator, JournalState, Place
  <2>3. QED
    BY <2>1, <2>2
<1>3. UNCHANGED <<warmUp, remote, traffic, times>> /\ pc' \in {"idle", "probe"}
  BY DEF PrepareLoadGenerator, WriteJournal, Goto
<1>4. EffectsAreSent' /\ EndedIsEnded'
  BY <1>3 DEF IInv, EffectsAreSent, EndedIsEnded, Initialized, remote
<1>5. ~OneShotState(memory'.journal)
  BY Ranks DEF PrepareLoadGenerator, WriteJournal, Goto, OneShotState
<1>6. PlacesTellJournal'
  BY <1>3, <1>5 DEF PlacesTellJournal, OneShotState
<1>7. QED
  BY <1>2, <1>4, <1>6 DEF IInv

LEMMA BeginInitializationInv == IInv /\ BeginInitialization => IInv'
<1> SUFFICES ASSUME IInv, BeginInitialization PROVE IInv'
  OBVIOUS
<1>1. ~OneShotState(memory.journal)
  BY DEF IInv, PlacesTellJournal, BeginInitialization
<1>2. times["dispatch"] = 0
  BY <1>1, EarlyNothingSent, Steps
<1>3. Rank[memory.journal] <= Rank["initialization_started"]
  <2>1. Rank[memory.journal] \in 0..8
    BY RankType DEF IInv, TypeOK, Job
  <2>2. QED
    BY <1>1, <2>1, Ranks DEF OneShotState
<1>4. TypeOK' /\ MemoryLeads' /\ SentIsLatched'
  BY <1>3, WriteForward DEF BeginInitialization, JournalState, Place
<1>5. /\ UNCHANGED <<warmUp, remote, traffic, times>>
      /\ memory'.journal = "initialization_started"
      /\ pc' = "idle" \/ (pc' = "dispatch" /\ disk'.journal = "initialization_started")
  BY WriteOutcome DEF BeginInitialization
<1>6. EffectsAreSent' /\ EndedIsEnded'
  BY <1>5 DEF IInv, EffectsAreSent, EndedIsEnded, Initialized, remote
<1>7. PlacesTellJournal'
  BY <1>2, <1>5 DEF PlacesTellJournal, Saved
<1>8. QED
  BY <1>4, <1>6, <1>7 DEF IInv

LEMMA WriteKeeps ==
  ASSUME IInv, NEW old \in JournalState, Saved(old),
         NEW state \in JournalState, NEW result \in BOOLEAN, NEW next \in Place,
         WriteJournal(state, result, next), Rank[old] <= Rank[state]
  PROVE  TypeOK' /\ MemoryLeads' /\ SentIsLatched' /\ EffectsAreSent'
<1>1. TypeOK' /\ MemoryLeads' /\ SentIsLatched'
  BY WriteForward DEF Saved
<1>2. EffectsAreSent'
  BY WriteOutcome DEF IInv, EffectsAreSent, remote
<1>3. QED
  BY <1>1, <1>2

LEMMA ProbeInv == IInv /\ ProbeDatabase => IInv'
<1> SUFFICES ASSUME IInv, ProbeDatabase PROVE IInv'
  OBVIOUS
<1>1. TypeOK' /\ MemoryLeads' /\ SentIsLatched' /\ EffectsAreSent'
  BY GotoKeeps DEF ProbeDatabase, Place
<1>2. PlacesTellJournal' /\ EndedIsEnded'
  BY DEF ProbeDatabase, Goto, IInv, PlacesTellJournal, EndedIsEnded, Initialized, remote,
         OneShotState
<1>3. QED
  BY <1>1, <1>2 DEF IInv

\* The measurement has not been sent where the journal is below its latch.
LEMMA BelowMeasurement ==
  ASSUME IInv, disk.journal \in {"initialization_started", "dataset_ready", "warmup_started",
                                 "warmup_complete"}
  PROVE  times["measurement"] = 0
BY NotLatchedNotSent, Ranks, LatchRanks, Steps

LEMMA DispatchInv == IInv /\ Dispatch => IInv'
<1> SUFFICES ASSUME IInv, Dispatch PROVE IInv'
  OBVIOUS
<1>1. TypeOK'
  BY NextType DEF IInv, Next, Work
<1>2. /\ Saved("initialization_started")
      /\ times["dispatch"] = 0 /\ flights = 0 /\ unit = "none"
  BY DEF IInv, PlacesTellJournal, Dispatch, EffectsAreSent
<1>3. times["measurement"] = 0
  BY <1>2, BelowMeasurement DEF Saved
<1>4. /\ times' = [times EXCEPT !["dispatch"] = 1]
      /\ \A s \in Step : times'[s] = IF s = "dispatch" THEN 1 ELSE times[s]
  BY <1>2, Steps DEF Dispatch, IInv, TypeOK
<1>5. MemoryLeads' /\ PlacesTellJournal'
  BY <1>2 DEF Dispatch, IInv, MemoryLeads, PlacesTellJournal, Saved
<1>6. SentIsLatched'
  BY <1>2, <1>4, Ranks, LatchRanks DEF Dispatch, IInv, SentIsLatched, Saved
<1>7. EffectsAreSent'
  BY <1>2, <1>4, Steps DEF Dispatch, IInv, EffectsAreSent, Phase
<1>8. EndedIsEnded'
  BY <1>3, <1>4, Steps DEF Dispatch, EndedIsEnded
<1>9. QED
  BY <1>1, <1>5, <1>6, <1>7, <1>8 DEF IInv

LEMMA AnswerInv == IInv /\ (DispatchConfirmed \/ DispatchAmbiguous) => IInv'
<1> SUFFICES ASSUME IInv, DispatchConfirmed \/ DispatchAmbiguous PROVE IInv'
  OBVIOUS
<1>1. TypeOK'
  BY NextType DEF IInv, Next, Work
<1>2. /\ pc = "answer" /\ pc' = "poll"
      /\ UNCHANGED <<warmUp, memory, disk, remote, traffic, times>>
  BY DEF DispatchConfirmed, DispatchAmbiguous
<1>3. MemoryLeads' /\ SentIsLatched' /\ EffectsAreSent'
  BY <1>2 DEF IInv, MemoryLeads, SentIsLatched, EffectsAreSent, remote
<1>4. PlacesTellJournal' /\ EndedIsEnded'
  BY <1>2 DEF IInv, PlacesTellJournal, EndedIsEnded, Initialized, remote, Saved
<1>5. QED
  BY <1>1, <1>3, <1>4 DEF IInv

LEMMA PollInv == IInv /\ Poll => IInv'
<1> SUFFICES ASSUME IInv, Poll PROVE IInv'
  OBVIOUS
<1>1. TypeOK'
  BY NextType DEF IInv, Next, Work
<1>2. /\ pc = "poll"
      /\ UNCHANGED <<warmUp, memory, disk, remote, traffic, times>>
  BY DEF Poll
<1>3. pc' \in {"idle", "poll"} \/ (pc' = "database" /\ unit = "succeeded")
  BY DEF Poll
<1>4. MemoryLeads' /\ SentIsLatched' /\ EffectsAreSent'
  BY <1>2 DEF IInv, MemoryLeads, SentIsLatched, EffectsAreSent, remote
<1>5. PlacesTellJournal'
  BY <1>2, <1>3 DEF IInv, PlacesTellJournal, Saved
<1>6. EndedIsEnded'
  BY <1>2, <1>3 DEF IInv, EffectsAreSent, EndedIsEnded, Initialized, remote
<1>7. QED
  BY <1>1, <1>4, <1>5, <1>6 DEF IInv

LEMMA AttestInv == IInv /\ AttestDataset => IInv'
<1> SUFFICES ASSUME IInv, AttestDataset PROVE IInv'
  OBVIOUS
<1>1. Saved("initialization_started") /\ Initialized
  BY DEF IInv, PlacesTellJournal, EndedIsEnded, AttestDataset
<1>2. TypeOK' /\ MemoryLeads' /\ SentIsLatched' /\ EffectsAreSent'
  BY <1>1, Climb, WriteKeeps DEF AttestDataset, JournalState, Place
<1>3. /\ UNCHANGED <<warmUp, remote, traffic, times>>
      /\ memory'.journal = "dataset_ready"
      /\ pc' = "idle" \/ (pc' = "snapshot" /\ disk'.journal = "dataset_ready")
  BY WriteOutcome DEF AttestDataset
<1>4. PlacesTellJournal' /\ EndedIsEnded'
  BY <1>1, <1>3 DEF IInv, PlacesTellJournal, EndedIsEnded, Initialized, remote, Saved
<1>5. QED
  BY <1>2, <1>4 DEF IInv

LEMMA BeginWarmupInv == IInv /\ BeginWarmup => IInv'
<1> SUFFICES ASSUME IInv, BeginWarmup PROVE IInv'
  OBVIOUS
<1>1. Saved("dataset_ready") /\ Initialized
  BY DEF IInv, PlacesTellJournal, EndedIsEnded, BeginWarmup
<1>2. times["warmup"] = 0 /\ traffic["warmup"] = "none"
  BY <1>1, NotLatchedNotSent, Ranks, LatchRanks, Steps DEF Saved, IInv, EffectsAreSent, Phase
<1>3. TypeOK' /\ MemoryLeads' /\ SentIsLatched' /\ EffectsAreSent'
  <2>1. CASE warmUp
    BY <1>1, <2>1, Climb, WriteKeeps DEF BeginWarmup, JournalState, Place
  <2>2. CASE ~warmUp
    BY <2>2, GotoKeeps DEF BeginWarmup, Place
  <2>3. QED
    BY <2>1, <2>2
<1>4. CASE warmUp
  <2>1. /\ UNCHANGED <<warmUp, remote, traffic, times>>
        /\ memory'.journal = "warmup_started"
        /\ pc' = "idle" \/ (pc' = "sendWarmup" /\ disk'.journal = "warmup_started")
    BY <1>4, WriteOutcome DEF BeginWarmup
  <2>2. PlacesTellJournal' /\ EndedIsEnded'
    BY <1>1, <1>2, <1>4, <2>1
       DEF IInv, PlacesTellJournal, EndedIsEnded, Initialized, remote, Saved
  <2>3. QED
    BY <1>3, <2>2 DEF IInv
<1>5. CASE ~warmUp
  <2>1. UNCHANGED <<warmUp, memory, disk, remote, traffic, times>> /\ pc' = "start"
    BY <1>5 DEF BeginWarmup, Goto
  <2>2. PlacesTellJournal' /\ EndedIsEnded'
    BY <1>1, <1>2, <1>5, <2>1
       DEF IInv, PlacesTellJournal, EndedIsEnded, Initialized, remote, Saved
  <2>3. QED
    BY <1>3, <2>2 DEF IInv
<1>6. QED
  BY <1>4, <1>5

\* Sending the traffic of a phase whose latch has just reached the disk.
LEMMA SendKeeps ==
  ASSUME IInv, NEW phase \in Phase, NEW from \in Place, NEW next \in Place,
         Send(phase, from, next),
         times[phase] = 0, disk.journal = LatchState[phase]
  PROVE  /\ MemoryLeads' /\ SentIsLatched' /\ EffectsAreSent'
         /\ \A s \in Step : times'[s] = IF s = phase THEN 1 ELSE times[s]
         /\ \A p \in Phase : traffic'[p] = IF p = phase THEN "sent" ELSE traffic[p]
<1>1. \A s \in Step : times'[s] = IF s = phase THEN 1 ELSE times[s]
  BY Steps DEF Send, IInv, TypeOK, Phase
<1>2. \A p \in Phase : traffic'[p] = IF p = phase THEN "sent" ELSE traffic[p]
  BY DEF Send, IInv, TypeOK
<1>3. UNCHANGED <<memory, disk, unit, flights>>
  BY DEF Send, remote
<1>4. MemoryLeads'
  BY <1>3 DEF IInv, MemoryLeads
<1>5. SentIsLatched'
  <2>1. phase \in Step /\ Rank[LatchState[phase]] <= Rank[disk.journal]
    BY Ranks, LatchRanks DEF Phase, Step
  <2>2. QED
    BY <1>1, <1>3, <2>1 DEF IInv, SentIsLatched
<1>6. EffectsAreSent'
  BY <1>1, <1>2, <1>3, Steps DEF IInv, EffectsAreSent, Phase
<1>7. QED
  BY <1>1, <1>2, <1>4, <1>5, <1>6

LEMMA SendWarmupInv == IInv /\ SendWarmup => IInv'
<1> SUFFICES ASSUME IInv, SendWarmup PROVE IInv'
  OBVIOUS
<1>1. TypeOK'
  BY NextType DEF IInv, Next, Work
<1>2. warmUp /\ Saved("warmup_started") /\ Initialized /\ times["warmup"] = 0
  BY DEF IInv, PlacesTellJournal, EndedIsEnded, SendWarmup, Send
<1>3. times["measurement"] = 0
  BY <1>2, BelowMeasurement DEF Saved
<1>4. /\ MemoryLeads' /\ SentIsLatched' /\ EffectsAreSent'
      /\ \A s \in Step : times'[s] = IF s = "warmup" THEN 1 ELSE times[s]
  BY <1>2, SendKeeps, LatchRanks DEF SendWarmup, Saved, Phase, Place
<1>5. /\ UNCHANGED <<warmUp, memory, disk, remote>>
      /\ pc' = "awaitWarmup"
  BY DEF SendWarmup, Send
<1>6. PlacesTellJournal'
  BY <1>2, <1>5 DEF PlacesTellJournal, Saved
<1>7. EndedIsEnded'
  BY <1>2, <1>3, <1>4, <1>5, Steps DEF EndedIsEnded, Initialized, remote
<1>8. QED
  BY <1>1, <1>4, <1>6, <1>7 DEF IInv

LEMMA EndWarmupInv == IInv /\ EndWarmup => IInv'
<1> SUFFICES ASSUME IInv, EndWarmup PROVE IInv'
  OBVIOUS
<1>1. Saved("warmup_started") /\ Initialized /\ traffic["warmup"] = "finished"
  BY DEF IInv, PlacesTellJournal, EndedIsEnded, EndWarmup
<1>2. TypeOK' /\ MemoryLeads' /\ SentIsLatched' /\ EffectsAreSent'
  BY <1>1, Climb, WriteKeeps DEF EndWarmup, JournalState, Place
<1>3. /\ UNCHANGED <<warmUp, remote, traffic, times>>
      /\ memory'.journal = "warmup_complete"
      /\ pc' = "idle" \/ (pc' = "start" /\ disk'.journal = "warmup_complete")
  BY WriteOutcome DEF EndWarmup
<1>4. warmUp
  BY DEF IInv, PlacesTellJournal, EndWarmup
<1>5. PlacesTellJournal' /\ EndedIsEnded'
  BY <1>1, <1>3, <1>4
     DEF IInv, PlacesTellJournal, EndedIsEnded, Initialized, remote, Saved
<1>6. QED
  BY <1>2, <1>5 DEF IInv

LEMMA BeginMeasurementInv == IInv /\ BeginMeasurement => IInv'
<1> SUFFICES ASSUME IInv, BeginMeasurement PROVE IInv'
  OBVIOUS
<1>1. /\ Saved(IF warmUp THEN "warmup_complete" ELSE "dataset_ready")
      /\ Initialized /\ traffic["warmup"] \notin {"sent", "running"}
  BY DEF IInv, PlacesTellJournal, EndedIsEnded, BeginMeasurement
<1>2. times["measurement"] = 0
  BY <1>1, BelowMeasurement DEF Saved
<1>3. PICK old \in {"warmup_complete", "dataset_ready"} : Saved(old)
  BY <1>1
<1>4. TypeOK' /\ MemoryLeads' /\ SentIsLatched' /\ EffectsAreSent'
  <2>1. old \in JournalState /\ Rank[old] <= Rank["measurement_started"]
    BY <1>3, Climb DEF JournalState
  <2>2. QED
    BY <1>3, <2>1, WriteKeeps DEF BeginMeasurement, JournalState, Place
<1>5. /\ UNCHANGED <<warmUp, remote, traffic, times>>
      /\ memory'.journal = "measurement_started"
      /\ pc' = "idle" \/ (pc' = "sendMeasurement" /\ disk'.journal = "measurement_started")
  BY WriteOutcome DEF BeginMeasurement
<1>6. PlacesTellJournal' /\ EndedIsEnded'
  BY <1>1, <1>2, <1>5 DEF IInv, PlacesTellJournal, EndedIsEnded, Initialized, remote, Saved
<1>7. QED
  BY <1>4, <1>6 DEF IInv

LEMMA SendMeasurementInv == IInv /\ SendMeasurement => IInv'
<1> SUFFICES ASSUME IInv, SendMeasurement PROVE IInv'
  OBVIOUS
<1>1. TypeOK'
  BY NextType DEF IInv, Next, Work
<1>2. /\ Saved("measurement_started") /\ times["measurement"] = 0
      /\ Initialized /\ traffic["warmup"] \notin {"sent", "running"}
  BY DEF IInv, PlacesTellJournal, EndedIsEnded, SendMeasurement, Send
<1>3. /\ MemoryLeads' /\ SentIsLatched' /\ EffectsAreSent'
      /\ \A p \in Phase : traffic'[p] = IF p = "measurement" THEN "sent" ELSE traffic[p]
  BY <1>2, SendKeeps, LatchRanks DEF SendMeasurement, Saved, Phase, Place
<1>4. /\ UNCHANGED <<warmUp, memory, disk, remote>>
      /\ pc' = "awaitMeasurement"
  BY DEF SendMeasurement, Send
<1>5. PlacesTellJournal'
  BY <1>2, <1>4 DEF PlacesTellJournal, Saved
<1>6. EndedIsEnded'
  BY <1>2, <1>3, <1>4 DEF EndedIsEnded, Initialized, remote, Phase
<1>7. QED
  BY <1>1, <1>3, <1>5, <1>6 DEF IInv

LEMMA EndMeasurementInv == IInv /\ EndMeasurement => IInv'
<1> SUFFICES ASSUME IInv, EndMeasurement PROVE IInv'
  OBVIOUS
<1>1. TypeOK' /\ MemoryLeads' /\ SentIsLatched' /\ EffectsAreSent'
  BY GotoKeeps DEF EndMeasurement, Place
<1>2. /\ UNCHANGED <<warmUp, memory, disk, remote, traffic, times>>
      /\ pc = "awaitMeasurement" /\ pc' = "attest"
  BY DEF EndMeasurement, Goto
<1>3. PlacesTellJournal' /\ EndedIsEnded'
  BY <1>2 DEF IInv, PlacesTellJournal, EndedIsEnded, Initialized, remote, Saved
<1>4. QED
  BY <1>1, <1>3 DEF IInv

LEMMA CompleteInv == IInv /\ Complete => IInv'
<1> SUFFICES ASSUME IInv, Complete PROVE IInv'
  OBVIOUS
<1>1. Saved("measurement_started")
  BY DEF IInv, PlacesTellJournal, Complete
<1>2. TypeOK' /\ MemoryLeads' /\ SentIsLatched' /\ EffectsAreSent'
  BY <1>1, Climb, WriteKeeps DEF Complete, JournalState, Place
<1>3. UNCHANGED <<warmUp, remote, traffic, times>> /\ pc' = "idle"
  BY DEF Complete, WriteJournal
<1>4. PlacesTellJournal' /\ EndedIsEnded'
  BY <1>3 DEF IInv, PlacesTellJournal, EndedIsEnded, Initialized, remote
<1>5. QED
  BY <1>2, <1>4 DEF IInv

\* Wherever an invocation ends, and whatever was in memory, nothing is lost
\* that the invariant needs.
LEMMA EndInv == IInv /\ (Fail \/ Restart) => IInv'
<1> SUFFICES ASSUME IInv, Fail \/ Restart PROVE IInv'
  OBVIOUS
<1>1. TypeOK'
  BY NextType DEF IInv, Next
<1>2. /\ UNCHANGED <<warmUp, disk, remote, traffic, times>>
      /\ pc' = "idle" /\ memory' \in {memory, disk}
  BY DEF Fail, Restart, Goto
<1>3. MemoryLeads'
  <2>1. Rank[disk.journal] \in 0..8
    BY RankType DEF IInv, TypeOK, Job
  <2>2. QED
    BY <1>2, <2>1 DEF IInv, MemoryLeads
<1>4. SentIsLatched' /\ EffectsAreSent' /\ PlacesTellJournal' /\ EndedIsEnded'
  BY <1>2 DEF IInv, SentIsLatched, EffectsAreSent, PlacesTellJournal, EndedIsEnded,
              Initialized, remote
<1>5. QED
  BY <1>1, <1>3, <1>4 DEF IInv

\* The load generator only moves what has been sent to it and not yet ended.
LEMMA LoadGeneratorInv == IInv /\ LoadGenerator => IInv'
<1> SUFFICES ASSUME IInv, LoadGenerator PROVE IInv'
  OBVIOUS
<1>1. TypeOK'
  BY NextType DEF IInv, Next
<1>2. UNCHANGED <<warmUp, pc, memory, disk, times>>
  BY DEF LoadGenerator, RunDispatch, LoseDispatch, UnitStarts, UnitEnds, Reboot, TrafficMoves,
         others, runner
<1>3. MemoryLeads' /\ SentIsLatched' /\ PlacesTellJournal'
  BY <1>2 DEF IInv, MemoryLeads, SentIsLatched, PlacesTellJournal, Saved
<1>4. EffectsAreSent' /\ EndedIsEnded'
  <2>1. CASE RunDispatch \/ LoseDispatch
    BY <2>1 DEF RunDispatch, LoseDispatch, others, runner, IInv, EffectsAreSent, EndedIsEnded,
                Initialized
  <2>2. CASE UnitStarts \/ UnitEnds
    BY <2>2 DEF UnitStarts, UnitEnds, others, runner, IInv, EffectsAreSent, EndedIsEnded,
                Initialized
  <2>3. CASE Reboot
    <3>1. \A p \in Phase :
            traffic'[p] = IF traffic[p] = "running" THEN "dead" ELSE traffic[p]
      BY <2>3 DEF Reboot
    <3>2. QED
      BY <1>2, <2>3, <3>1 DEF Reboot, IInv, EffectsAreSent, EndedIsEnded, Initialized, Phase
  <2>4. ASSUME NEW phase \in Phase, TrafficMoves(phase)
        PROVE  EffectsAreSent' /\ EndedIsEnded'
    <3>1. /\ traffic[phase] \in {"sent", "running"}
          /\ \A p \in Phase : p # phase => traffic'[p] = traffic[p]
      BY <2>4 DEF TrafficMoves, IInv, TypeOK
    <3>2. UNCHANGED <<pc, unit, flights, times>>
      BY <2>4 DEF TrafficMoves, runner, remote
    <3>3. QED
      BY <3>1, <3>2 DEF IInv, EffectsAreSent, EndedIsEnded, Initialized, Phase
  <2>5. QED
    BY <2>1, <2>2, <2>3, <2>4 DEF LoadGenerator
<1>5. QED
  BY <1>1, <1>3, <1>4 DEF IInv

LEMMA NextInv == IInv /\ [Next]_vars => IInv'
<1> SUFFICES ASSUME IInv, [Next]_vars PROVE IInv'
  OBVIOUS
<1>1. CASE Invoke
  BY <1>1, InvokeInv
<1>2. CASE Work
  BY <1>2, PrepareInv, ProbeInv, BeginInitializationInv, DispatchInv, AnswerInv, PollInv,
     AttestInv, BeginWarmupInv, SendWarmupInv, EndWarmupInv, BeginMeasurementInv,
     SendMeasurementInv, EndMeasurementInv, CompleteInv DEF Work
<1>3. CASE Fail \/ Restart
  BY <1>3, EndInv
<1>4. CASE LoadGenerator
  BY <1>4, LoadGeneratorInv
<1>5. CASE UNCHANGED vars
  BY <1>5 DEF vars, runner, remote, IInv, TypeOK, MemoryLeads, SentIsLatched,
              PlacesTellJournal, Saved, EffectsAreSent, EndedIsEnded, Initialized
<1>6. QED
  BY <1>1, <1>2, <1>3, <1>4, <1>5 DEF Next

LEMMA Inductive == Spec => []IInv
<1>1. QED
  BY InitInv, NextInv, PTL DEF Spec

-------------------------------------------------------------------------------
(* What follows from it.                                                   *)

\* For any grace and deadline, whatever is lost, delayed or restarted: while
\* measured traffic is on its way or running, no initializer is, and no warm-up.
THEOREM NothingOverlapsMeasurement == Spec => []MeasuredAlone
<1>1. IInv => MeasuredAlone
  <2> SUFFICES ASSUME IInv, traffic["measurement"] \in {"sent", "running"}
               PROVE  Initialized /\ traffic["warmup"] \notin {"sent", "running"}
    BY DEF MeasuredAlone, Initialized
  <2>1. times["measurement"] = 1
    BY Steps DEF IInv, EffectsAreSent, SentIsLatched, Phase
  <2>2. QED
    BY <2>1 DEF IInv, EndedIsEnded
<1>2. QED
  BY <1>1, Inductive, PTL

\* The latches of the journal, as OneShot sees them.
Latched == {s \in Step : Rank[disk.journal] >= Rank[LatchState[s]]}

LEMMA InitPromise == Init => Promise!Init
BY Ranks, LatchRanks, Steps DEF Init, Promise!Init

\* Sending a step is its beginning.
LEMMA BeginsOnce ==
  ASSUME IInv, NEW s \in Step, times[s] = 0, disk.journal = LatchState[s],
         times' = [times EXCEPT ![s] = @ + 1], UNCHANGED disk
  PROVE  Promise!Begin(s)
<1>1. Rank[disk.journal] >= Rank[LatchState[s]]
  BY Ranks, LatchRanks, Steps
<1>2. times' = [times EXCEPT ![s] = 1]
  BY DEF IInv, TypeOK
<1>3. QED
  BY <1>1, <1>2 DEF Promise!Begin

\* A step that sends nothing may only set latches.
LEMMA ClimbLatches ==
  ASSUME IInv, IInv', UNCHANGED times, Rank[disk.journal] <= Rank[disk'.journal]
  PROVE  Promise!Latch
<1>1. Rank[disk.journal] \in 0..8 /\ Rank[disk'.journal] \in 0..8
  BY RankType DEF IInv, TypeOK, Job
<1>2. \A s \in Step : Rank[LatchState[s]] \in 0..8
  BY Ranks, LatchRanks, Steps
<1>3. QED
  BY <1>1, <1>2 DEF Promise!Latch

\* No journal write moves the disk back.
LEMMA DiskClimbs ==
  ASSUME IInv, IInv', [Next]_vars
  PROVE  Rank[disk.journal] <= Rank[disk'.journal]
<1> DEFINE Climbs == Rank[disk.journal] <= Rank[disk'.journal]
<1>1. Rank[disk.journal] \in 0..8 /\ Rank[memory.journal] \in 0..8
  BY RankType DEF IInv, TypeOK, Job
<1>2. disk' = disk => Climbs
  BY <1>1
<1>3. ASSUME NEW state \in JournalState, NEW result, NEW next,
             WriteJournal(state, result, next), Rank[memory.journal] <= Rank[state]
      PROVE  Climbs
  BY <1>1, <1>2, <1>3, RankType DEF WriteJournal, IInv, MemoryLeads
<1>4. ASSUME NEW next, Goto(next) PROVE Climbs
  BY <1>2, <1>4 DEF Goto
<1>5. CASE Invoke
  <2>1. CASE memory.journal = "none"
    <3>1. Rank[memory.journal] <= Rank["preparing_load_generator"]
      BY <2>1, Ranks
    <3>2. WriteJournal("preparing_load_generator", FALSE, "prepare")
      BY <1>5, <2>1 DEF Invoke
    <3>3. QED
      BY <1>3, <3>1, <3>2 DEF JournalState
  <2>2. CASE memory.journal # "none"
    BY <1>4, <1>5, <2>2 DEF Invoke
  <2>3. QED
    BY <2>1, <2>2
<1>6. CASE PrepareLoadGenerator
  <2>1. ~OneShotState(memory.journal)
    BY <1>6 DEF IInv, PlacesTellJournal, PrepareLoadGenerator
  <2>2. memory.journal # "load_generator_ready" =>
          Rank[memory.journal] <= Rank["load_generator_ready"]
    BY <2>1, Ranks DEF IInv, TypeOK, Job, JournalState, OneShotState
  <2>3. QED
    BY <1>3, <1>4, <1>6, <2>2 DEF PrepareLoadGenerator, JournalState
<1>7. CASE BeginInitialization
  <2>1. Rank[memory.journal] <= Rank["initialization_started"]
    BY <1>1, <1>7, Ranks DEF IInv, PlacesTellJournal, BeginInitialization, OneShotState
  <2>2. QED
    BY <1>3, <1>7, <2>1 DEF BeginInitialization, JournalState
<1>8. CASE AttestDataset
  <2>1. memory.journal = "initialization_started"
    BY <1>8 DEF IInv, PlacesTellJournal, AttestDataset, Saved
  <2>2. QED
    BY <1>3, <1>8, <2>1, Climb DEF AttestDataset, JournalState
<1>9. CASE BeginWarmup
  <2>1. memory.journal = "dataset_ready"
    BY <1>9 DEF IInv, PlacesTellJournal, BeginWarmup, Saved
  <2>2. QED
    BY <1>3, <1>4, <1>9, <2>1, Climb DEF BeginWarmup, JournalState
<1>10. CASE EndWarmup
  <2>1. memory.journal = "warmup_started"
    BY <1>10 DEF IInv, PlacesTellJournal, EndWarmup, Saved
  <2>2. QED
    BY <1>3, <1>10, <2>1, Climb DEF EndWarmup, JournalState
<1>11. CASE BeginMeasurement
  <2>1. memory.journal \in {"warmup_complete", "dataset_ready"}
    BY <1>11 DEF IInv, PlacesTellJournal, BeginMeasurement, Saved
  <2>2. QED
    BY <1>3, <1>11, <2>1, Climb DEF BeginMeasurement, JournalState
<1>12. CASE Complete
  <2>1. memory.journal = "measurement_started"
    BY <1>12 DEF IInv, PlacesTellJournal, Complete, Saved
  <2>2. QED
    BY <1>3, <1>12, <2>1, Climb DEF Complete, JournalState
<1>13. CASE ProbeDatabase \/ EndMeasurement \/ Fail
  BY <1>4, <1>13 DEF ProbeDatabase, EndMeasurement, Fail
<1>14. CASE \/ Dispatch \/ DispatchConfirmed \/ DispatchAmbiguous \/ Poll \/ SendWarmup
            \/ SendMeasurement \/ Restart \/ LoadGenerator \/ UNCHANGED vars
  <2>1. disk' = disk
    BY <1>14 DEF Dispatch, DispatchConfirmed, DispatchAmbiguous, Poll, SendWarmup,
                 SendMeasurement, Send, Restart, LoadGenerator, RunDispatch, LoseDispatch,
                 UnitStarts, UnitEnds, Reboot, TrafficMoves, others, runner, vars
  <2>2. QED
    BY <1>2, <2>1
<1>15. QED
  BY <1>5, <1>6, <1>7, <1>8, <1>9, <1>10, <1>11, <1>12, <1>13, <1>14 DEF Next, Work

LEMMA NextPromise ==
  ASSUME IInv, IInv', [Next]_vars
  PROVE  [Promise!Next]_<<Latched, times>>
<1>1. CASE Dispatch
  <2>1. disk.journal = LatchState["dispatch"] /\ times["dispatch"] = 0
    BY <1>1, LatchRanks DEF IInv, PlacesTellJournal, Dispatch, Saved
  <2>2. Promise!Begin("dispatch")
    BY <1>1, <2>1, BeginsOnce, Steps DEF Dispatch
  <2>3. QED
    BY <2>2, Steps DEF Promise!Next
<1>2. CASE SendWarmup
  <2>1. disk.journal = LatchState["warmup"] /\ times["warmup"] = 0
    BY <1>2, LatchRanks DEF IInv, PlacesTellJournal, SendWarmup, Send, Saved
  <2>2. Promise!Begin("warmup")
    BY <1>2, <2>1, BeginsOnce, Steps DEF SendWarmup, Send
  <2>3. QED
    BY <2>2, Steps DEF Promise!Next
<1>3. CASE SendMeasurement
  <2>1. disk.journal = LatchState["measurement"] /\ times["measurement"] = 0
    BY <1>3, LatchRanks DEF IInv, PlacesTellJournal, SendMeasurement, Send, Saved
  <2>2. Promise!Begin("measurement")
    BY <1>3, <2>1, BeginsOnce, Steps DEF SendMeasurement, Send
  <2>3. QED
    BY <2>2, Steps DEF Promise!Next
<1>4. CASE UNCHANGED times
  <2>1. Promise!Latch
    BY <1>4, DiskClimbs, ClimbLatches
  <2>2. QED
    BY <2>1 DEF Promise!Next
<1>5. UNCHANGED times \/ Dispatch \/ SendWarmup \/ SendMeasurement
  BY DEF Next, Work, Invoke, PrepareLoadGenerator, ProbeDatabase, BeginInitialization,
         DispatchConfirmed, DispatchAmbiguous, Poll, AttestDataset, BeginWarmup, EndWarmup,
         BeginMeasurement, EndMeasurement, Complete, Fail, Restart, WriteJournal, Goto,
         LoadGenerator, RunDispatch, LoseDispatch, UnitStarts, UnitEnds, Reboot, TrafficMoves,
         others, vars
<1>6. QED
  BY <1>1, <1>2, <1>3, <1>4, <1>5

\* For any grace and deadline: the dispatch, the warm-up and the measurement
\* are begun at most once, each after its latch is on disk, and no latch is
\* ever taken back, across failed saves, lost answers and restarts.
THEOREM MeasurementIsOneShot == Spec => ImplementsOneShot
<1>1. IInv /\ IInv' /\ [Next]_vars => [Promise!Next]_<<Latched, times>>
  BY NextPromise
<1>2. QED
  BY <1>1, InitPromise, Inductive, PTL
     DEF Spec, ImplementsOneShot, Promise!Spec, Latched

-------------------------------------------------------------------------------
(* A result is evidence.                                                   *)

Dispatched ==
  {"answer", "poll", "database", "snapshot", "sendWarmup", "awaitWarmup", "start",
   "sendMeasurement", "awaitMeasurement", "attest"}
Loaded == Dispatched \ {"answer", "poll", "database"}
Warm == {"start", "sendMeasurement", "awaitMeasurement", "attest"}

\* What a place of an invocation, or a result, says of the load generator.
Evidence ==
  /\ memory.result <=> memory.journal = "measurement_complete"
  /\ disk.result <=> disk.journal = "measurement_complete"
  /\ pc \in Dispatched \/ memory.result => times["dispatch"] = 1
  /\ pc \in Loaded \/ memory.result => dataset = "complete" /\ Initialized
  /\ ~warmUp => times["warmup"] = 0
  /\ pc = "awaitWarmup" => times["warmup"] = 1
  /\ pc \in Warm \/ memory.result =>
       /\ traffic["warmup"] = IF warmUp THEN "finished" ELSE "none"
       /\ warmUp => times["warmup"] = 1
  /\ pc \in {"awaitMeasurement", "attest"} \/ memory.result => times["measurement"] = 1
  /\ pc = "attest" \/ memory.result => traffic["measurement"] = "finished"

\* A job with a result has no invocation, and is the one on disk if that has one.
LEMMA ResultsRest ==
  ASSUME IInv, Evidence
  PROVE  /\ memory.result => pc = "idle"
         /\ disk.result => memory.result
<1>1. Rank[memory.journal] \in 0..8 /\ Rank[disk.journal] \in 0..8
  BY RankType DEF IInv, TypeOK, Job
<1>2. memory.journal = "measurement_complete" => pc = "idle"
  BY Ranks DEF IInv, TypeOK, Place, PlacesTellJournal, Saved, OneShotState
<1>3. disk.journal = "measurement_complete" => memory.journal = "measurement_complete"
  <2>1. disk.journal = "measurement_complete" => Rank[memory.journal] = 8
    BY <1>1, Ranks DEF IInv, MemoryLeads
  <2>2. QED
    BY <2>1, Ranks DEF IInv, TypeOK, Job, JournalState
<1>4. QED
  BY <1>2, <1>3 DEF Evidence

\* A save that is not the last one.
LEMMA WriteEvidence ==
  ASSUME IInv, Evidence, NEW state \in JournalState \ {"measurement_complete"},
         NEW next \in Place, WriteJournal(state, FALSE, next),
         next \in Dispatched => pc \in Dispatched,
         next \in Loaded => dataset = "complete" /\ Initialized,
         next # "awaitWarmup",
         next \in Warm => /\ traffic["warmup"] = IF warmUp THEN "finished" ELSE "none"
                          /\ warmUp => times["warmup"] = 1,
         next \notin {"awaitMeasurement", "attest"}
  PROVE  Evidence'
<1>1. /\ ~memory'.result /\ memory'.journal # "measurement_complete"
      /\ disk'.result <=> disk'.journal = "measurement_complete"
      /\ pc' \in {next, "idle"}
      /\ UNCHANGED <<warmUp, remote, traffic, times>>
  BY DEF WriteJournal, Evidence
<1>2. "idle" \notin Dispatched \cup Loaded \cup Warm \cup {"awaitMeasurement", "attest"}
  BY DEF Dispatched, Loaded, Warm
<1>3. QED
  BY <1>1, <1>2 DEF Evidence, Initialized, remote

LEMMA GotoEvidence ==
  ASSUME IInv, Evidence, NEW next \in Place, Goto(next),
         next \in Dispatched => pc \in Dispatched,
         next \in Loaded => pc \in Loaded,
         next # "awaitWarmup",
         next \in Warm => /\ traffic["warmup"] = IF warmUp THEN "finished" ELSE "none"
                          /\ warmUp => times["warmup"] = 1,
         next \in {"awaitMeasurement", "attest"} => pc = "awaitMeasurement",
         next = "attest" => traffic["measurement"] = "finished"
  PROVE  Evidence'
BY DEF Goto, Evidence, Initialized, remote

LEMMA InvocationEvidence ==
  ASSUME IInv, Evidence, Invoke \/ Work
  PROVE  Evidence'
<1> USE DEF Dispatched, Loaded, Warm
<1>j. JournalState \ {"measurement_complete"} =
        {"none", "preparing_load_generator", "load_generator_ready", "initialization_started",
         "dataset_ready", "warmup_started", "warmup_complete", "measurement_started"}
  BY DEF JournalState
<1>1. CASE Invoke \/ PrepareLoadGenerator \/ ProbeDatabase \/ BeginInitialization
  BY <1>1, <1>j, WriteEvidence, GotoEvidence
     DEF Invoke, PrepareLoadGenerator, ProbeDatabase, BeginInitialization, Place
<1>2. CASE Dispatch
  <2>1. times["dispatch"] = 0 /\ ~memory.result
    BY <1>2, ResultsRest DEF Dispatch, IInv, PlacesTellJournal
  <2>2. /\ times'["dispatch"] = 1 /\ times'["warmup"] = times["warmup"]
        /\ times'["measurement"] = times["measurement"]
    BY <1>2, <2>1, Steps DEF Dispatch, IInv, TypeOK
  <2>3. QED
    BY <1>2, <2>1, <2>2 DEF Dispatch, Evidence, Initialized
<1>3. CASE DispatchConfirmed \/ DispatchAmbiguous
  BY <1>3 DEF DispatchConfirmed, DispatchAmbiguous, Evidence, Initialized, remote
<1>4. CASE Poll
  <2>1. pc = "poll" /\ pc' \in {"database", "idle", "poll"}
        /\ UNCHANGED <<warmUp, memory, disk, remote, traffic, times>>
    BY <1>4 DEF Poll
  <2>2. QED
    BY <2>1 DEF Evidence, Initialized, remote
<1>5. CASE AttestDataset
  <2>1. Initialized /\ pc \in Dispatched /\ dataset = "complete"
    BY <1>5 DEF AttestDataset, IInv, EndedIsEnded
  <2>2. QED
    BY <1>5, <1>j, <2>1, WriteEvidence DEF AttestDataset, Place
<1>6. CASE BeginWarmup
  <2>1. pc \in Loaded /\ pc \in Dispatched /\ dataset = "complete" /\ Initialized
    BY <1>6 DEF BeginWarmup, Evidence
  <2>2. CASE warmUp
    BY <1>6, <1>j, <2>1, <2>2, WriteEvidence DEF BeginWarmup, Place
  <2>3. CASE ~warmUp
    <3>1. traffic["warmup"] = "none"
      BY <2>3 DEF Evidence, IInv, EffectsAreSent, Phase
    <3>2. QED
      BY <1>6, <2>1, <2>3, <3>1, GotoEvidence DEF BeginWarmup, Place
  <2>4. QED
    BY <2>2, <2>3
<1>7. CASE SendWarmup
  <2>1. pc = "sendWarmup" /\ warmUp /\ times["warmup"] = 0 /\ ~memory.result
    BY <1>7, ResultsRest DEF SendWarmup, Send, IInv, PlacesTellJournal
  <2>2. /\ times'["warmup"] = 1 /\ times'["dispatch"] = times["dispatch"]
        /\ times'["measurement"] = times["measurement"]
        /\ traffic'["measurement"] = traffic["measurement"]
    BY <1>7, <2>1, Steps DEF SendWarmup, Send, IInv, TypeOK, Phase
  <2>3. QED
    BY <1>7, <2>1, <2>2 DEF SendWarmup, Send, Evidence, Initialized, remote
<1>8. CASE EndWarmup
  <2>1. /\ dataset = "complete" /\ Initialized /\ times["warmup"] = 1
        /\ traffic["warmup"] = "finished" /\ warmUp /\ pc \in Dispatched
    BY <1>8 DEF EndWarmup, Evidence, IInv, PlacesTellJournal
  <2>2. QED
    BY <1>8, <1>j, <2>1, WriteEvidence DEF EndWarmup, Place
<1>9. CASE BeginMeasurement
  <2>1. /\ dataset = "complete" /\ Initialized /\ pc \in Dispatched
        /\ traffic["warmup"] = IF warmUp THEN "finished" ELSE "none"
        /\ warmUp => times["warmup"] = 1
    BY <1>9 DEF BeginMeasurement, Evidence
  <2>2. QED
    BY <1>9, <1>j, <2>1, WriteEvidence DEF BeginMeasurement, Place
<1>10. CASE SendMeasurement
  <2>1. pc = "sendMeasurement" /\ times["measurement"] = 0 /\ ~memory.result
    BY <1>10, ResultsRest DEF SendMeasurement, Send, IInv, PlacesTellJournal
  <2>2. /\ times'["measurement"] = 1 /\ times'["dispatch"] = times["dispatch"]
        /\ times'["warmup"] = times["warmup"]
        /\ traffic'["warmup"] = traffic["warmup"]
    BY <1>10, <2>1, Steps DEF SendMeasurement, Send, IInv, TypeOK, Phase
  <2>3. QED
    BY <1>10, <2>1, <2>2 DEF SendMeasurement, Send, Evidence, Initialized, remote
<1>11. CASE EndMeasurement
  <2>1. /\ pc = "awaitMeasurement" /\ traffic["measurement"] = "finished"
        /\ traffic["warmup"] = IF warmUp THEN "finished" ELSE "none"
        /\ warmUp => times["warmup"] = 1
    BY <1>11 DEF EndMeasurement, Evidence
  <2>2. QED
    BY <1>11, <2>1, GotoEvidence DEF EndMeasurement, Place
<1>12. CASE Complete
  <2>1. pc = "attest"
    BY <1>12 DEF Complete
  <2>2. /\ memory'.result /\ memory'.journal = "measurement_complete" /\ pc' = "idle"
        /\ disk' = memory' \/ disk' = disk
        /\ UNCHANGED <<warmUp, remote, traffic, times>>
    BY <1>12 DEF Complete, WriteJournal
  <2>3. QED
    BY <2>1, <2>2 DEF Evidence, Initialized, remote
<1>13. QED
  BY <1>1, <1>2, <1>3, <1>4, <1>5, <1>6, <1>7, <1>8, <1>9, <1>10, <1>11, <1>12 DEF Work

LEMMA LoadGeneratorEvidence ==
  ASSUME IInv, Evidence, LoadGenerator
  PROVE  Evidence'
<1>0. UNCHANGED <<warmUp, pc, memory, disk, times>>
  BY DEF LoadGenerator, RunDispatch, LoseDispatch, UnitStarts, UnitEnds, Reboot, TrafficMoves,
         others, runner
<1>1. Initialized => Initialized' /\ UNCHANGED dataset
  BY DEF LoadGenerator, RunDispatch, LoseDispatch, UnitStarts, UnitEnds, Reboot, TrafficMoves,
         Initialized, remote, IInv, TypeOK
<1>2. \A p \in Phase : traffic[p] \in {"none", "finished"} => traffic'[p] = traffic[p]
  BY DEF LoadGenerator, RunDispatch, LoseDispatch, UnitStarts, UnitEnds, Reboot, TrafficMoves,
         others, IInv, TypeOK
<1>3. traffic["warmup"] \in {"none", "finished"} => traffic'["warmup"] = traffic["warmup"]
  BY <1>2 DEF Phase
<1>4. traffic["measurement"] = "finished" => traffic'["measurement"] = "finished"
  BY <1>2 DEF Phase
<1>5. QED
  BY <1>0, <1>1, <1>3, <1>4 DEF Evidence

LEMMA NextEvidence ==
  ASSUME IInv, Evidence, [Next]_vars
  PROVE  Evidence'
<1>1. CASE Invoke \/ Work
  BY <1>1, InvocationEvidence
<1>2. CASE Fail
  <2>1. "idle" \notin Dispatched \cup Loaded \cup Warm
    BY DEF Dispatched, Loaded, Warm
  <2>2. QED
    BY <1>2, <2>1, GotoEvidence DEF Fail, Place
<1>3. CASE Restart
  <2>1. "idle" \notin Dispatched \cup Loaded \cup Warm
    BY DEF Dispatched, Loaded, Warm
  <2>2. disk.result => memory.result
    BY ResultsRest
  <2>3. QED
    BY <1>3, <2>1, <2>2 DEF Restart, Evidence, Initialized, remote
<1>4. CASE LoadGenerator
  BY <1>4, LoadGeneratorEvidence
<1>5. CASE UNCHANGED vars
  BY <1>5 DEF vars, runner, remote, Evidence, Initialized
<1>6. QED
  BY <1>1, <1>2, <1>3, <1>4, <1>5 DEF Next

\* For any grace and deadline: on disk there is a result exactly if the journal is
\* complete, and a result, also one that has only reached memory, comes from one
\* initializer, a finished warm-up if one was asked for, and one finished
\* measurement over a complete dataset.
THEOREM ResultsAreEvidence == Spec => []ResultIsEvidence
<1>1. Init => Evidence
  BY Steps DEF Init, Evidence, Dispatched, Loaded, Warm
<1>2. IInv /\ Evidence /\ [Next]_vars => Evidence'
  BY NextEvidence
<1>3. IInv /\ Evidence => ResultIsEvidence
  <2> SUFFICES ASSUME IInv, Evidence PROVE ResultIsEvidence
    OBVIOUS
  <2>1. memory.result \/ disk.result => memory.result
    BY ResultsRest
  <2>2. memory.result => times = [s \in Step |-> IF s = "warmup" /\ ~warmUp THEN 0 ELSE 1]
    BY Steps DEF Evidence, IInv, TypeOK
  <2>3. QED
    BY <2>1, <2>2 DEF Evidence, ResultIsEvidence
<1>4. QED
  BY <1>1, <1>2, <1>3, Inductive, PTL DEF Spec
===============================================================================
