--------------------------- MODULE WorkerThreadProofs ---------------------------
(***************************************************************************)
(* TLAPS proofs about the worker thread of a run beside the event loop of  *)
(* the server.                                                             *)
(*                                                                         *)
(* SshCommand, for any number of calls and attempts.  Two arguments.  What *)
(* the worker has started it ends: a call has no process outside the       *)
(* stretch from Spawn to UnregisterProcess, and every way out of that      *)
(* stretch reaps the process first.  What a stop may still start: the      *)
(* worker asks the event between any two starts, so only a worker that had *)
(* asked before the event was set starts one more.                         *)
(*                                                                         *)
(* StatePersistence, for any set of resources.  While the worker runs, its *)
(* saves and the loop's overtake each other and state.json may go back in  *)
(* time.  The argument is about what ends that: the supervisor goes on     *)
(* only after the worker, so its own save is the only one left, nothing    *)
(* changes under its walk, and it cannot raise.                            *)
(***************************************************************************)
EXTENDS SshCommand, StatePersistence, TLAPS

-------------------------------------------------------------------------------
(* SSH commands: the inductive invariant.                                  *)

\* Where the call has a process, registered or about to be.
Started == {"send", "wait", "communicate", "terminate", "grace", "unregister"}

\* The call may start another process without exceeding its attempts.
AttemptIsLeft == pc \in {"check", "spawn", "pause"} => attempt < Attempts

RegistryIsExact == registered = IF pc \in Started THEN {process.number} ELSE {}

EndedAndReaped ==
  pc \notin {"register", "send", "wait", "communicate", "terminate", "grace"}
    => ~Alive /\ process.reaped

\* A call that is about to register a process has started one.
ProcessExists == pc = "register" => process.number # 0

\* No process has been started after the event by a worker about to start one.
LateIsCounted ==
  /\ late <= 1
  /\ stop = "no" \/ pc = "spawn" => late = 0

SshInv ==
  /\ TypeOK
  /\ AttemptIsLeft
  /\ RegistryIsExact
  /\ ProcessExists
  /\ EndedAndReaped
  /\ LateIsCounted

-------------------------------------------------------------------------------
(* SSH commands: the proofs.                                               *)

LEMMA SshInitInv == Init => SshInv
BY BoundsArePositive
   DEF Init, SshInv, TypeOK, AttemptIsLeft, RegistryIsExact, ProcessExists,
       EndedAndReaped, LateIsCounted, Started, Running, Exits, Alive

\* A step of the worker that only goes elsewhere: not out of or into the stretch
\* with a registered process, and to a start only with an attempt left.
LEMMA GotoKeeps ==
  ASSUME SshInv,
         NEW label \in {"idle", "spawn", "check", "returned", "wait", "communicate",
                        "terminate", "after", "pause"},
         Goto(label), UNCHANGED others,
         label \in Started <=> pc \in Started,
         label \notin Started => ~Alive /\ process.reaped,
         label \in {"check", "spawn", "pause"} => attempt < Attempts,
         label = "spawn" => late = 0
  PROVE  SshInv'
<1> USE DEF Goto, others
<1>1. TypeOK'
  BY DEF SshInv, TypeOK, Running, Exits
<1>2. AttemptIsLeft' /\ RegistryIsExact' /\ ProcessExists' /\ LateIsCounted'
  BY DEF SshInv, AttemptIsLeft, RegistryIsExact, ProcessExists, LateIsCounted,
         Started
<1>3. EndedAndReaped'
  BY DEF SshInv, EndedAndReaped, Started, Alive
<1>4. QED
  BY <1>1, <1>2, <1>3 DEF SshInv

\* A step of the worker inside the stretch in which it has a registered process.
LEMMA StartedStep ==
  ASSUME SshInv, pc \in Started,
         NEW label \in Started, Goto(label),
         NEW p \in [number : Nat, state : Running \cup Exits, reaped : BOOLEAN,
                    why : {"none", "exit", "cancelled", "failed"}],
         process' = p, p.number = process.number,
         label = "unregister" => p.state \notin Running /\ p.reaped,
         UNCHANGED <<call, attempt, registered, stop, targets, late>>
  PROVE  SshInv'
<1> USE DEF Goto
<1>1. TypeOK'
  BY DEF SshInv, TypeOK, Started
<1>2. AttemptIsLeft' /\ RegistryIsExact' /\ ProcessExists' /\ LateIsCounted'
  BY DEF SshInv, AttemptIsLeft, RegistryIsExact, ProcessExists, LateIsCounted,
         Started
<1>3. EndedAndReaped'
  BY DEF EndedAndReaped, Started, Alive
<1>4. QED
  BY <1>1, <1>2, <1>3 DEF SshInv

LEMMA WorkerStep == SshInv /\ Worker => SshInv'
<1> SUFFICES ASSUME SshInv, Worker PROVE SshInv'
  OBVIOUS
<1> DEFINE Process == [number : Nat, state : Running \cup Exits, reaped : BOOLEAN,
                       why : {"none", "exit", "cancelled", "failed"}]
<1>p. process \in Process /\ process.number \in Nat
  BY DEF SshInv, TypeOK
<1>1. CASE BeginCall
  <2>1. TypeOK'
    BY <1>1, BoundsArePositive DEF BeginCall, Goto, SshInv, TypeOK
  <2>2. /\ AttemptIsLeft' /\ RegistryIsExact' /\ ProcessExists'
        /\ LateIsCounted' /\ EndedAndReaped'
    BY <1>1, BoundsArePositive
       DEF BeginCall, Goto, SshInv, AttemptIsLeft, RegistryIsExact,
           ProcessExists, LateIsCounted, EndedAndReaped, Started, Alive
  <2>3. QED
    BY <2>1, <2>2 DEF SshInv
<1>2. CASE WorkerReturns
  BY <1>2, GotoKeeps DEF WorkerReturns, SshInv, EndedAndReaped, Started
<1>3. CASE Check
  BY <1>3, GotoKeeps
     DEF Check, CancellationRequested, SshInv, EndedAndReaped, AttemptIsLeft,
         LateIsCounted, Started
<1>4. CASE Spawn
  <2>1. PICK state \in Running :
          process' = [number |-> process.number + 1, state |-> state,
                      reaped |-> FALSE, why |-> "none"]
    BY <1>4 DEF Spawn
  <2>2. process' \in Process /\ process'.number = process.number + 1
    BY <1>p, <2>1
  <2>3. 1..process.number \subseteq 1..process'.number
    BY <1>p, <2>2
  <2>4. attempt < Attempts /\ late = 0 /\ registered = {}
    BY <1>4 DEF Spawn, SshInv, AttemptIsLeft, LateIsCounted, RegistryIsExact,
                Started
  <2>5. attempt' \in 0..Attempts
    BY <1>4, <2>4, BoundsArePositive DEF Spawn, SshInv, TypeOK
  <2>6. late' \in Nat /\ late' <= 1 /\ (stop = "no" => late' = 0)
    BY <1>4, <2>4 DEF Spawn
  <2>7. TypeOK'
    BY <1>4, <2>2, <2>3, <2>5, <2>6 DEF Spawn, Goto, SshInv, TypeOK
  <2>p. process'.number # 0
    BY <1>p, <2>2
  <2>8. /\ AttemptIsLeft' /\ RegistryIsExact' /\ ProcessExists'
        /\ LateIsCounted' /\ EndedAndReaped'
    BY <1>4, <2>4, <2>6, <2>p
       DEF Spawn, Goto, AttemptIsLeft, RegistryIsExact, ProcessExists,
           LateIsCounted, EndedAndReaped, Started
  <2>9. QED
    BY <2>7, <2>8 DEF SshInv
<1>5. CASE RegisterProcess
  <2>1. registered' = {process.number} /\ process.number \in 1..process.number
    <3>1. process.number # 0
      BY <1>5 DEF RegisterProcess, SshInv, ProcessExists
    <3>2. QED
      BY <1>5, <1>p, <3>1 DEF RegisterProcess, SshInv, RegistryIsExact, Started
  <2>2. TypeOK'
    BY <1>5, <2>1 DEF RegisterProcess, Goto, SshInv, TypeOK
  <2>3. /\ AttemptIsLeft' /\ RegistryIsExact' /\ ProcessExists'
        /\ LateIsCounted' /\ EndedAndReaped'
    BY <1>5, <2>1
       DEF RegisterProcess, Goto, SshInv, AttemptIsLeft, RegistryIsExact,
           ProcessExists, LateIsCounted, EndedAndReaped, Started
  <2>4. QED
    BY <2>2, <2>3 DEF SshInv
<1>6. CASE SendInput
  BY <1>6, <1>p, GotoKeeps, StartedStep DEF SendInput, Decide, Started
<1>7. CASE SeeCancellation \/ GiveUp
  BY <1>7, <1>p, StartedStep DEF SeeCancellation, GiveUp, Decide, Started
<1>8. CASE WaitSlice \/ SliceEnds
  BY <1>8, GotoKeeps DEF WaitSlice, SliceEnds, Started
<1>9. CASE Collect
  <2>1. /\ process' \in Process
        /\ process'.number = process.number /\ process'.state \notin Running
        /\ process'.reaped
    BY <1>9, <1>p DEF Collect, Alive
  <2>2. QED
    BY <1>9, <2>1, StartedStep DEF Collect, Started
<1>10. CASE PipeFails
  BY <1>10, <1>p, StartedStep DEF PipeFails, Decide, Started
<1>11. CASE Terminate
  BY <1>11, <1>p, StartedStep DEF Terminate, Started, Exits
<1>12. CASE KillAndReap
  <2>1. /\ process' \in Process
        /\ process'.number = process.number /\ process'.state \notin Running
        /\ process'.reaped
    BY <1>12, <1>p DEF KillAndReap, Alive, Running, Exits
  <2>2. QED
    BY <1>12, <2>1, StartedStep DEF KillAndReap, Started
<1>13. CASE UnregisterProcess
  <2>1. registered' = {}
    BY <1>13 DEF UnregisterProcess, SshInv, RegistryIsExact, Started
  <2>2. pc' \in {"returned", "idle", "after"}
    BY <1>13 DEF UnregisterProcess, Goto
  <2>3. TypeOK'
    BY <1>13, <2>1, <2>2 DEF UnregisterProcess, SshInv, TypeOK
  <2>4. /\ AttemptIsLeft' /\ RegistryIsExact' /\ ProcessExists'
        /\ LateIsCounted' /\ EndedAndReaped'
    BY <1>13, <2>1, <2>2
       DEF UnregisterProcess, SshInv, AttemptIsLeft, RegistryIsExact,
           ProcessExists, LateIsCounted, EndedAndReaped, Started, Alive
  <2>5. QED
    BY <2>3, <2>4 DEF SshInv
<1>14. CASE AfterAttempt
  BY <1>14, GotoKeeps DEF AfterAttempt, SshInv, EndedAndReaped, Started
<1>15. CASE Pause
  BY <1>15, GotoKeeps DEF Pause, SshInv, EndedAndReaped, AttemptIsLeft, Started
<1>16. QED
  BY <1>1, <1>2, <1>3, <1>4, <1>5, <1>6, <1>7, <1>8, <1>9, <1>10, <1>11, <1>12,
     <1>13, <1>14, <1>15 DEF Worker

\* A process that exits or is signalled only ever stops running, and a process
\* that has been reaped does neither.
LEMMA ProcessStep ==
  ASSUME SshInv, ProcessExits \/ \E n \in 1..process.number : SignalProcess(n)
  PROVE  SshInv'
<1>1. PICK s \in Running \cup Exits :
        /\ process' = [process EXCEPT !.state = s]
        /\ s \in Running => Alive
  BY DEF ProcessExits, SignalProcess, SshInv, TypeOK, Exits, Running, Alive
<1>2. /\ process'.number = process.number /\ process'.reaped = process.reaped
      /\ process' \in [number : Nat, state : Running \cup Exits, reaped : BOOLEAN,
                        why : {"none", "exit", "cancelled", "failed"}]
      /\ Alive' => Alive
  BY <1>1 DEF SshInv, TypeOK, Alive
<1>3. /\ UNCHANGED <<pc, call, attempt, registered, stop, late>>
      /\ targets' \subseteq targets
  BY DEF ProcessExits, SignalProcess
<1>4. TypeOK'
  BY <1>2, <1>3 DEF SshInv, TypeOK
<1>5. /\ AttemptIsLeft' /\ RegistryIsExact' /\ ProcessExists'
      /\ LateIsCounted' /\ EndedAndReaped'
  BY <1>2, <1>3
     DEF SshInv, AttemptIsLeft, RegistryIsExact, ProcessExists, LateIsCounted,
         EndedAndReaped, Started
<1>6. QED
  BY <1>4, <1>5 DEF SshInv

LEMMA RequestStep ==
  ASSUME SshInv, SetEvent \/ LookAtProcesses \/ EndRequest
  PROVE  SshInv'
<1>1. TypeOK'
  BY DEF SetEvent, LookAtProcesses, EndRequest, SshInv, TypeOK
<1>2. /\ AttemptIsLeft' /\ RegistryIsExact' /\ ProcessExists'
      /\ LateIsCounted' /\ EndedAndReaped'
  BY DEF SetEvent, LookAtProcesses, EndRequest, SshInv, AttemptIsLeft,
         RegistryIsExact, ProcessExists, LateIsCounted, EndedAndReaped,
         Started, Alive
<1>3. QED
  BY <1>1, <1>2 DEF SshInv

LEMMA SshNextInv == SshInv /\ [Next]_vars => SshInv'
<1> SUFFICES ASSUME SshInv, [Next]_vars PROVE SshInv'
  OBVIOUS
<1>1. CASE Worker
  BY <1>1, WorkerStep
<1>2. CASE ProcessExits
  BY <1>2, ProcessStep
<1>3. CASE Request
  BY <1>3, ProcessStep, RequestStep DEF Request
<1>4. CASE UNCHANGED vars
  BY <1>4 DEF vars, SshInv, TypeOK, AttemptIsLeft, RegistryIsExact,
              ProcessExists, EndedAndReaped, LateIsCounted, Alive
<1>5. QED
  BY <1>1, <1>2, <1>3, <1>4 DEF Next

\* The invariant holds in every behaviour.
THEOREM SshInvHolds == Spec => []SshInv
BY SshInitInv, SshNextInv, PTL DEF Spec

\* ssh is type correct for every number of calls and attempts; in particular it
\* never starts more than transport_attempts processes for one call.
THEOREM SshTypeCorrect == Spec => []TypeOK
<1>1. SshInv => TypeOK
  BY DEF SshInv
<1>2. QED
  BY <1>1, SshInvHolds, PTL

\* Whatever ends a call (an exit, a cancellation, a deadline, a pipe that fails),
\* no process of it runs, is unreaped or registered once the worker goes on.
THEOREM WorkerLeavesNothing == Spec => []NothingLeftRunning
<1>1. SshInv => NothingLeftRunning
  BY DEF SshInv, NothingLeftRunning, RegistryIsExact, EndedAndReaped, Started
<1>2. QED
  BY <1>1, SshInvHolds, PTL

\* At most one process is started after the event of a stop has been set.
THEOREM StopStartsAtMostOne == Spec => []StopStartsNothingNew
<1>1. SshInv => StopStartsNothingNew
  BY DEF SshInv, StopStartsNothingNew, LateIsCounted
<1>2. QED
  BY <1>1, SshInvHolds, PTL

-------------------------------------------------------------------------------
(* Saves: the inductive invariant.                                         *)

\* The supervisor has gone on after the worker.
Settled == status \in {"testing", "cleanup_pending"}

\* A worker that has returned has no save of its own under way.
WorkerIsDone == ~working => doing["worker"] = "idle"

\* What is renamed over state.json is a whole state.
TextIsWritten == \A t \in Thread : doing[t] = "replace" => text[t] \in State

\* The last save of the loop, from the copy to the rename, carries the job.
LastSaveIsTheJob ==
  Settled =>
    /\ ~working
    /\ doing["loop"] # "idle"
    /\ doing["loop"] \in {"walk", "dump"} => copy["loop"] = status
    /\ doing["loop"] = "dump" => seen["loop"] = resources
    /\ doing["loop"] = "replace"
         => text["loop"] = [status |-> status, resources |-> resources]

DoneIsSettled == doing["loop"] = "done" => Settled

SavesInv ==
  /\ SavesTypeOK
  /\ WorkerIsDone
  /\ TextIsWritten
  /\ LastSaveIsTheJob
  /\ DoneIsSettled
  /\ SettledIsSaved

-------------------------------------------------------------------------------
(* Saves: the proofs.                                                      *)

LEMMA SavesInitInv == SavesInit => SavesInv
<1> SUFFICES ASSUME SavesInit PROVE SavesInv
  OBVIOUS
<1> USE DEF SavesInit
<1>1. disk \in State
  BY DEF State, Statuses
<1>2. SavesTypeOK
  BY <1>1 DEF SavesTypeOK, Statuses
<1>3. QED
  BY <1>2 DEF SavesInv, WorkerIsDone, TextIsWritten, LastSaveIsTheJob, DoneIsSettled,
              Settled, SettledIsSaved, Thread

\* Where a save goes next.
LEMMA GoesOnly ==
  ASSUME SavesTypeOK, NEW t \in Thread, NEW label, Goes(t, label)
  PROVE  /\ doing'[t] = label
         /\ \A u \in Thread \ {t} : doing'[u] = doing[u]
BY DEF SavesTypeOK, Goes

LEMMA SavesTypeStep == SavesInv /\ [SavesNext]_saves => SavesTypeOK'
<1> SUFFICES ASSUME SavesInv, [SavesNext]_saves PROVE SavesTypeOK'
  OBVIOUS
<1> USE DEF Goes, SavesTypeOK
<1>0. SavesTypeOK
  BY DEF SavesInv
<1>1. ASSUME NEW t \in Thread, CopyState(t) \/ BeginWalk(t) \/ DumpRaises(t)
      PROVE  SavesTypeOK'
  BY <1>0, <1>1 DEF CopyState, BeginWalk, DumpRaises
<1>2. ASSUME NEW t \in Thread, Dump(t) PROVE SavesTypeOK'
  <2>1. [status |-> copy[t], resources |-> resources] \in State
    BY <1>0 DEF State
  <2>2. QED
    BY <1>0, <1>2, <2>1 DEF Dump
<1>3. ASSUME NEW t \in Thread, Replace(t) PROVE SavesTypeOK'
  <2>1. disk' \in State
    BY <1>3 DEF Replace, SavesInv, TextIsWritten
  <2>2. doing' \in [Thread -> {"idle", "copy", "walk", "dump", "replace", "done"}]
    BY <1>0, <1>3 DEF Replace
  <2>3. text' \in [Thread -> State \cup {None}]
    BY <1>0, <1>3 DEF Replace
  <2>4. stopped' \in BOOLEAN /\ recorded' \subseteq Res
    BY <1>0, <1>3 DEF Replace
  <2>5. QED
    BY <1>0, <1>3, <2>1, <2>2, <2>3, <2>4 DEF Replace
<1>4. ASSUME NEW r \in Res, RecordResource(r) PROVE SavesTypeOK'
  BY <1>0, <1>4 DEF RecordResource, Thread
<1>5. CASE EndWorker \/ RequestStop \/ GoOn
  BY <1>0, <1>5 DEF EndWorker, RequestStop, GoOn, Thread, Statuses
<1>6. CASE UNCHANGED saves
  BY <1>0, <1>6 DEF saves
<1>7. QED
  BY <1>1, <1>2, <1>3, <1>4, <1>5, <1>6 DEF SavesNext, Save

LEMMA SavesNextInv == SavesInv /\ [SavesNext]_saves => SavesInv'
<1> SUFFICES ASSUME SavesInv, [SavesNext]_saves PROVE SavesInv'
  OBVIOUS
<1> USE DEF Thread
<1>t. SavesTypeOK /\ SavesTypeOK'
  BY SavesTypeStep DEF SavesInv
<1>1. CASE Save("worker")
  \* The worker saves only while it works, so the supervisor has not gone on.
  <2>1. working /\ ~Settled /\ doing["loop"] # "done"
    BY <1>1 DEF Save, CopyState, BeginWalk, Dump, DumpRaises, Replace, SavesInv,
                WorkerIsDone, LastSaveIsTheJob, DoneIsSettled
  <2>2. doing'["loop"] = doing["loop"] /\ UNCHANGED <<status, working>>
    BY <1>1, <1>t, GoesOnly
       DEF Save, CopyState, BeginWalk, Dump, DumpRaises, Replace
  <2>3. TextIsWritten'
    BY <1>1, <1>t
       DEF Save, CopyState, BeginWalk, Dump, DumpRaises, Replace, SavesInv, SavesTypeOK,
           TextIsWritten, Goes, State
  <2>4. QED
    BY <1>t, <2>1, <2>2, <2>3
       DEF SavesInv, WorkerIsDone, LastSaveIsTheJob, DoneIsSettled, Settled,
           SettledIsSaved
<1>2. CASE Save("loop")
  <2>1. doing'["worker"] = doing["worker"] /\ UNCHANGED <<status, resources, working>>
    BY <1>2, <1>t, GoesOnly
       DEF Save, CopyState, BeginWalk, Dump, DumpRaises, Replace
  <2>2. TextIsWritten'
    BY <1>2, <1>t
       DEF Save, CopyState, BeginWalk, Dump, DumpRaises, Replace, SavesInv, SavesTypeOK,
           TextIsWritten, Goes, State
  <2>3. doing["loop"] \notin {"idle", "done"}
    BY <1>2 DEF Save, CopyState, BeginWalk, Dump, DumpRaises, Replace
  <2>4. LastSaveIsTheJob'
    BY <1>2, <1>t, <2>1
       DEF Save, CopyState, BeginWalk, Dump, DumpRaises, Replace, SavesInv, SavesTypeOK,
           LastSaveIsTheJob, Settled, Goes
  <2>5. DoneIsSettled' /\ SettledIsSaved'
    BY <1>2, <1>t, <2>1, <2>3
       DEF Save, CopyState, BeginWalk, Dump, DumpRaises, Replace, SavesInv, SavesTypeOK,
           LastSaveIsTheJob, DoneIsSettled, Settled, SettledIsSaved, Goes,
           Statuses
  <2>6. QED
    BY <1>t, <2>1, <2>2, <2>4, <2>5 DEF SavesInv, WorkerIsDone
<1>3. ASSUME NEW r \in Res, RecordResource(r) PROVE SavesInv'
  BY <1>3, <1>t, GoesOnly
     DEF RecordResource, SavesInv, WorkerIsDone, TextIsWritten, LastSaveIsTheJob,
         DoneIsSettled, Settled, SettledIsSaved
<1>4. CASE EndWorker
  BY <1>4, <1>t
     DEF EndWorker, SavesInv, WorkerIsDone, TextIsWritten, LastSaveIsTheJob,
         DoneIsSettled, Settled, SettledIsSaved
<1>5. CASE RequestStop \/ GoOn
  BY <1>5, <1>t, GoesOnly
     DEF RequestStop, GoOn, SavesInv, WorkerIsDone, TextIsWritten, LastSaveIsTheJob,
         DoneIsSettled, Settled, SettledIsSaved
<1>6. CASE UNCHANGED saves
  BY <1>6
     DEF saves, SavesInv, SavesTypeOK, WorkerIsDone, TextIsWritten, LastSaveIsTheJob,
         DoneIsSettled, Settled, SettledIsSaved
<1>7. QED
  BY <1>1, <1>2, <1>3, <1>4, <1>5, <1>6 DEF SavesNext

\* The invariant holds in every behaviour.
THEOREM SavesInvHolds == SavesSpec => []SavesInv
BY SavesInitInv, SavesNextInv, PTL DEF SavesSpec

\* Saving is type correct for every set of resources; in particular a temporary
\* file is renamed over state.json only after it was written.
THEOREM PersistenceTypeCorrect == SavesSpec => []SavesTypeOK
<1>1. SavesInv => SavesTypeOK
  BY DEF SavesInv
<1>2. QED
  BY <1>1, SavesInvHolds, PTL

\* When the supervisor has gone on, state.json holds the job's status and every
\* resource, whatever saves overtook each other before.
THEOREM SettledStateIsSaved == SavesSpec => []SettledIsSaved
<1>1. SavesInv => SettledIsSaved
  BY DEF SavesInv
<1>2. QED
  BY <1>1, SavesInvHolds, PTL
===============================================================================
