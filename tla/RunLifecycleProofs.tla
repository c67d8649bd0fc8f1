-------------------------- MODULE RunLifecycleProofs --------------------------
(***************************************************************************)
(* TLAPS proofs about RunLifecycle, for any number of servers, destroy     *)
(* requests and resources.  The argument has two layers.  Control: a run   *)
(* task, a worker, a request that has read the state under the lease and a *)
(* thread that removes history each have the lease to themselves, so only  *)
(* one of them moves the run at a time, and while a supervisor lives       *)
(* state.json is its job and no other server has one.  Cloud: whatever     *)
(* state.json or a job object of any server says, however old it is, covers*)
(* the resources that exist, because nothing is created before it is known *)
(* and only the supervisor of the one job ever creates.                    *)
(***************************************************************************)
EXTENDS RunLifecycle, TLAPS

-------------------------------------------------------------------------------
(* The inductive invariant of control.                                     *)

Early == {"created", "provision", "test", "report"}
Reporting == {"failReport", "stopReport"}
Cleaning == {"cleanup", "failCleanup", "stopCleanup"}
RunTasks == Early \cup Reporting \cup Cleaning
Destroying(s) == worker[s].result = "busy" /\ worker[s].op \in {"destroy", "delete"}

\* Whoever moves the run has its lease.
LeaseIsHeld ==
  /\ \A s \in Server : task[s] \in RunTasks => lease = RunLease(s)
  /\ WorkersOwnTheRun
  /\ \A q \in Request : req[q].pc = "reload" =>
       /\ lease = DestroyLease(req[q].server)
       /\ worker[req[q].server].result # "busy"
  /\ \A q, r \in Request : req[q].pc = "reload" /\ req[r].pc = "reload" => q = r
  /\ \A s \in Server :
       clearing[s] \in {"check", "remove", "release"} => lease = ClearLease(s)

\* A task has a job, and a supervisor the only one.
TasksHaveJobs ==
  \A s \in Server :
    /\ registered[s] \/ task[s] # "none" => job[s] # None
    /\ tasked[s] => task[s] # "none"
    /\ task[s] \in RunTasks => \A t \in Server \ {s} : job[t] = None

\* A worker does what the label its task is suspended at says.
WorkersFit ==
  \A s \in Server : worker[s].result = "busy" =>
    /\ worker[s].op = "provision" <=> task[s] = "provision"
    /\ worker[s].op = "test" <=> task[s] = "test"
    /\ worker[s].op \in {"destroy", "delete", "unlock"}
         <=> task[s] \in Cleaning \cup {"destroy"}
    /\ worker[s].op = "unlock" \/ worker[s].lease # None => task[s] = "destroy"
    /\ task[s] \notin {"none", "created"}

\* The status of a job fits the label.
StatusFits ==
  \A s \in Server :
    /\ task[s] \in Early => job[s].status \in Cancellable /\ ~job[s].error
    /\ task[s] \in {"created", "provision"} => "terminal" \notin job[s].known
    /\ task[s] \in Reporting => job[s].status \in {"failed", "cleanup_pending"}
    /\ task[s] \in Cleaning \cup {"destroy"} =>
         job[s].status \in IF Destroying(s)
                           THEN {"failed", "cleanup_pending", "destroying"}
                           ELSE {"cleanup_failed", "destroyed"}

\* Requests.
RequestsFit ==
  \A q \in Request :
    /\ req[q].pc # "idle" => req[q].server \in Server /\ stopping[req[q].server] = "no"
    /\ req[q].pc = "stop" => task[req[q].server] \in Early
    /\ req[q].pc = "rewrite" => dir \in {"gone", "recreated"}
    /\ req[q].pc \in {"wait", "ready", "load"} /\ req[q].live => dir # "none"

\* The directory and the state in it.
DirectoryFits ==
  /\ InPlace <=> disk # None
  /\ dir = "none" => lease = None /\ \A s \in Server : job[s] = None
  /\ \A q \in Request : req[q].pc = "reload" => disk # None
  /\ \A s \in Server : clearing[s] = "check" => disk # None

\* While a run is in history, its state is the job of the one who moves it.
StateIsTheJob ==
  \A s \in Server :
    task[s] \in RunTasks \/ (worker[s].result = "busy" /\ dir = "here")
      => disk = Saved(job[s])

Control ==
  /\ TypeOK
  /\ LeaseIsHeld
  /\ TasksHaveJobs
  /\ WorkersFit
  /\ StatusFits
  /\ RequestsFit
  /\ DirectoryFits
  /\ StateIsTheJob

-------------------------------------------------------------------------------
(* The inductive invariant of the cloud.                                   *)

\* What j records covers the resources that exist.
Covers(j) ==
  /\ cloud \subseteq Reachable(j)
  /\ j.status = "destroyed" \/ "terminal" \in j.known => cloud = {}

\* The kind "ids" records a resource only after it exists.
CloudIsCovered ==
  kind # "ids" =>
    /\ IF disk = None THEN cloud = {} ELSE Covers(disk)
    /\ \A s \in Server : job[s] # None => Covers(job[s])
    /\ \A s \in Server : Busy(s, "delete") => worker[s].bad \/ cloud \subseteq worker[s].todo
    /\ \A s \in Server : clearing[s] = "remove" => cloud = {}

-------------------------------------------------------------------------------
(* What a supervisor does between two suspensions.                         *)

\* k is what the supervisor makes of j: it tracks the same resources, and
\* neither gives nor takes a destroyed status, nor an outcome.
Follows(j, k) ==
  /\ k \in Job
  /\ k.known = j.known
  /\ k.status = "destroyed" <=> j.status = "destroyed"
  /\ Outcome(j) \in {"complete", "failed"} => Outcome(k) = Outcome(j)

\* The job k is left at label with a worker for op.
Awaits(k, label, op) ==
  \/ /\ label \in {"provision", "test", "report"} /\ op = label
     /\ k.status \in Cancellable /\ ~k.error
  \/ /\ label \in Reporting /\ op = "report"
     /\ k.status \in {"failed", "cleanup_pending"}
  \/ /\ label \in Cleaning /\ op = "destroy"
     /\ k.status \in {"failed", "cleanup_pending"}

\* The supervisor of s is suspended again, or ends.
Moves(s, j) ==
  \E k \in Job :
    /\ Follows(j, k)
    /\ \/ Finish(s, k)
       \/ \E label \in RunTasks \ {"created", "provision"}, op \in {"test", "report", "destroy"} :
            Awaits(k, label, op) /\ Suspend(s, k, label, op)

LEMMA StopMoves ==
  ASSUME NEW s \in Server, NEW j \in Job, StopJob(s, j)
  PROVE  Moves(s, j)
<1> DEFINE marked == [Interrupt(j, Outcome(j)) EXCEPT !.stopStarted = TRUE]
           stopped == [marked EXCEPT
                         !.error = IF Outcome(j) \in {"complete", "failed"} THEN @ ELSE FALSE]
           pending == [stopped EXCEPT !.status = "cleanup_pending"]
<1>1. /\ stopped \in Job /\ pending \in Job
      /\ stopped.status = j.status /\ pending.status = "cleanup_pending"
  BY DEF Job, Interrupt, Status, Active
<1>2. Follows(j, j)
  BY DEF Follows
<1>3. Follows(j, stopped)
  BY <1>1 DEF Follows, Job, Interrupt, Outcome
<1>4. j.status # "destroyed" => Follows(j, pending)
  BY <1>1 DEF Follows, Job, Interrupt, Outcome
<1>5. \/ Finish(s, j) \/ Finish(s, stopped)
      \/ j.status # "destroyed" /\ Suspend(s, pending, "stopReport", "report")
      \/ j.status # "destroyed" /\ Suspend(s, pending, "stopCleanup", "destroy")
  BY DEF StopJob
<1>6. Awaits(pending, "stopReport", "report") /\ Awaits(pending, "stopCleanup", "destroy")
  BY <1>1 DEF Awaits, Reporting, Cleaning
<1>7. QED
  BY <1>1, <1>2, <1>3, <1>4, <1>5, <1>6
     DEF Moves, RunTasks, Reporting, Cleaning

LEMMA FinallyMoves ==
  ASSUME NEW s \in Server, NEW j \in Job, Finally(s, j)
  PROVE  Moves(s, j)
<1>1. Follows(j, j)
  BY DEF Follows
<1>2. QED
  BY <1>1, StopMoves DEF Finally, Moves

LEMMA FailMoves ==
  ASSUME NEW s \in Server, NEW j \in Job, j.status # "destroyed", FailJob(s, j)
  PROVE  Moves(s, j)
<1> DEFINE failed == [j EXCEPT !.error = TRUE,
                               !.status = IF j.autoDestroy THEN "cleanup_pending"
                                                           ELSE "failed"]
<1>1. failed \in Job /\ failed.status \in {"failed", "cleanup_pending"}
  BY DEF Job, Status, Active
<1>2. Follows(j, failed)
  BY <1>1 DEF Follows, Job, Outcome
<1>3. \/ StopJob(s, j)
      \/ Suspend(s, failed, "failReport", "report")
      \/ Suspend(s, failed, "failCleanup", "destroy")
      \/ Finish(s, failed)
  <2>1. failed.cancel = j.cancel
    BY DEF Job
  <2>2. QED
    BY <2>1 DEF FailJob, Finally
<1>4. Awaits(failed, "failReport", "report") /\ Awaits(failed, "failCleanup", "destroy")
  BY <1>1 DEF Awaits, Reporting, Cleaning
<1>5. QED
  BY <1>1, <1>2, <1>3, <1>4, StopMoves DEF Moves, RunTasks, Reporting, Cleaning

\* A supervisor that goes on after a step of the try block does so either as
\* its next step says or as Moves does.
LEMMA ContinueMoves ==
  ASSUME NEW s \in Server, job[s] \in Job, job[s].status # "destroyed",
         NEW next, Continue(s, next), next => Moves(s, job[s])
  PROVE  Moves(s, job[s])
BY FinallyMoves, StopMoves, FailMoves DEF Continue

LEMMA SuspendMoves ==
  ASSUME NEW s \in Server, job[s] \in Job, job[s].status # "destroyed",
         NEW status \in Status \ {"destroyed"},
         NEW label \in RunTasks \ {"created", "provision"},
         NEW op \in {"test", "report", "destroy"},
         Awaits([job[s] EXCEPT !.status = status], label, op),
         Suspend(s, [job[s] EXCEPT !.status = status], label, op)
  PROVE  Moves(s, job[s])
<1>1. [job[s] EXCEPT !.status = status] \in Job
  BY DEF Job
<1>2. Follows(job[s], [job[s] EXCEPT !.status = status])
  BY <1>1 DEF Follows, Job, Outcome
<1>3. QED
  BY <1>1, <1>2 DEF Moves

LEMMA FinishMoves ==
  ASSUME NEW s \in Server, job[s] \in Job, job[s].status # "destroyed",
         NEW status \in Status \ {"destroyed"},
         Finish(s, [job[s] EXCEPT !.status = status])
  PROVE  Moves(s, job[s])
<1>1. [job[s] EXCEPT !.status = status] \in Job
  BY DEF Job
<1>2. Follows(job[s], [job[s] EXCEPT !.status = status])
  BY <1>1 DEF Follows, Job, Outcome
<1>3. QED
  BY <1>1, <1>2 DEF Moves

After(s) ==
  \/ AfterProvision(s) \/ AfterTest(s) \/ AfterReport(s)
  \/ AfterFailReport(s) \/ AfterStopReport(s) \/ AfterCleanup(s)

LEMMA AfterMoves ==
  ASSUME Control, NEW s \in Server, After(s)
  PROVE  Moves(s, job[s])
<1>0. task[s] \in RunTasks /\ job[s] \in Job
  BY DEF After, AfterProvision, AfterTest, AfterReport, AfterFailReport,
         AfterStopReport, AfterCleanup, Resumes, RunTasks, Early, Reporting,
         Cleaning, Control, TypeOK, TasksHaveJobs
<1>e. task[s] \in Early =>
        job[s].status \in Status \ {"destroyed"} /\ job[s].status \in Cancellable
          /\ ~job[s].error
  BY DEF Control, StatusFits, Cancellable, Status, Active
<1>r. task[s] \in Reporting =>
        job[s].status \in Status \ {"destroyed"}
          /\ job[s].status \in {"failed", "cleanup_pending"}
  BY DEF Control, StatusFits, Status, Active
<1>1. CASE AfterProvision(s)
  <2>1. Awaits([job[s] EXCEPT !.status = "testing"], "test", "test")
    BY <1>0, <1>1, <1>e DEF AfterProvision, Resumes, Early, Awaits, Cancellable, Job
  <2>2. Suspend(s, [job[s] EXCEPT !.status = "testing"], "test", "test")
          => Moves(s, job[s])
    BY <1>0, <1>1, <1>e, <2>1, SuspendMoves
       DEF AfterProvision, Resumes, Early, RunTasks, Status, Active
  <2>3. QED
    BY <1>0, <1>1, <1>e, <2>2, ContinueMoves DEF AfterProvision, Resumes, Early
<1>2. CASE AfterTest(s)
  <2>1. Awaits([job[s] EXCEPT !.status = "reporting"], "report", "report")
    BY <1>0, <1>2, <1>e DEF AfterTest, Resumes, Early, Awaits, Cancellable, Job
  <2>2. Suspend(s, [job[s] EXCEPT !.status = "reporting"], "report", "report")
          => Moves(s, job[s])
    BY <1>0, <1>2, <1>e, <2>1, SuspendMoves
       DEF AfterTest, Resumes, Early, RunTasks, Status, Active
  <2>3. FailJob(s, job[s]) => Moves(s, job[s])
    BY <1>0, <1>2, <1>e, FailMoves DEF AfterTest, Resumes, Early
  <2>4. QED
    BY <1>0, <1>2, <1>e, <2>2, <2>3, ContinueMoves DEF AfterTest, Resumes, Early
<1>3. CASE AfterReport(s)
  <2>1. Awaits([job[s] EXCEPT !.status = "cleanup_pending"], "cleanup", "destroy")
    BY <1>0 DEF Awaits, Cleaning, Job
  <2>2. Suspend(s, [job[s] EXCEPT !.status = "cleanup_pending"], "cleanup", "destroy")
          => Moves(s, job[s])
    BY <1>0, <1>3, <1>e, <2>1, SuspendMoves
       DEF AfterReport, Resumes, Early, RunTasks, Cleaning, Status, Active
  <2>3. Finish(s, [job[s] EXCEPT !.status = "complete"]) => Moves(s, job[s])
    BY <1>0, <1>3, <1>e, FinishMoves DEF AfterReport, Resumes, Early, Status
  <2>4. QED
    BY <1>0, <1>3, <1>e, <2>2, <2>3, ContinueMoves DEF AfterReport, Resumes, Early
<1>4. CASE AfterFailReport(s) \/ AfterStopReport(s)
  <2>1. \/ Finally(s, job[s]) \/ Finish(s, job[s])
        \/ \E label \in {"failCleanup", "stopCleanup"} :
             Suspend(s, job[s], label, "destroy")
    BY <1>4 DEF AfterFailReport, AfterStopReport
  <2>2. job[s].status \in {"failed", "cleanup_pending"}
    BY <1>4, <1>r DEF AfterFailReport, AfterStopReport, Resumes, Reporting
  <2>3. Follows(job[s], job[s])
    BY <1>0 DEF Follows
  <2>4. \A label \in {"failCleanup", "stopCleanup"} : Awaits(job[s], label, "destroy")
    BY <2>2 DEF Awaits, Cleaning
  <2>5. QED
    BY <1>0, <2>1, <2>3, <2>4, FinallyMoves DEF Moves, RunTasks, Cleaning
<1>5. CASE AfterCleanup(s)
  BY <1>0, <1>5, FinallyMoves DEF AfterCleanup
<1>6. QED
  BY <1>1, <1>2, <1>3, <1>4, <1>5 DEF After

LEMMA StartMoves ==
  ASSUME Control, NEW s \in Server, StartRun(s), stopping[s] = "no"
  PROVE  \/ Moves(s, job[s])
         \/ Suspend(s, [job[s] EXCEPT !.status = "provisioning"], "provision", "provision")
<1>1. job[s] \in Job
  BY DEF StartRun, Control, TypeOK, TasksHaveJobs
<1>2. QED
  BY <1>1, StopMoves DEF StartRun

-------------------------------------------------------------------------------
(* Whoever moves the run is alone.                                         *)

LEMMA LeasesDiffer ==
  ASSUME NEW s \in Server, NEW t \in Server
  PROVE  /\ RunLease(s) # None /\ DestroyLease(s) # None /\ ClearLease(s) # None
         /\ RunLease(s) # DestroyLease(t) /\ RunLease(s) # ClearLease(t)
         /\ DestroyLease(s) # ClearLease(t)
         /\ RunLease(s) = RunLease(t) => s = t
         /\ DestroyLease(s) = DestroyLease(t) => s = t
         /\ ClearLease(s) = ClearLease(t) => s = t
<1>1. /\ RunLease(s) \in {"run", "destroy", "clear"} \X Server
      /\ DestroyLease(s) \in {"run", "destroy", "clear"} \X Server
      /\ ClearLease(s) \in {"run", "destroy", "clear"} \X Server
  BY DEF RunLease, DestroyLease, ClearLease
<1>2. QED
  BY <1>1, NoneDistinct DEF RunLease, DestroyLease, ClearLease

LEMMA SavedFields ==
  ASSUME NEW j \in Job
  PROVE  /\ Saved(j) \in Job /\ Saved(j) # None
         /\ Saved(j).status = j.status /\ Saved(j).known = j.known
         /\ Saved(j).results = j.results /\ Saved(j).error = j.error
         /\ Saved(j).interrupted = j.interrupted
         /\ Outcome(Saved(j)) = Outcome(j)
<1>1. Saved(j) \in Job
  BY DEF Saved, Job
<1>2. /\ Saved(j).status = j.status /\ Saved(j).known = j.known
      /\ Saved(j).results = j.results /\ Saved(j).error = j.error
      /\ Saved(j).interrupted = j.interrupted
  BY DEF Saved, Job
<1>3. Outcome(Saved(j)) = Outcome(j)
  BY <1>2 DEF Outcome
<1>4. QED
  BY <1>1, <1>2, <1>3, NoneDistinct

\* While a supervisor lives, no other server has a job, and no request and no
\* removal has the lease.
LEMMA SupervisorIsAlone ==
  ASSUME Control, NEW s \in Server, task[s] \in RunTasks
  PROVE  /\ lease = RunLease(s) /\ job[s] \in Job
         /\ \A t \in Server \ {s} : /\ job[t] = None /\ ~registered[t]
                                    /\ task[t] = "none" /\ worker[t].result # "busy"
         /\ \A q \in Request : req[q].pc # "reload"
         /\ \A t \in Server : clearing[t] \notin {"check", "remove", "release"}
         /\ disk = Saved(job[s]) /\ disk # None /\ InPlace
<1>1. lease = RunLease(s) /\ job[s] \in Job /\ disk = Saved(job[s])
  BY DEF Control, LeaseIsHeld, TypeOK, TasksHaveJobs, StateIsTheJob, RunTasks, Early,
         Reporting, Cleaning
<1>2. \A t \in Server \ {s} : /\ job[t] = None /\ ~registered[t]
                              /\ task[t] = "none" /\ worker[t].result # "busy"
  BY DEF Control, TasksHaveJobs, WorkersFit
<1>3. \A q \in Request : req[q].pc # "reload"
  BY <1>1, LeasesDiffer DEF Control, LeaseIsHeld, RequestsFit
<1>4. \A t \in Server : clearing[t] \notin {"check", "remove", "release"}
  BY <1>1, LeasesDiffer DEF Control, LeaseIsHeld
<1>5. QED
  BY <1>1, <1>2, <1>3, <1>4, SavedFields DEF Control, DirectoryFits

\* While a request has read the state, or a worker cleans up for one, there is no
\* supervisor, and no other worker.
LEMMA DestroyerIsAlone ==
  ASSUME Control, NEW s \in Server, lease = DestroyLease(s)
  PROVE  /\ \A t \in Server : task[t] \notin RunTasks
         /\ \A t \in Server \ {s} : worker[t].result # "busy"
         /\ \A q \in Request : req[q].pc = "reload" => req[q].server = s
         /\ \A t \in Server : clearing[t] \notin {"check", "remove", "release"}
         /\ dir # "none"
<1>1. \A t \in Server : task[t] \notin RunTasks
  BY LeasesDiffer DEF Control, LeaseIsHeld
<1>2. \A t \in Server \ {s} : worker[t].result # "busy"
  BY LeasesDiffer DEF Control, LeaseIsHeld, WorkersOwnTheRun
<1>3. \A q \in Request : req[q].pc = "reload" => req[q].server = s
  BY LeasesDiffer DEF Control, LeaseIsHeld, RequestsFit
<1>4. \A t \in Server : clearing[t] \notin {"check", "remove", "release"}
  BY LeasesDiffer DEF Control, LeaseIsHeld
<1>5. QED
  BY <1>1, <1>2, <1>3, <1>4, LeasesDiffer DEF Control, DirectoryFits

\* Without a lease, or with one to remove history, nobody moves the run.
LEMMA NobodyMoves ==
  ASSUME Control, \A s \in Server : lease \notin {RunLease(s), DestroyLease(s)}
  PROVE  /\ \A t \in Server : task[t] \notin RunTasks /\ worker[t].result # "busy"
         /\ \A q \in Request : req[q].pc # "reload"
BY DEF Control, LeaseIsHeld, WorkersOwnTheRun, RequestsFit

-------------------------------------------------------------------------------
(* The steps of supervisors keep control.                                  *)

LEMMA StartType ==
  ASSUME NEW op \in {"none", "provision", "test", "report", "destroy", "delete", "unlock"}
  PROVE  /\ Start(op) \in WorkerState /\ Idle \in WorkerState
         /\ Start(op).op = op /\ Start(op).result = "busy" /\ Idle.result = "none"
         /\ Start(op).bad = FALSE /\ Start(op).made = None /\ Start(op).lease = None
BY DEF Start, Idle, WorkerState

\* What else a step of the loop at the end of an await changes.
StoppingGoesOn ==
  /\ stopping' \in [Server -> {"no", "pending", "delivered"}]
  /\ \A s \in Server : stopping[s] = "no" => stopping'[s] = "no"

LEMMA SuspendControl ==
  ASSUME Control, NEW s \in Server, task[s] \in RunTasks, LoopFree(s),
         NEW k \in Job, k.known = job[s].known,
         NEW label \in RunTasks \ {"created"},
         NEW op \in {"provision", "test", "report", "destroy"},
         Awaits(k, label, op), label = "provision" => task[s] = "created",
         Suspend(s, k, label, op), StoppingGoesOn,
         UNCHANGED <<kind, cloud, registered, clearing>>
  PROVE  Control'
<1>a. /\ lease = RunLease(s) /\ job[s] \in Job
      /\ \A t \in Server \ {s} : /\ job[t] = None /\ ~registered[t]
                                 /\ task[t] = "none" /\ worker[t].result # "busy"
      /\ \A q \in Request : req[q].pc # "reload"
      /\ \A t \in Server : clearing[t] \notin {"check", "remove", "release"}
      /\ disk # None /\ InPlace
  BY SupervisorIsAlone
<1>k. Saved(k) \in Job /\ Saved(k) # None
  BY SavedFields
<1>u. UNCHANGED <<kind, cloud, registered, clearing, lease, tasked, req>>
  BY DEF Suspend
<1>j. /\ job' = [job EXCEPT ![s] = k] /\ disk' = Saved(k)
      /\ dir' = IF dir \in {"none", "here"} THEN "here" ELSE "recreated"
      /\ task' = [task EXCEPT ![s] = label]
      /\ worker' = [worker EXCEPT ![s] = Start(op)]
  BY DEF Suspend, Persist
<1>d. dir \in {"here", "recreated"} /\ dir' = dir
  BY <1>a, <1>j DEF InPlace
<1>t. label \in Label
  BY DEF RunTasks, Early, Reporting, Cleaning, Label
<1>1. TypeOK'
  BY <1>k, <1>u, <1>j, <1>d, <1>t, StartType DEF Control, TypeOK, StoppingGoesOn
<1>v. /\ job'[s] = k /\ task'[s] = label /\ worker'[s] = Start(op)
      /\ \A t \in Server \ {s} : /\ job'[t] = job[t] /\ task'[t] = task[t]
                                 /\ worker'[t] = worker[t]
  BY <1>j DEF Control, TypeOK
<1>s. worker'[s].op = op /\ worker'[s].result = "busy" /\ worker'[s].lease = None
  BY <1>v, StartType
<1>2. LeaseIsHeld'
  BY <1>a, <1>u, <1>v DEF LeaseIsHeld, WorkersOwnTheRun, RunTasks, Early, Reporting,
                          Cleaning
<1>3. TasksHaveJobs'
  BY <1>a, <1>u, <1>v, NoneDistinct
     DEF Control, TasksHaveJobs, RunTasks, Early, Reporting, Cleaning
<1>4. WorkersFit'
  BY <1>a, <1>v, <1>s DEF WorkersFit, Awaits, Early, Reporting, Cleaning
<1>5. StatusFits'
  <2>1. label \in Cleaning => op = "destroy"
    BY DEF Awaits, Reporting, Cleaning
  <2>2. label = "provision" => "terminal" \notin k.known
    BY DEF Control, StatusFits
  <2>3. label \in Early => k.status \in Cancellable /\ ~k.error
    BY DEF Awaits, Early, Reporting, Cleaning
  <2>4. label \in Reporting \cup Cleaning => k.status \in {"failed", "cleanup_pending"}
    BY DEF Awaits, Early, Reporting, Cleaning
  <2>5. label \notin {"created", "destroy"}
    BY DEF RunTasks, Early, Reporting, Cleaning
  <2>6. Destroying(s)' <=> op = "destroy"
    BY <1>s DEF Destroying
  <2>7. QED
    BY <1>a, <1>v, <2>1, <2>2, <2>3, <2>4, <2>5, <2>6 DEF StatusFits, Early, Reporting, Cleaning
<1>6. RequestsFit'
  <2>1. \A q \in Request : req[q].pc # "idle" => req[q].server \in Server
    BY DEF Control, RequestsFit
  <2>2. \A q \in Request : req[q].server = s => req[q].pc # "stop"
    BY DEF LoopFree
  <2>3. QED
    BY <1>u, <1>v, <1>d, <2>1, <2>2 DEF Control, RequestsFit, StoppingGoesOn
<1>7. DirectoryFits' /\ StateIsTheJob'
  BY <1>a, <1>u, <1>v, <1>j, <1>k, <1>d
     DEF DirectoryFits, StateIsTheJob, InPlace, RunTasks, Early, Reporting, Cleaning
<1>8. QED
  BY <1>1, <1>2, <1>3, <1>4, <1>5, <1>6, <1>7 DEF Control

\* The end of a supervisor.
LEMMA EndControl ==
  ASSUME Control, NEW s \in Server, task[s] \in RunTasks, LoopFree(s),
         lease' = None, TaskDone(s),
         \/ UNCHANGED <<job, disk, dir>>
         \/ \E j, k \in Job : job' = [job EXCEPT ![s] = j] /\ Persist(k),
         StoppingGoesOn, UNCHANGED <<kind, cloud, registered, clearing>>
  PROVE  Control'
<1>a. /\ lease = RunLease(s) /\ job[s] \in Job
      /\ \A t \in Server \ {s} : /\ job[t] = None /\ ~registered[t]
                                 /\ task[t] = "none" /\ worker[t].result # "busy"
      /\ \A q \in Request : req[q].pc # "reload"
      /\ \A t \in Server : clearing[t] \notin {"check", "remove", "release"}
      /\ disk # None /\ InPlace
  BY SupervisorIsAlone
<1>j. /\ job' \in [Server -> Job \cup {None}] /\ job'[s] \in Job
      /\ disk' \in Job /\ dir' = dir
  BY <1>a, SavedFields DEF Control, TypeOK, Persist, InPlace
<1>u. /\ task' = [task EXCEPT ![s] = "none"] /\ tasked' = [tasked EXCEPT ![s] = FALSE]
      /\ worker' = [worker EXCEPT ![s] = Idle]
  BY DEF TaskDone
<1>q. \A q \in Request :
        /\ req'[q] \in RequestState
        /\ req'[q].server = req[q].server /\ req'[q].live = req[q].live
        /\ req'[q].pc = req[q].pc \/ (req[q].pc = "wait" /\ req'[q].pc = "ready")
  BY DEF TaskDone, Awaken, Control, TypeOK, RequestState
<1>1. TypeOK'
  <2>1. req' \in [Request -> RequestState]
    BY <1>q DEF TaskDone, Awaken
  <2>2. QED
    BY <1>j, <1>u, <2>1, StartType DEF Control, TypeOK, StoppingGoesOn, Label
<1>v. /\ task'[s] = "none" /\ worker'[s].result # "busy" /\ ~tasked'[s]
      /\ \A t \in Server \ {s} : /\ task'[t] = "none" /\ worker'[t].result # "busy"
                                 /\ tasked'[t] = tasked[t]
  BY <1>a, <1>u, StartType DEF Control, TypeOK
<1>n. "none" \notin RunTasks \cup Early \cup Reporting \cup Cleaning
  BY DEF RunTasks, Early, Reporting, Cleaning
<1>2. LeaseIsHeld'
  BY <1>a, <1>q, <1>v, <1>n DEF LeaseIsHeld, WorkersOwnTheRun
<1>3. TasksHaveJobs' /\ WorkersFit' /\ StatusFits'
  BY <1>a, <1>j, <1>v, <1>n, NoneDistinct
     DEF Control, TasksHaveJobs, WorkersFit, StatusFits
<1>4. RequestsFit'
  <2>1. \A q \in Request : req[q].pc # "stop"
    BY <1>a DEF Control, RequestsFit, LoopFree, Early
  <2>2. QED
    BY <1>j, <1>q, <2>1 DEF Control, RequestsFit, StoppingGoesOn
<1>5. DirectoryFits' /\ StateIsTheJob'
  BY <1>a, <1>j, <1>q, <1>v, <1>n, NoneDistinct DEF DirectoryFits, StateIsTheJob, InPlace
<1>6. QED
  BY <1>1, <1>2, <1>3, <1>4, <1>5 DEF Control

LEMMA MovesControl ==
  ASSUME Control, NEW s \in Server, task[s] \in RunTasks, LoopFree(s),
         Moves(s, job[s]), StoppingGoesOn,
         UNCHANGED <<kind, cloud, registered, clearing>>
  PROVE  Control'
<1>1. PICK k \in Job :
        /\ Follows(job[s], k)
        /\ \/ Finish(s, k)
           \/ \E label \in RunTasks \ {"created", "provision"},
                 op \in {"test", "report", "destroy"} :
                Awaits(k, label, op) /\ Suspend(s, k, label, op)
  BY DEF Moves
<1>2. CASE Finish(s, k)
  <2>1. [k EXCEPT !.cancel = FALSE] \in Job
    BY DEF Job
  <2>2. QED
    BY <1>2, <2>1, EndControl DEF Finish
<1>3. ASSUME NEW label \in RunTasks \ {"created", "provision"},
             NEW op \in {"test", "report", "destroy"},
             Awaits(k, label, op), Suspend(s, k, label, op)
      PROVE  Control'
  BY <1>1, <1>3, SuspendControl DEF Follows
<1>4. QED
  BY <1>1, <1>2, <1>3

LEMMA CleanupTaskDoneControl ==
  ASSUME Control, NEW s \in Server, CleanupTaskDone(s)
  PROVE  Control'
<1>u. /\ task[s] = "destroy" /\ worker[s].result # "busy" /\ LoopFree(s)
      /\ task' = [task EXCEPT ![s] = "none"] /\ tasked' = [tasked EXCEPT ![s] = FALSE]
      /\ worker' = [worker EXCEPT ![s] = Idle]
      /\ UNCHANGED <<kind, dir, disk, lease, cloud, job, registered, stopping, clearing>>
  BY DEF CleanupTaskDone, TaskDone, shared
<1>q. \A q \in Request :
        /\ req'[q] \in RequestState
        /\ req'[q].server = req[q].server /\ req'[q].live = req[q].live
        /\ req'[q].pc = req[q].pc \/ (req[q].pc = "wait" /\ req'[q].pc = "ready")
  BY DEF CleanupTaskDone, TaskDone, Awaken, Control, TypeOK, RequestState
<1>1. TypeOK'
  <2>1. req' \in [Request -> RequestState]
    BY <1>q DEF CleanupTaskDone, TaskDone, Awaken
  <2>2. QED
    BY <1>u, <2>1, StartType DEF Control, TypeOK, Label
<1>v. /\ task'[s] = "none" /\ worker'[s].result # "busy" /\ ~tasked'[s]
      /\ \A t \in Server \ {s} : /\ task'[t] = task[t] /\ worker'[t] = worker[t]
                                 /\ tasked'[t] = tasked[t]
  BY <1>u, StartType DEF Control, TypeOK
<1>n. "none" \notin RunTasks \cup Early \cup Reporting \cup Cleaning
  BY DEF RunTasks, Early, Reporting, Cleaning
<1>2. LeaseIsHeld'
  BY <1>u, <1>q, <1>v, <1>n DEF Control, LeaseIsHeld, WorkersOwnTheRun
<1>3. TasksHaveJobs' /\ WorkersFit' /\ StatusFits'
  BY <1>u, <1>v, <1>n
     DEF Control, TasksHaveJobs, WorkersFit, StatusFits, Destroying
<1>4. RequestsFit'
  <2>1. \A q \in Request : req[q].pc = "stop" => req[q].server # s
    BY <1>u DEF LoopFree
  <2>2. QED
    BY <1>u, <1>q, <1>v, <2>1 DEF Control, RequestsFit
<1>5. DirectoryFits' /\ StateIsTheJob'
  BY <1>u, <1>q, <1>v, <1>n DEF Control, DirectoryFits, StateIsTheJob, InPlace
<1>6. QED
  BY <1>1, <1>2, <1>3, <1>4, <1>5 DEF Control

LEMMA SupervisorControl ==
  ASSUME Control, NEW s \in Server, Supervisor(s)
  PROVE  Control'
<1>1. CASE After(s)
  <2>1. task[s] \in RunTasks /\ LoopFree(s) /\ UNCHANGED <<kind, cloud, registered, clearing>>
    BY <1>1
       DEF After, AfterProvision, AfterTest, AfterReport, AfterFailReport,
           AfterStopReport, AfterCleanup, Resumes, RunTasks, Early, Reporting, Cleaning
  <2>2. stopping' = [stopping EXCEPT ![s] = IF @ = "pending" THEN "delivered" ELSE @]
    BY <1>1
       DEF After, AfterProvision, AfterTest, AfterReport, AfterFailReport,
           AfterStopReport, AfterCleanup, Resumes
  <2>3. StoppingGoesOn
    BY <2>2 DEF StoppingGoesOn, Control, TypeOK
  <2>4. QED
    BY <1>1, <2>1, <2>3, AfterMoves, MovesControl
<1>2. CASE StartRun(s)
  <2>1. /\ task[s] = "created" /\ task[s] \in RunTasks /\ LoopFree(s)
        /\ UNCHANGED <<kind, cloud, registered, stopping, clearing>>
    BY <1>2 DEF StartRun, RunTasks, Early
  <2>2. StoppingGoesOn
    BY <2>1 DEF StoppingGoesOn, Control, TypeOK
  <2>3. CASE stopping[s] # "no"
    BY <1>2, <2>1, <2>2, <2>3, EndControl DEF StartRun
  <2>4. CASE Moves(s, job[s])
    BY <2>1, <2>2, <2>4, MovesControl
  <2>5. CASE Suspend(s, [job[s] EXCEPT !.status = "provisioning"], "provision", "provision")
    <3> DEFINE k == [job[s] EXCEPT !.status = "provisioning"]
    <3>1. job[s] \in Job /\ ~job[s].error
      BY <2>1, SupervisorIsAlone DEF Control, StatusFits, Early
    <3>2. k \in Job /\ k.known = job[s].known /\ Awaits(k, "provision", "provision")
      BY <3>1 DEF Job, Status, Active, Awaits, Cancellable
    <3>3. QED
      BY <2>1, <2>2, <2>5, <3>2, SuspendControl DEF RunTasks, Early
  <2>6. QED
    BY <1>2, <2>3, <2>4, <2>5, StartMoves
<1>3. CASE CleanupTaskDone(s)
  BY <1>3, CleanupTaskDoneControl
<1>4. QED
  BY <1>1, <1>2, <1>3 DEF Supervisor, After

-------------------------------------------------------------------------------
(* The steps of worker threads keep control.                               *)

LEMMA WorkerIsAlone ==
  ASSUME Control, NEW s \in Server, worker[s].result = "busy"
  PROVE  /\ lease \in {RunLease(s), DestroyLease(s)} /\ lease # None /\ dir # "none"
         /\ task[s] \notin {"none", "created"} /\ job[s] \in Job
         /\ \A t \in Server \ {s} : worker[t].result # "busy" /\ task[t] \notin RunTasks
         /\ \A q \in Request : req[q].pc # "reload"
         /\ \A t \in Server : clearing[t] \notin {"check", "remove", "release"}
<1>1. lease \in {RunLease(s), DestroyLease(s)} /\ lease # None
  BY LeasesDiffer DEF Control, LeaseIsHeld, WorkersOwnTheRun
<1>2. task[s] \notin {"none", "created"} /\ job[s] \in Job
  BY DEF Control, WorkersFit, TasksHaveJobs, TypeOK
<1>3. \A t \in Server \ {s} : worker[t].result # "busy" /\ task[t] \notin RunTasks
  BY <1>1, LeasesDiffer DEF Control, LeaseIsHeld, WorkersOwnTheRun
<1>4. \A q \in Request : req[q].pc # "reload"
  BY <1>1, LeasesDiffer DEF Control, LeaseIsHeld, RequestsFit
<1>5. \A t \in Server : clearing[t] \notin {"check", "remove", "release"}
  BY <1>1, LeasesDiffer DEF Control, LeaseIsHeld
<1>6. QED
  BY <1>1, <1>2, <1>3, <1>4, <1>5 DEF Control, DirectoryFits

CleanupOps == {"destroy", "delete", "unlock"}

\* The worker of s makes j of its job and w of itself.
LEMMA WorkControl ==
  ASSUME Control, NEW s \in Server, worker[s].result = "busy",
         NEW j \in Job, NEW w \in WorkerState,
         \/ Update(s, j)
         \/ j = job[s] /\ UNCHANGED <<job, disk, dir>>,
         worker' = [worker EXCEPT ![s] = w],
         w.result = "busy" =>
           /\ w.op = worker[s].op \/ {w.op, worker[s].op} \subseteq CleanupOps
           /\ w.lease = worker[s].lease
           /\ w.op = "unlock" => w.op = worker[s].op \/ w.lease # None,
         j.error = job[s].error,
         "terminal" \in j.known => "terminal" \in job[s].known \/ worker[s].op \in CleanupOps,
         IF worker[s].op \in CleanupOps
         THEN j.status \in IF w.result = "busy" /\ w.op \in {"destroy", "delete"}
                           THEN {"failed", "cleanup_pending", "destroying"}
                           ELSE {"cleanup_failed", "destroyed"}
         ELSE j.status = job[s].status,
         lease' = lease \/ (lease' = None /\ task[s] = "destroy" /\ w.result # "busy"),
         cloud' \subseteq Res,
         UNCHANGED <<kind, registered, tasked, task, stopping, req, clearing>>
  PROVE  Control'
<1>a. /\ lease \in {RunLease(s), DestroyLease(s)} /\ lease # None /\ dir # "none"
      /\ task[s] \notin {"none", "created"} /\ job[s] \in Job
      /\ \A t \in Server \ {s} : worker[t].result # "busy" /\ task[t] \notin RunTasks
      /\ \A q \in Request : req[q].pc # "reload"
      /\ \A t \in Server : clearing[t] \notin {"check", "remove", "release"}
  BY WorkerIsAlone
<1>j. /\ job' = [job EXCEPT ![s] = j]
      /\ \/ disk' = Saved(j) /\ dir' = IF dir \in {"none", "here"} THEN "here" ELSE "recreated"
         \/ disk' = disk /\ dir' = dir /\ j = job[s]
  BY DEF Update, Persist, Control, TypeOK
<1>k. Saved(j) \in Job /\ Saved(j) # None
  BY SavedFields
<1>f. /\ worker[s].op = "provision" <=> task[s] = "provision"
      /\ worker[s].op = "test" <=> task[s] = "test"
      /\ worker[s].op \in CleanupOps <=> task[s] \in Cleaning \cup {"destroy"}
  BY DEF Control, WorkersFit, CleanupOps
<1>v. /\ job'[s] = j /\ worker'[s] = w
      /\ \A t \in Server \ {s} : job'[t] = job[t] /\ worker'[t] = worker[t]
  BY <1>j DEF Control, TypeOK
<1>1. TypeOK'
  <2>1. disk' \in Job \cup {None} /\ dir' \in {"none", "here", "gone", "recreated"}
    BY <1>j, <1>k DEF Control, TypeOK
  <2>2. QED
    BY <1>j, <2>1 DEF Control, TypeOK
<1>2. LeaseIsHeld'
  <2>1. task[s] \in RunTasks => task[s] # "destroy"
    BY DEF RunTasks, Early, Reporting, Cleaning
  <2>2. \A t \in Server : task'[t] \in RunTasks => lease' = RunLease(t)
    BY <1>a, <2>1 DEF Control, LeaseIsHeld
  <2>3. \A t \in Server : worker'[t].result = "busy" => lease' \in {RunLease(t), DestroyLease(t)}
    BY <1>a, <1>v
  <2>4. QED
    BY <1>a, <2>2, <2>3 DEF LeaseIsHeld, WorkersOwnTheRun
<1>3. TasksHaveJobs'
  BY <1>a, <1>v, NoneDistinct DEF Control, TasksHaveJobs
<1>4. WorkersFit'
  <2>1. w.result = "busy" =>
          /\ w.op = "provision" <=> worker[s].op = "provision"
          /\ w.op = "test" <=> worker[s].op = "test"
          /\ w.op \in CleanupOps <=> worker[s].op \in CleanupOps
          /\ w.op = "unlock" \/ w.lease # None => task[s] = "destroy"
    BY DEF CleanupOps, Control, WorkersFit
  <2>2. QED
    BY <1>a, <1>f, <1>v, <2>1 DEF WorkersFit, CleanupOps
<1>5. StatusFits'
  <2>1. ASSUME NEW t \in Server \ {s} PROVE Destroying(t)' <=> Destroying(t)
    BY <1>v DEF Destroying
  <2>2. Destroying(s)' <=> w.result = "busy" /\ w.op \in {"destroy", "delete"}
    BY <1>v DEF Destroying
  <2>3. task[s] \in Early \cup Reporting => worker[s].op \notin CleanupOps
    BY <1>f DEF Early, Reporting, Cleaning
  <2>4. task[s] \in {"created", "provision"} => "terminal" \notin j.known
    BY <2>3 DEF Control, StatusFits, Early
  <2>5. ASSUME NEW t \in Server
        PROVE  /\ task'[t] \in Early => job'[t].status \in Cancellable /\ ~job'[t].error
               /\ task'[t] \in {"created", "provision"} => "terminal" \notin job'[t].known
               /\ task'[t] \in Reporting => job'[t].status \in {"failed", "cleanup_pending"}
               /\ task'[t] \in Cleaning \cup {"destroy"} =>
                    job'[t].status \in IF Destroying(t)'
                                       THEN {"failed", "cleanup_pending", "destroying"}
                                       ELSE {"cleanup_failed", "destroyed"}
    <3>1. CASE t = s
      BY <1>f, <1>v, <2>2, <2>3, <2>4, <3>1 DEF Control, StatusFits
    <3>2. CASE t # s
      BY <1>v, <2>1, <3>2 DEF Control, StatusFits
    <3>3. QED
      BY <3>1, <3>2
  <2>6. QED
    BY <2>5 DEF StatusFits
<1>6. RequestsFit'
  BY <1>a, <1>j DEF Control, RequestsFit
<1>7. DirectoryFits'
  BY <1>a, <1>j, <1>k, <1>v DEF Control, DirectoryFits, InPlace
<1>8. StateIsTheJob'
  BY <1>a, <1>j, <1>v DEF Control, StateIsTheJob
<1>9. QED
  BY <1>1, <1>2, <1>3, <1>4, <1>5, <1>6, <1>7, <1>8 DEF Control

LEMMA SettleControl ==
  ASSUME Control, NEW s \in Server, worker[s].result = "busy",
         worker[s].op \in {"destroy", "delete"},
         NEW j \in Job, j.error = job[s].error, j.status \in {"cleanup_failed", "destroyed"},
         Settle(s, j),
         UNCHANGED <<kind, lease, cloud, registered, tasked, task, stopping, req, clearing>>
  PROVE  Control'
<1> DEFINE done == [worker[s] EXCEPT !.result = "ok"]
           unlock == [worker[s] EXCEPT !.op = "unlock", !.todo = {}]
<1>0. worker[s] \in WorkerState /\ worker \in [Server -> WorkerState] /\ cloud \subseteq Res
  BY DEF Control, TypeOK
<1>1. /\ done \in WorkerState /\ done.result = "ok" /\ done.lease = worker[s].lease
      /\ unlock \in WorkerState /\ unlock.op = "unlock" /\ unlock.lease = worker[s].lease
  BY <1>0 DEF WorkerState
<1>2. CASE worker[s].lease = None
  <2>1. worker' = [worker EXCEPT ![s] = done] /\ Update(s, j)
    BY <1>0, <1>2 DEF Settle, Return
  <2>2. QED
    BY <1>0, <1>1, <2>1, WorkControl DEF CleanupOps
<1>3. CASE worker[s].lease # None
  <2>1. worker' = [worker EXCEPT ![s] = unlock] /\ Update(s, j)
    BY <1>0, <1>3 DEF Settle
  <2>2. QED
    BY <1>0, <1>1, <1>3, <2>1, WorkControl DEF CleanupOps
<1>4. QED
  BY <1>2, <1>3

LEMMA WorkerControl ==
  ASSUME Control, NEW s \in Server, Worker(s)
  PROVE  Control'
<1> DEFINE Returned(result) == [worker[s] EXCEPT !.result = result]
<1>0. job[s] \in Job \cup {None} /\ worker[s] \in WorkerState /\ cloud \subseteq Res
  BY DEF Control, TypeOK
<1>1. worker[s].result = "busy"
  BY DEF Worker, SaveAnchor, RecordResource, EndProvision, SaveIntent, CreateResource,
         DeleteResource, AddResult, EndTest, MakeReport, BeginDestroy, EndDelete,
         UnlockAfterDestroy, Busy
<1>2. job[s] \in Job
  BY <1>1, WorkerIsAlone
<1>r. \A result \in {"ok", "raised", "cancelled"} :
        /\ Returned(result) \in WorkerState /\ Returned(result).result # "busy"
        /\ Return(s, result) => worker' = [worker EXCEPT ![s] = Returned(result)]
  BY <1>0 DEF WorkerState, Return, Control, TypeOK
<1>w. worker = [worker EXCEPT ![s] = worker[s]]
  BY DEF Control, TypeOK
<1>3. CASE SaveAnchor(s)
  <2> DEFINE j == [job[s] EXCEPT !.known = @ \cup {"anchor"}]
  <2>1. j \in Job /\ j.known = job[s].known \cup {"anchor"} /\ j.error = job[s].error
        /\ j.status = job[s].status
    BY <1>2 DEF Job, Known
  <2>2. QED
    BY <1>0, <1>1, <1>3, <1>w, <2>1, WorkControl DEF SaveAnchor, Busy, CleanupOps
<1>4. ASSUME NEW r \in Res, SaveIntent(s, r) PROVE Control'
  <2> DEFINE j == [job[s] EXCEPT !.known = @ \cup {r}]
  <2>1. j \in Job /\ j.known = job[s].known \cup {r} /\ j.error = job[s].error
        /\ j.status = job[s].status
    BY <1>2 DEF Job, Known
  <2>2. "terminal" \in j.known => "terminal" \in job[s].known
    BY <2>1, ResDistinct
  <2>3. QED
    BY <1>0, <1>1, <1>4, <1>w, <2>1, <2>2, WorkControl DEF SaveIntent, Busy, CleanupOps
<1>5. ASSUME NEW r \in Res, CreateResource(s, r) PROVE Control'
  <2> DEFINE w == [worker[s] EXCEPT !.made = r]
  <2>1. /\ w \in WorkerState /\ w.op = worker[s].op /\ w.lease = worker[s].lease
        /\ worker' = [worker EXCEPT ![s] = w]
    BY <1>0, <1>5 DEF WorkerState, CreateResource, Control, TypeOK
  <2>2. QED
    BY <1>0, <1>1, <1>2, <1>5, <2>1, WorkControl
       DEF CreateResource, Busy, CleanupOps, shared
<1>6. CASE RecordResource(s)
  <2> DEFINE j == [job[s] EXCEPT !.known = @ \cup {worker[s].made}]
             w == [worker[s] EXCEPT !.made = None]
  <2>0. worker[s].made \in Res
    BY <1>0, <1>6 DEF RecordResource, WorkerState
  <2>1. j \in Job /\ j.known = job[s].known \cup {worker[s].made}
        /\ j.error = job[s].error /\ j.status = job[s].status
    BY <1>2, <2>0 DEF Job, Known
  <2>2. /\ w \in WorkerState /\ w.op = worker[s].op /\ w.lease = worker[s].lease
        /\ worker' = [worker EXCEPT ![s] = w]
    BY <1>0, <1>6 DEF WorkerState, RecordResource, Control, TypeOK
  <2>3. "terminal" \in j.known => "terminal" \in job[s].known
    BY <2>0, <2>1, ResDistinct
  <2>4. QED
    BY <1>0, <1>1, <1>6, <2>1, <2>2, <2>3, WorkControl DEF RecordResource, Busy, CleanupOps
<1>7. CASE EndProvision(s) \/ EndTest(s) \/ MakeReport(s)
  <2>1. PICK result \in {"ok", "raised", "cancelled"} : Return(s, result)
    BY <1>7 DEF EndProvision, EndTest, MakeReport
  <2>2. Busy(s, "provision") \/ Busy(s, "test") \/ Busy(s, "report")
    BY <1>7 DEF EndProvision, EndTest, MakeReport
  <2>3. UNCHANGED <<kind, shared, cloud, job, registered, tasked, task, stopping, req,
                    clearing>>
    BY <1>7 DEF EndProvision, EndTest, MakeReport
  <2>4. QED
    BY <1>0, <1>1, <1>2, <1>r, <2>1, <2>2, <2>3, WorkControl DEF Busy, CleanupOps, shared
<1>8. CASE AddResult(s)
  <2>1. PICK results \in {"partial", "complete", "failed"} :
          /\ Update(s, [job[s] EXCEPT !.results = results])
          /\ UNCHANGED worker \/ Return(s, "raised")
    BY <1>8 DEF AddResult
  <2> DEFINE j == [job[s] EXCEPT !.results = results]
  <2>2. j \in Job /\ j.known = job[s].known /\ j.error = job[s].error
        /\ j.status = job[s].status
    BY <1>2 DEF Job
  <2>3. CASE UNCHANGED worker
    BY <1>0, <1>1, <1>8, <1>w, <2>1, <2>2, <2>3, WorkControl DEF AddResult, Busy, CleanupOps
  <2>4. CASE Return(s, "raised")
    BY <1>0, <1>1, <1>8, <1>r, <2>1, <2>2, <2>4, WorkControl DEF AddResult, Busy, CleanupOps
  <2>5. QED
    BY <2>1, <2>3, <2>4
<1>9. CASE BeginDestroy(s)
  <2>0. worker[s].op = "destroy"
        /\ UNCHANGED <<kind, lease, cloud, registered, tasked, task, stopping, req, clearing>>
    BY <1>9 DEF BeginDestroy, Busy
  <2> DEFINE gone == [job[s] EXCEPT !.status = "destroyed"]
             proved == [job[s] EXCEPT !.status = "destroyed", !.known = {"terminal"}]
             left == [job[s] EXCEPT !.status = "cleanup_failed"]
             begun == [job[s] EXCEPT !.status = "destroying"]
             w == [worker[s] EXCEPT !.op = "delete", !.todo = Reachable(job[s])]
  <2>1. \/ Settle(s, gone) \/ Settle(s, proved) \/ Settle(s, left)
        \/ Update(s, begun) /\ worker' = [worker EXCEPT ![s] = w]
    BY <1>0, <1>9 DEF BeginDestroy, Control, TypeOK
  <2>2. gone \in Job /\ gone.status = "destroyed" /\ gone.error = job[s].error
    BY <1>2 DEF Job, Status
  <2>3. proved \in Job /\ proved.status = "destroyed" /\ proved.error = job[s].error
    BY <1>2 DEF Job, Status, Known
  <2>4. left \in Job /\ left.status = "cleanup_failed" /\ left.error = job[s].error
    BY <1>2 DEF Job, Status
  <2>5. begun \in Job /\ begun.status = "destroying" /\ begun.error = job[s].error
    BY <1>2 DEF Job, Status, Active
  <2>6. w \in WorkerState /\ w.op = "delete" /\ w.lease = worker[s].lease
        /\ w.result = worker[s].result
    BY <1>0, <1>2 DEF WorkerState, Reachable, Job
  <2>7. CASE Update(s, begun) /\ worker' = [worker EXCEPT ![s] = w]
    <3>1. PICK v \in WorkerState :
            /\ v.op = "delete" /\ v.lease = worker[s].lease /\ v.result = "busy"
            /\ worker' = [worker EXCEPT ![s] = v]
      BY <1>1, <2>6, <2>7
    <3>2. PICK j \in Job : j.status = "destroying" /\ j.error = job[s].error /\ Update(s, j)
      BY <2>5, <2>7
    <3>3. QED
      BY <1>0, <1>1, <2>0, <3>1, <3>2, WorkControl DEF CleanupOps
  <2>8. QED
    BY <1>1, <2>0, <2>1, <2>2, <2>3, <2>4, <2>7, SettleControl
<1>10. ASSUME NEW r \in Res, DeleteResource(s, r) PROVE Control'
  <2>0. worker[s].op = "delete"
        /\ UNCHANGED <<kind, shared, job, registered, tasked, task, stopping, req, clearing>>
    BY <1>10 DEF DeleteResource, Busy
  <2>1. PICK w \in WorkerState :
          /\ w.op = "delete" /\ w.lease = worker[s].lease /\ w.result = "busy"
          /\ worker' = [worker EXCEPT ![s] = w]
    <3> DEFINE deleted == [worker[s] EXCEPT !.todo = @ \ {r}]
               bad == [worker[s] EXCEPT !.todo = @ \ {r}, !.bad = TRUE]
    <3>1. deleted \in WorkerState /\ deleted.op = "delete" /\ deleted.result = "busy"
          /\ deleted.lease = worker[s].lease
      BY <1>0, <1>1, <2>0 DEF WorkerState
    <3>2. bad \in WorkerState /\ bad.op = "delete" /\ bad.result = "busy"
          /\ bad.lease = worker[s].lease
      BY <1>0, <1>1, <2>0 DEF WorkerState
    <3>3. worker' = [worker EXCEPT ![s] = deleted] \/ worker' = [worker EXCEPT ![s] = bad]
      BY <1>10 DEF DeleteResource, Control, TypeOK
    <3>4. QED
      BY <3>1, <3>2, <3>3
  <2>2. cloud' \subseteq Res
    BY <1>0, <1>10 DEF DeleteResource
  <2>3. job[s].status \in {"failed", "cleanup_pending", "destroying"}
    BY <1>1, <2>0 DEF Control, StatusFits, WorkersFit, Destroying
  <2>4. QED
    BY <1>1, <1>2, <2>0, <2>1, <2>2, <2>3, WorkControl DEF CleanupOps, shared
<1>11. CASE EndDelete(s)
  <2>0. worker[s].op = "delete"
        /\ UNCHANGED <<kind, lease, cloud, registered, tasked, task, stopping, req, clearing>>
    BY <1>11 DEF EndDelete, Busy
  <2> DEFINE left == [job[s] EXCEPT !.status = "cleanup_failed"]
             gone == [job[s] EXCEPT !.status = "destroyed",
                        !.known = IF kind = "distributed" THEN {"terminal"} ELSE @]
  <2>1. Settle(s, left) \/ Settle(s, gone)
    BY <1>11 DEF EndDelete
  <2>2. left \in Job /\ left.status = "cleanup_failed" /\ left.error = job[s].error
    BY <1>2 DEF Job, Status
  <2>3. gone \in Job /\ gone.status = "destroyed" /\ gone.error = job[s].error
    BY <1>2 DEF Job, Status, Known
  <2>4. QED
    BY <1>1, <2>0, <2>1, <2>2, <2>3, SettleControl
<1>12. CASE UnlockAfterDestroy(s)
  <2>0. worker[s].op = "unlock" /\ task[s] = "destroy"
    BY <1>1, <1>12 DEF UnlockAfterDestroy, Busy, Control, WorkersFit
  <2>1. job[s].status \in {"cleanup_failed", "destroyed"}
    BY <2>0 DEF Control, StatusFits, Destroying
  <2>2. QED
    BY <1>0, <1>1, <1>2, <1>12, <1>r, <2>0, <2>1, WorkControl
       DEF UnlockAfterDestroy, CleanupOps
<1>13. QED
  BY <1>3, <1>4, <1>5, <1>6, <1>7, <1>8, <1>9, <1>10, <1>11, <1>12 DEF Worker

-------------------------------------------------------------------------------
(* The steps of requests keep control.                                     *)

\* A request that only gets on, but does not get the lease.
LEMMA RequestControl ==
  ASSUME Control, NEW q \in Request, NEW v \in RequestState,
         req' = [req EXCEPT ![q] = v],
         v.pc # "idle" => v.server \in Server /\ stopping[v.server] = "no",
         v.pc = "stop" => task[v.server] \in Early,
         v.pc = "rewrite" => dir \in {"gone", "recreated"},
         v.pc \in {"wait", "ready", "load"} /\ v.live => dir # "none",
         v.pc # "reload",
         UNCHANGED <<kind, shared, cloud, memory, clearing>>
  PROVE  Control'
<1>u. UNCHANGED <<kind, dir, disk, lease, cloud, job, registered, tasked, task, worker,
                  stopping, clearing>>
  BY DEF shared, memory
<1>1. TypeOK'
  BY <1>u DEF Control, TypeOK
<1>v. req'[q] = v /\ \A r \in Request \ {q} : req'[r] = req[r]
  BY DEF Control, TypeOK
<1>2. LeaseIsHeld'
  BY <1>u, <1>v DEF Control, LeaseIsHeld, WorkersOwnTheRun
<1>3. TasksHaveJobs' /\ WorkersFit' /\ StatusFits'
  BY <1>u DEF Control, TasksHaveJobs, WorkersFit, StatusFits, Destroying
<1>4. RequestsFit'
  BY <1>u, <1>v DEF Control, RequestsFit
<1>5. DirectoryFits' /\ StateIsTheJob'
  BY <1>u, <1>v DEF Control, DirectoryFits, StateIsTheJob, InPlace
<1>6. QED
  BY <1>1, <1>2, <1>3, <1>4, <1>5 DEF Control

LEMMA ReplyControl ==
  ASSUME Control, NEW q \in Request, Reply(q),
         UNCHANGED <<kind, shared, cloud, memory, clearing>>
  PROVE  Control'
<1>1. NoRequest \in RequestState /\ NoRequest.pc = "idle"
  BY DEF NoRequest, RequestState
<1>2. QED
  BY <1>1, RequestControl DEF Reply

LEMMA StepControl ==
  ASSUME Control, NEW q \in Request,
         NEW pc \in {"load", "rewrite", "acquire"}, Step(q, pc),
         req[q].pc # "idle",
         pc = "rewrite" => dir \in {"gone", "recreated"},
         pc = "load" /\ req[q].live => dir # "none",
         UNCHANGED <<kind, shared, cloud, memory, clearing>>
  PROVE  Control'
<1> DEFINE v == [req[q] EXCEPT !.pc = pc]
<1>1. /\ v \in RequestState /\ v.pc = pc
      /\ v.server = req[q].server /\ v.live = req[q].live
  BY DEF Control, TypeOK, RequestState
<1>2. req' = [req EXCEPT ![q] = v]
  BY DEF Step, Control, TypeOK
<1>3. v.server \in Server /\ stopping[v.server] = "no"
  BY <1>1 DEF Control, RequestsFit
<1>4. QED
  BY <1>1, <1>2, <1>3, RequestControl

LEMMA DestroyRequestControl ==
  ASSUME Control, NEW q \in Request, NEW s \in Server, DestroyRequest(q, s)
  PROVE  Control'
<1> DEFINE stops == registered[s] /\ tasked[s] /\ job[s].status \in Cancellable
           v == [server |-> s,
                 pc |-> IF ~(registered[s] /\ tasked[s]) THEN "load"
                        ELSE IF job[s].status \in Cancellable THEN "stop" ELSE "wait",
                 live |-> registered[s],
                 outcome |-> IF stops THEN Outcome(job[s]) ELSE "none"]
<1>1. v \in RequestState
  <2>1. registered[s] \in BOOLEAN
    BY DEF Control, TypeOK
  <2>2. Outcome(job[s]) \in {"failed", "interrupted", "complete", "pending"}
    BY DEF Outcome
  <2>3. QED
    BY <2>1, <2>2 DEF RequestState
<1>2. /\ req' = [req EXCEPT ![q] = v] /\ stopping[s] = "no"
      /\ UNCHANGED <<kind, shared, cloud, memory, clearing>>
  BY DEF DestroyRequest
<1>3. v.pc = "stop" => task[s] \in Early
  <2>1. SUFFICES ASSUME tasked[s], job[s].status \in Cancellable PROVE task[s] \in Early
    OBVIOUS
  <2>2. task[s] # "none" /\ task[s] \in Label
    BY <2>1 DEF Control, TasksHaveJobs, TypeOK
  <2>3. task[s] \notin Reporting \cup Cleaning \cup {"destroy"}
    BY <2>1 DEF Control, StatusFits, Cancellable
  <2>4. QED
    BY <2>2, <2>3 DEF Label, Early, Reporting, Cleaning
<1>4. v.live => dir # "none"
  BY DEF Control, TasksHaveJobs, DirectoryFits
<1>5. QED
  BY <1>1, <1>2, <1>3, <1>4, RequestControl

LEMMA RequestStopControl ==
  ASSUME Control, NEW q \in Request, RequestStop(q)
  PROVE  Control'
<1> DEFINE s == req[q].server
           j == [Interrupt(job[s], req[q].outcome)
                   EXCEPT !.status = "cancelling", !.cancel = TRUE]
<1>1. s \in Server /\ task[s] \in Early /\ task[s] \in RunTasks
  BY DEF RequestStop, Control, RequestsFit, RunTasks
<1>a. /\ lease = RunLease(s) /\ job[s] \in Job
      /\ \A t \in Server \ {s} : /\ job[t] = None /\ ~registered[t]
                                 /\ task[t] = "none" /\ worker[t].result # "busy"
      /\ \A r \in Request : req[r].pc # "reload"
      /\ \A t \in Server : clearing[t] \notin {"check", "remove", "release"}
      /\ disk # None /\ InPlace
  BY <1>1, SupervisorIsAlone
<1>j. j \in Job /\ j.status = "cancelling" /\ j.known = job[s].known /\ j.error = job[s].error
  BY <1>a DEF Job, Interrupt, Status, Active
<1>u. /\ job' = [job EXCEPT ![s] = j] /\ disk' = Saved(j) /\ dir' = dir
      /\ req' = [req EXCEPT ![q] = NoRequest]
      /\ UNCHANGED <<kind, lease, cloud, registered, tasked, task, worker, stopping, clearing>>
  BY <1>a DEF RequestStop, Update, Persist, Reply, InPlace
<1>k. Saved(j) \in Job /\ Saved(j) # None
  BY <1>j, SavedFields
<1>n. NoRequest \in RequestState /\ NoRequest.pc = "idle"
  BY DEF NoRequest, RequestState
<1>v. /\ job'[s] = j /\ \A t \in Server \ {s} : job'[t] = job[t]
      /\ req'[q] = NoRequest /\ \A r \in Request \ {q} : req'[r] = req[r]
  BY <1>u, <1>1 DEF Control, TypeOK
<1> HIDE DEF s, j
<1>1a. TypeOK'
  BY <1>j, <1>u, <1>k, <1>n DEF Control, TypeOK
<1>2. LeaseIsHeld'
  BY <1>u, <1>v, <1>n DEF Control, LeaseIsHeld, WorkersOwnTheRun
<1>3. TasksHaveJobs' /\ WorkersFit'
  <2>1. j # None
    BY <1>j, NoneDistinct
  <2>2. TasksHaveJobs'
    <3>1. "none" \notin RunTasks
      BY DEF RunTasks, Early, Reporting, Cleaning
    <3>2. QED
      BY <1>1, <1>a, <1>u, <1>v, <2>1, <3>1 DEF Control, TasksHaveJobs
  <2>3. WorkersFit'
    BY <1>u DEF Control, WorkersFit
  <2>4. QED
    BY <2>2, <2>3
<1>4. StatusFits'
  <2>1. j.status \in Cancellable
    BY <1>j DEF Cancellable
  <2>2. task[s] \notin Reporting \cup Cleaning \cup {"destroy"}
    BY <1>1 DEF Early, Reporting, Cleaning
  <2>3. QED
    BY <1>1, <1>j, <1>u, <1>v, <2>1, <2>2 DEF Control, StatusFits, Destroying
<1>5. RequestsFit'
  BY <1>u, <1>v, <1>n DEF Control, RequestsFit
<1>6. DirectoryFits' /\ StateIsTheJob'
  <2>1. dir' # "none" /\ InPlace' /\ disk' # None
    BY <1>a, <1>u, <1>k DEF InPlace
  <2>2. DirectoryFits'
    BY <2>1 DEF DirectoryFits
  <2>3. \A t \in Server \ {s} : worker[t].result # "busy" /\ task[t] \notin RunTasks
    BY <1>a DEF RunTasks, Early, Reporting, Cleaning
  <2>4. StateIsTheJob'
    BY <1>u, <1>v, <2>3 DEF StateIsTheJob
  <2>5. QED
    BY <2>2, <2>4
<1>7. QED
  BY <1>1a, <1>2, <1>3, <1>4, <1>5, <1>6 DEF Control

LEMMA RewriteControl ==
  ASSUME Control, NEW q \in Request, RewriteState(q)
  PROVE  Control'
<1> DEFINE s == req[q].server
           v == [req[q] EXCEPT !.pc = "load", !.live = FALSE]
<1>1. s \in Server /\ stopping[s] = "no" /\ dir \in {"gone", "recreated"}
  BY DEF RewriteState, Control, RequestsFit
<1>2. CASE ~registered[s]
  BY <1>2, ReplyControl DEF RewriteState, shared
<1>3. CASE registered[s]
  <2>j. job[s] \in Job
    BY <1>1, <1>3 DEF Control, TasksHaveJobs, TypeOK
  <2>u. /\ disk' = Saved(job[s]) /\ dir' = "recreated"
        /\ req' = [req EXCEPT ![q] = v]
        /\ UNCHANGED <<kind, lease, cloud, job, registered, tasked, task, worker, stopping,
                       clearing>>
    BY <1>1, <1>3 DEF RewriteState, Persist, memory, Control, TypeOK
  <2>k. Saved(job[s]) \in Job /\ Saved(job[s]) # None
    BY <2>j, SavedFields
  <2>n. v \in RequestState /\ v.pc = "load" /\ v.server = s /\ ~v.live
    <3>1. req[q] \in RequestState
      BY DEF Control, TypeOK
    <3>2. QED
      BY <3>1 DEF RequestState
  <2>v. req'[q] = v /\ \A r \in Request \ {q} : req'[r] = req[r]
    BY <2>u DEF Control, TypeOK
  <2> HIDE DEF s, v
  <2>1. TypeOK'
    BY <2>u, <2>k, <2>n DEF Control, TypeOK
  <2>2. LeaseIsHeld'
    BY <2>u, <2>v, <2>n DEF Control, LeaseIsHeld, WorkersOwnTheRun
  <2>3. TasksHaveJobs' /\ WorkersFit' /\ StatusFits'
    <3>1. \A t \in Server : task[t] \in RunTasks => t = s
      BY <1>1, <2>j, NoneDistinct DEF Control, TasksHaveJobs
    <3>2. QED
      BY <2>u, <3>1 DEF Control, TasksHaveJobs, WorkersFit, StatusFits, Destroying
  <2>4. RequestsFit'
    BY <1>1, <2>u, <2>v, <2>n DEF Control, RequestsFit
  <2>5. DirectoryFits'
    BY <2>u, <2>v, <2>k, <2>n DEF Control, DirectoryFits, InPlace
  <2>6. StateIsTheJob'
    <3>1. \A t \in Server : task[t] \in RunTasks => t = s
      BY <1>1, <2>j, NoneDistinct DEF Control, TasksHaveJobs
    <3>2. QED
      BY <2>u, <3>1 DEF StateIsTheJob
  <2>7. QED
    BY <2>1, <2>2, <2>3, <2>4, <2>5, <2>6 DEF Control
<1>4. QED
  BY <1>2, <1>3

LEMMA AcquireControl ==
  ASSUME Control, NEW q \in Request, AcquireForDestroy(q)
  PROVE  Control'
<1> DEFINE s == req[q].server
           v == [req[q] EXCEPT !.pc = "reload"]
<1>0. s \in Server /\ stopping[s] = "no" /\ req[q] \in RequestState
  BY DEF AcquireForDestroy, Control, RequestsFit, TypeOK
<1>1. CASE Reply(q) /\ UNCHANGED lease
  BY <1>1, ReplyControl DEF AcquireForDestroy, shared
<1>2. CASE lease = None /\ InPlace /\ lease' = DestroyLease(s) /\ Step(q, "reload")
  <2>u. /\ req' = [req EXCEPT ![q] = v]
        /\ UNCHANGED <<kind, dir, disk, cloud, job, registered, tasked, task, worker,
                       stopping, clearing>>
    BY <1>2 DEF AcquireForDestroy, Step, memory, Control, TypeOK
  <2>n. v \in RequestState /\ v.pc = "reload" /\ v.server = s
    BY <1>0 DEF RequestState
  <2>v. req'[q] = v /\ \A r \in Request \ {q} : req'[r] = req[r]
    BY <2>u DEF Control, TypeOK
  <2>a. /\ \A t \in Server : task[t] \notin RunTasks /\ worker[t].result # "busy"
        /\ \A r \in Request : req[r].pc # "reload"
        /\ \A t \in Server : clearing[t] \notin {"check", "remove", "release"}
    <3>1. \A t \in Server : lease \notin {RunLease(t), DestroyLease(t), ClearLease(t)}
      BY <1>2, LeasesDiffer
    <3>2. QED
      BY <3>1, NobodyMoves DEF Control, LeaseIsHeld
  <2> HIDE DEF s, v
  <2>1. TypeOK'
    <3>1. DestroyLease(s) \in {"run", "destroy", "clear"} \X Server
      BY <1>0 DEF DestroyLease
    <3>2. QED
      BY <1>2, <2>u, <2>n, <3>1 DEF Control, TypeOK
  <2>2. LeaseIsHeld'
    BY <1>0, <1>2, <2>u, <2>v, <2>n, <2>a DEF LeaseIsHeld, WorkersOwnTheRun
  <2>3. TasksHaveJobs' /\ WorkersFit' /\ StatusFits'
    BY <2>u DEF Control, TasksHaveJobs, WorkersFit, StatusFits, Destroying
  <2>4. RequestsFit'
    BY <1>0, <2>u, <2>v, <2>n DEF Control, RequestsFit
  <2>5. DirectoryFits' /\ StateIsTheJob'
    BY <1>2, <2>u, <2>v, <2>n DEF Control, DirectoryFits, StateIsTheJob, InPlace
  <2>6. QED
    BY <2>1, <2>2, <2>3, <2>4, <2>5 DEF Control
<1>3. QED
  BY <1>1, <1>2 DEF AcquireForDestroy

\* What a destroy task takes over.
Taken(q) ==
  LET marked == IF disk.status \in Cancellable THEN Interrupt(disk, Outcome(disk)) ELSE disk
  IN [marked EXCEPT !.status = "destroying",
                    !.emptyProof = /\ req[q].live /\ registered[req[q].server]
                                   /\ job[req[q].server].emptyProof
                                   /\ job[req[q].server].known = {} /\ disk.known = {}]

LEMMA TakenFits ==
  ASSUME NEW q \in Request, disk \in Job
  PROVE  /\ Taken(q) \in Job /\ Taken(q).status = "destroying"
         /\ Taken(q).known = disk.known
         /\ Outcome(disk) \in {"complete", "failed"} => Outcome(Taken(q)) = Outcome(disk)
<1> DEFINE marked == IF disk.status \in Cancellable THEN Interrupt(disk, Outcome(disk))
                                                    ELSE disk
           proof == /\ req[q].live /\ registered[req[q].server]
                    /\ job[req[q].server].emptyProof
                    /\ job[req[q].server].known = {} /\ disk.known = {}
<1>1. /\ marked \in Job /\ marked.known = disk.known
      /\ marked.results = disk.results /\ marked.error = disk.error
      /\ Outcome(disk) \in {"complete", "failed"} => marked.interrupted = disk.interrupted
  BY DEF Interrupt, Job
<1>2. Taken(q) = [marked EXCEPT !.status = "destroying", !.emptyProof = proof]
  BY DEF Taken
<1>3. proof \in BOOLEAN
  OBVIOUS
<1> HIDE DEF marked, proof
<1>4. /\ Taken(q) \in Job /\ Taken(q).status = "destroying" /\ Taken(q).known = marked.known
      /\ Taken(q).results = marked.results /\ Taken(q).error = marked.error
      /\ Taken(q).interrupted = marked.interrupted
  BY <1>1, <1>2, <1>3 DEF Job, Status, Active
<1>5. QED
  BY <1>1, <1>4 DEF Outcome

LEMMA SubmitControl ==
  ASSUME Control, NEW q \in Request, NEW s \in Server, req[q].server = s,
         req[q].pc = "reload", Reply(q), Submit(q),
         UNCHANGED <<kind, lease, cloud, stopping, clearing>>
  PROVE  Control'
<1> DEFINE w == [Start("destroy") EXCEPT !.lease = lease]
<1>0. /\ lease = DestroyLease(s) /\ worker[s].result # "busy"
      /\ disk \in Job /\ disk # None
  BY DEF Control, RequestsFit, LeaseIsHeld, DirectoryFits, TypeOK
<1>a. /\ \A t \in Server : task[t] \notin RunTasks
      /\ \A t \in Server \ {s} : worker[t].result # "busy"
      /\ \A t \in Server : clearing[t] \notin {"check", "remove", "release"}
      /\ dir # "none" /\ InPlace
  BY <1>0, DestroyerIsAlone DEF Control, DirectoryFits
<1>r. \A r \in Request \ {q} : req[r].pc # "reload"
  BY DEF Control, LeaseIsHeld
<1>j. Taken(q) \in Job /\ Taken(q).status = "destroying" /\ Taken(q) # None
  BY <1>0, TakenFits, NoneDistinct
<1>u. /\ job' = [job EXCEPT ![s] = Taken(q)] /\ disk' = Saved(Taken(q)) /\ dir' = dir
      /\ registered' = [registered EXCEPT ![s] = TRUE]
      /\ tasked' = [tasked EXCEPT ![s] = TRUE]
      /\ task' = [task EXCEPT ![s] = "destroy"]
      /\ worker' = [worker EXCEPT ![s] = w]
      /\ req' = [req EXCEPT ![q] = NoRequest]
  BY <1>a DEF Submit, Taken, Update, Persist, Reply, InPlace
<1>k. Saved(Taken(q)) \in Job /\ Saved(Taken(q)) # None
  BY <1>j, SavedFields
<1>n. NoRequest \in RequestState /\ NoRequest.pc = "idle"
  BY DEF NoRequest, RequestState
<1>w. w \in WorkerState /\ w.result = "busy" /\ w.op = "destroy" /\ w.lease = lease
  <2>1. lease \in {"destroy"} \X Server
    BY <1>0 DEF DestroyLease
  <2>2. QED
    BY <2>1, StartType DEF WorkerState
<1> HIDE DEF w
<1>v. /\ job'[s] = Taken(q) /\ registered'[s] /\ tasked'[s] /\ task'[s] = "destroy"
      /\ worker'[s] = w /\ req'[q] = NoRequest
      /\ \A t \in Server \ {s} :
           /\ job'[t] = job[t] /\ registered'[t] = registered[t] /\ tasked'[t] = tasked[t]
           /\ task'[t] = task[t] /\ worker'[t] = worker[t]
      /\ \A r \in Request \ {q} : req'[r] = req[r]
  BY <1>0, <1>u DEF Control, TypeOK
<1>d. "destroy" \notin RunTasks \cup Early \cup Reporting
  BY DEF RunTasks, Early, Reporting, Cleaning
<1>1. TypeOK'
  BY <1>j, <1>u, <1>k, <1>n, <1>w DEF Control, TypeOK, Label
<1>2. LeaseIsHeld'
  BY <1>0, <1>a, <1>r, <1>v, <1>n, <1>d DEF Control, LeaseIsHeld, WorkersOwnTheRun
<1>3. TasksHaveJobs'
  BY <1>a, <1>j, <1>v, <1>d DEF Control, TasksHaveJobs
<1>4. WorkersFit'
  BY <1>a, <1>v, <1>w DEF WorkersFit
<1>5. StatusFits'
  <2>1. Destroying(s)'
    BY <1>v, <1>w DEF Destroying
  <2>2. ASSUME NEW t \in Server
        PROVE  /\ task'[t] \in Early => job'[t].status \in Cancellable /\ ~job'[t].error
               /\ task'[t] \in {"created", "provision"} => "terminal" \notin job'[t].known
               /\ task'[t] \in Reporting => job'[t].status \in {"failed", "cleanup_pending"}
               /\ task'[t] \in Cleaning \cup {"destroy"} =>
                    job'[t].status \in IF Destroying(t)'
                                       THEN {"failed", "cleanup_pending", "destroying"}
                                       ELSE {"cleanup_failed", "destroyed"}
    <3>1. CASE t = s
      <4>1. "destroy" \notin {"created", "provision"}
        OBVIOUS
      <4>2. QED
        BY <1>j, <1>v, <1>d, <2>1, <3>1, <4>1
    <3>2. CASE t # s
      <4>1. Destroying(t)' <=> Destroying(t)
        BY <1>v, <3>2 DEF Destroying
      <4>2. QED
        BY <1>v, <3>2, <4>1 DEF Control, StatusFits
    <3>3. QED
      BY <3>1, <3>2
  <2>3. QED
    BY <2>2 DEF StatusFits
<1>6. RequestsFit'
  <2>1. \A r \in Request \ {q} : req[r].pc # "stop"
    BY <1>a DEF Control, RequestsFit, RunTasks
  <2>2. QED
    BY <1>u, <1>v, <1>n, <2>1 DEF Control, RequestsFit
<1>7. DirectoryFits' /\ StateIsTheJob'
  BY <1>a, <1>u, <1>v, <1>k, <1>n, <1>d DEF DirectoryFits, StateIsTheJob, InPlace
<1>8. QED
  BY <1>1, <1>2, <1>3, <1>4, <1>5, <1>6, <1>7 DEF Control

\* Giving up a lease that no task or worker has.
LEMMA ReleaseControl ==
  ASSUME Control, \A t \in Server : task[t] \notin RunTasks /\ worker[t].result # "busy",
         lease' = None,
         \/ \E q \in Request :
              /\ req[q].pc = "reload" /\ Reply(q) /\ UNCHANGED <<clearing, disk, dir>>
         \/ \E s \in Server, label \in {"idle", "forget"} :
              /\ clearing[s] \in {"remove", "release"} /\ Clear(s, label) /\ UNCHANGED req
              /\ UNCHANGED <<disk, dir>> \/ (disk' = None /\ dir' = "gone"),
         UNCHANGED <<kind, cloud, memory>>
  PROVE  Control'
<1>n. NoRequest \in RequestState /\ NoRequest.pc = "idle" /\ None \in {None}
  BY DEF NoRequest, RequestState
<1>q. /\ \A r \in Request : req'[r] = req[r] \/ req'[r] = NoRequest
      /\ \A r \in Request : req'[r].pc # "reload"
      /\ req' \in [Request -> RequestState]
  <2>1. ASSUME NEW q \in Request, req[q].pc = "reload", Reply(q)
        PROVE  /\ \A r \in Request : req'[r] = req[r] \/ req'[r] = NoRequest
               /\ \A r \in Request : req'[r].pc # "reload"
    BY <1>n, <2>1 DEF Reply, Control, TypeOK, LeaseIsHeld
  <2>2. ASSUME UNCHANGED req, NEW s \in Server, clearing[s] \in {"remove", "release"}
        PROVE  /\ \A r \in Request : req'[r] = req[r] \/ req'[r] = NoRequest
               /\ \A r \in Request : req'[r].pc # "reload"
    BY <2>2, LeasesDiffer DEF Control, LeaseIsHeld, RequestsFit
  <2>3. req' \in [Request -> RequestState]
    BY <1>n DEF Reply, Control, TypeOK
  <2>4. QED
    BY <2>1, <2>2, <2>3
<1>c. /\ \A s \in Server : clearing'[s] \notin {"check", "remove", "release"}
      /\ clearing' \in [Server -> {"idle", "check", "remove", "forget", "release"}]
  <2>1. ASSUME NEW q \in Request, req[q].pc = "reload", UNCHANGED clearing
        PROVE  \A s \in Server : clearing'[s] \notin {"check", "remove", "release"}
    BY <2>1, LeasesDiffer DEF Control, LeaseIsHeld, RequestsFit
  <2>2. ASSUME NEW s \in Server, NEW label \in {"idle", "forget"},
               clearing[s] \in {"remove", "release"}, Clear(s, label)
        PROVE  \A t \in Server : clearing'[t] \notin {"check", "remove", "release"}
    BY <2>2, LeasesDiffer DEF Control, LeaseIsHeld, Clear, TypeOK
  <2>3. clearing' \in [Server -> {"idle", "check", "remove", "forget", "release"}]
    BY DEF Clear, Control, TypeOK
  <2>4. QED
    BY <2>1, <2>2, <2>3
<1>d. /\ UNCHANGED <<disk, dir>> \/ (disk' = None /\ dir' = "gone")
      /\ dir # "none"
  BY LeasesDiffer DEF Control, LeaseIsHeld, DirectoryFits, RequestsFit
<1>u. UNCHANGED <<kind, cloud, job, registered, tasked, task, worker, stopping>>
  BY DEF memory
<1>1. TypeOK'
  BY <1>u, <1>q, <1>c, <1>d DEF Control, TypeOK
<1>2. LeaseIsHeld'
  BY <1>u, <1>q, <1>c DEF LeaseIsHeld, WorkersOwnTheRun
<1>3. TasksHaveJobs' /\ WorkersFit' /\ StatusFits'
  BY <1>u DEF Control, TasksHaveJobs, WorkersFit, StatusFits, Destroying
<1>4. RequestsFit'
  BY <1>u, <1>q, <1>d, <1>n DEF Control, RequestsFit
<1>5. DirectoryFits' /\ StateIsTheJob'
  BY <1>u, <1>q, <1>c, <1>d DEF Control, DirectoryFits, StateIsTheJob, InPlace
<1>6. QED
  BY <1>1, <1>2, <1>3, <1>4, <1>5 DEF Control

LEMMA HandlerControl ==
  ASSUME Control, NEW q \in Request, Handler(q)
  PROVE  Control'
<1>1. CASE RequestStop(q)
  BY <1>1, RequestStopControl
<1>2. CASE TaskEnded(q)
  BY <1>2, ReplyControl, StepControl DEF TaskEnded, Control, RequestsFit
<1>3. CASE LoadState(q)
  <2>1. disk = None /\ req[q].live => dir = "gone"
    BY <1>3 DEF LoadState, Control, TypeOK, RequestsFit, DirectoryFits, InPlace
  <2>2. QED
    BY <1>3, <2>1, ReplyControl, StepControl DEF LoadState
<1>4. CASE RewriteState(q)
  BY <1>4, RewriteControl
<1>5. CASE AcquireForDestroy(q)
  BY <1>5, AcquireControl
<1>6. CASE ReloadAndSubmit(q)
  <2>1. req[q].server \in Server /\ lease = DestroyLease(req[q].server)
        /\ worker[req[q].server].result # "busy"
    BY <1>6 DEF ReloadAndSubmit, Control, LeaseIsHeld, RequestsFit
  <2>2. \A t \in Server : task[t] \notin RunTasks /\ worker[t].result # "busy"
    BY <2>1, DestroyerIsAlone
  <2>3. CASE disk.status = "destroyed"
    BY <1>6, <2>2, <2>3, ReleaseControl DEF ReloadAndSubmit
  <2>4. CASE disk.status # "destroyed"
    BY <1>6, <2>1, <2>4, SubmitControl DEF ReloadAndSubmit
  <2>5. QED
    BY <2>3, <2>4
<1>7. QED
  BY <1>1, <1>2, <1>3, <1>4, <1>5, <1>6 DEF Handler

-------------------------------------------------------------------------------
(* Creation, removal from history, shutdown and crash keep control.        *)

LEMMA CreateControl ==
  ASSUME Control, NEW s \in Server, CreateJob(s)
  PROVE  Control'
<1>1. PICK auto \in BOOLEAN :
        job' = [job EXCEPT ![s] = NewJob(auto)] /\ Persist(NewJob(auto))
  BY DEF CreateJob
<1> DEFINE j == NewJob(auto)
<1>j. /\ j \in Job /\ j # None /\ j.status = "queued" /\ ~j.error /\ j.known = {}
      /\ Saved(j) \in Job /\ Saved(j) # None
  <2>1. j \in Job /\ j.status = "queued" /\ ~j.error /\ j.known = {}
    BY DEF NewJob, Job, Status, Active
  <2>2. QED
    BY <2>1, SavedFields, NoneDistinct
<1>0. /\ dir = "none" /\ lease = None /\ \A t \in Server : job[t] = None
      /\ stopping[s] = "no" /\ LoopFree(s)
  BY DEF CreateJob, Control, DirectoryFits
<1>u. /\ job' = [job EXCEPT ![s] = j] /\ disk' = Saved(j) /\ dir' = "here"
      /\ lease' = RunLease(s)
      /\ registered' = [registered EXCEPT ![s] = TRUE]
      /\ tasked' = [tasked EXCEPT ![s] = TRUE]
      /\ task' = [task EXCEPT ![s] = "created"]
      /\ UNCHANGED <<kind, cloud, worker, stopping, req, clearing>>
  BY <1>0, <1>1 DEF CreateJob, Persist
<1> HIDE DEF j
<1>a. /\ \A t \in Server : /\ ~registered[t] /\ ~tasked[t] /\ task[t] = "none"
                           /\ worker[t].result # "busy"
                           /\ clearing[t] \notin {"check", "remove", "release"}
      /\ \A r \in Request : req[r].pc # "reload"
  <2>1. \A t \in Server : ~registered[t] /\ task[t] = "none" /\ ~tasked[t]
    BY <1>0 DEF Control, TasksHaveJobs
  <2>2. \A t \in Server : worker[t].result # "busy"
    BY <2>1 DEF Control, WorkersFit
  <2>3. /\ \A t \in Server : clearing[t] \notin {"check", "remove", "release"}
        /\ \A r \in Request : req[r].pc # "reload"
    BY <1>0, LeasesDiffer DEF Control, LeaseIsHeld, RequestsFit
  <2>4. QED
    BY <2>1, <2>2, <2>3
<1>v. /\ job'[s] = j /\ registered'[s] /\ tasked'[s] /\ task'[s] = "created"
      /\ \A t \in Server \ {s} : job'[t] = None /\ ~registered'[t] /\ ~tasked'[t]
                                 /\ task'[t] = "none"
  BY <1>0, <1>a, <1>u DEF Control, TypeOK
<1>n. "none" \notin RunTasks \cup Early \cup Reporting \cup Cleaning
  BY DEF RunTasks, Early, Reporting, Cleaning
<1>2. TypeOK'
  <2>1. RunLease(s) \in {"run", "destroy", "clear"} \X Server
    BY DEF RunLease
  <2>2. QED
    BY <1>j, <1>u, <2>1 DEF Control, TypeOK, Label
<1>3. LeaseIsHeld'
  BY <1>a, <1>u, <1>v, <1>n DEF LeaseIsHeld, WorkersOwnTheRun
<1>4. TasksHaveJobs'
  BY <1>j, <1>v, <1>n DEF TasksHaveJobs
<1>5. WorkersFit'
  BY <1>a, <1>u DEF WorkersFit
<1>6. StatusFits'
  BY <1>j, <1>v, <1>n DEF StatusFits, Cancellable, Early, Reporting, Cleaning
<1>7. RequestsFit'
  <2>1. \A r \in Request : req[r].pc # "stop"
    BY <1>a, <1>n DEF Control, RequestsFit
  <2>2. \A r \in Request : req[r].pc # "rewrite"
    BY <1>0 DEF Control, RequestsFit
  <2>3. QED
    BY <1>u, <2>1, <2>2 DEF Control, RequestsFit
<1>8. DirectoryFits' /\ StateIsTheJob'
  BY <1>a, <1>j, <1>u, <1>v, <1>n DEF DirectoryFits, StateIsTheJob, InPlace
<1>9. QED
  BY <1>2, <1>3, <1>4, <1>5, <1>6, <1>7, <1>8 DEF Control

LEMMA ClearControl ==
  ASSUME Control, NEW s \in Server, ClearAcquire(s) \/ ClearThread(s)
  PROVE  Control'
<1>1. CASE ClearAcquire(s)
  <2>u. /\ lease = None /\ InPlace /\ lease' = ClearLease(s)
        /\ clearing' = [clearing EXCEPT ![s] = "check"]
        /\ UNCHANGED <<kind, dir, disk, cloud, job, registered, tasked, task, worker,
                       stopping, req>>
    BY <1>1 DEF ClearAcquire, Clear, memory
  <2>a. /\ \A t \in Server : task[t] \notin RunTasks /\ worker[t].result # "busy"
        /\ \A r \in Request : req[r].pc # "reload"
        /\ \A t \in Server : clearing[t] \notin {"check", "remove", "release"}
    <3>1. \A t \in Server : lease \notin {RunLease(t), DestroyLease(t), ClearLease(t)}
      BY <2>u, LeasesDiffer
    <3>2. QED
      BY <3>1, NobodyMoves DEF Control, LeaseIsHeld
  <2>v. clearing'[s] = "check" /\ \A t \in Server \ {s} : clearing'[t] = clearing[t]
    BY <2>u DEF Control, TypeOK
  <2>1. TypeOK'
    <3>1. ClearLease(s) \in {"run", "destroy", "clear"} \X Server
      BY DEF ClearLease
    <3>2. QED
      BY <2>u, <3>1 DEF Control, TypeOK
  <2>2. LeaseIsHeld'
    BY <2>u, <2>a, <2>v DEF LeaseIsHeld, WorkersOwnTheRun
  <2>3. TasksHaveJobs' /\ WorkersFit' /\ StatusFits' /\ RequestsFit'
    BY <2>u DEF Control, TasksHaveJobs, WorkersFit, StatusFits, Destroying, RequestsFit
  <2>4. DirectoryFits' /\ StateIsTheJob'
    BY <2>u DEF Control, DirectoryFits, StateIsTheJob, InPlace
  <2>5. QED
    BY <2>1, <2>2, <2>3, <2>4 DEF Control
<1>2. CASE ClearCheck(s)
  <2>u. /\ clearing[s] = "check"
        /\ \E label \in {"remove", "release"} : clearing' = [clearing EXCEPT ![s] = label]
        /\ UNCHANGED <<kind, dir, disk, lease, cloud, job, registered, tasked, task, worker,
                       stopping, req>>
    BY <1>2 DEF ClearCheck, Clear, memory, shared
  <2>v. /\ clearing'[s] \in {"remove", "release"}
        /\ \A t \in Server \ {s} : clearing'[t] = clearing[t]
        /\ clearing' \in [Server -> {"idle", "check", "remove", "forget", "release"}]
    BY <2>u DEF Control, TypeOK
  <2>1. TypeOK' /\ LeaseIsHeld'
    BY <2>u, <2>v DEF Control, TypeOK, LeaseIsHeld, WorkersOwnTheRun
  <2>2. TasksHaveJobs' /\ WorkersFit' /\ StatusFits' /\ RequestsFit'
    BY <2>u DEF Control, TasksHaveJobs, WorkersFit, StatusFits, Destroying, RequestsFit
  <2>3. DirectoryFits' /\ StateIsTheJob'
    BY <2>u, <2>v DEF Control, DirectoryFits, StateIsTheJob, InPlace
  <2>4. QED
    BY <2>1, <2>2, <2>3 DEF Control
<1>3. CASE RemoveDirectory(s) \/ ClearRelease(s)
  <2>1. lease = ClearLease(s)
    BY <1>3 DEF RemoveDirectory, ClearRelease, Control, LeaseIsHeld
  <2>2. \A t \in Server : task[t] \notin RunTasks /\ worker[t].result # "busy"
    BY <2>1, LeasesDiffer, NobodyMoves
  <2>3. QED
    BY <1>3, <2>2, ReleaseControl DEF RemoveDirectory, ClearRelease
<1>4. CASE ForgetRun(s)
  <2>u. /\ clearing' = [clearing EXCEPT ![s] = "idle"]
        /\ registered' = [registered EXCEPT ![s] = FALSE]
        /\ tasked' = [tasked EXCEPT ![s] = FALSE]
        /\ UNCHANGED <<kind, dir, disk, lease, cloud, job, task, worker, stopping, req>>
    BY <1>4 DEF ForgetRun, Clear, shared
  <2>1. TypeOK' /\ LeaseIsHeld'
    BY <2>u DEF Control, TypeOK, LeaseIsHeld, WorkersOwnTheRun
  <2>2. TasksHaveJobs' /\ WorkersFit' /\ StatusFits' /\ RequestsFit'
    BY <2>u DEF Control, TypeOK, TasksHaveJobs, WorkersFit, StatusFits, Destroying, RequestsFit
  <2>3. DirectoryFits' /\ StateIsTheJob'
    BY <2>u DEF Control, TypeOK, DirectoryFits, StateIsTheJob, InPlace
  <2>4. QED
    BY <2>1, <2>2, <2>3 DEF Control
<1>5. QED
  BY <1>1, <1>2, <1>3, <1>4 DEF ClearThread

LEMMA ShutdownControl ==
  ASSUME Control, NEW s \in Server, Shutdown(s)
  PROVE  Control'
<1>u. /\ \A q \in Request : req[q].server # s
      /\ stopping' = [stopping EXCEPT ![s] = "pending"]
      /\ UNCHANGED <<kind, dir, disk, lease, cloud, job, registered, tasked, task, worker, req,
                     clearing>>
  BY DEF Shutdown, shared
<1>1. TypeOK' /\ LeaseIsHeld' /\ RequestsFit'
  BY <1>u DEF Control, TypeOK, LeaseIsHeld, WorkersOwnTheRun, RequestsFit
<1>2. TasksHaveJobs' /\ WorkersFit' /\ StatusFits' /\ DirectoryFits' /\ StateIsTheJob'
  BY <1>u DEF Control, TasksHaveJobs, WorkersFit, StatusFits, Destroying, DirectoryFits,
              StateIsTheJob, InPlace
<1>3. QED
  BY <1>1, <1>2 DEF Control

\* A process that is gone, however it went, leaves at most an orphan lease.
LEMMA ForgottenControl ==
  ASSUME Control, NEW s \in Server, Forgotten(s), UNCHANGED <<kind, dir, disk, cloud>>,
         \/ UNCHANGED <<lease, req, clearing>> /\ task[s] = "none" /\ stopping[s] # "no"
         \/ Crash(s)
  PROVE  Control'
<1>u. /\ job' = [job EXCEPT ![s] = None]
      /\ registered' = [registered EXCEPT ![s] = FALSE]
      /\ tasked' = [tasked EXCEPT ![s] = FALSE]
      /\ task' = [task EXCEPT ![s] = "none"]
      /\ worker' = [worker EXCEPT ![s] = Idle]
      /\ stopping' = [stopping EXCEPT ![s] = "no"]
  BY DEF Forgotten
<1>v. /\ job'[s] = None /\ ~registered'[s] /\ ~tasked'[s] /\ task'[s] = "none"
      /\ worker'[s].result # "busy" /\ stopping'[s] = "no"
      /\ \A t \in Server \ {s} :
           /\ job'[t] = job[t] /\ registered'[t] = registered[t] /\ tasked'[t] = tasked[t]
           /\ task'[t] = task[t] /\ worker'[t] = worker[t] /\ stopping'[t] = stopping[t]
  BY <1>u, StartType DEF Control, TypeOK
<1>n. /\ NoRequest \in RequestState /\ NoRequest.pc = "idle"
      /\ "none" \notin RunTasks \cup Early \cup Reporting \cup Cleaning \cup {"destroy"}
  BY DEF NoRequest, RequestState, RunTasks, Early, Reporting, Cleaning
<1>q. /\ req' \in [Request -> RequestState]
      /\ \A q \in Request : req'[q] = req[q] \/ req'[q] = NoRequest
      /\ \A q \in Request : req'[q].pc # "idle" => req[q].server # s
  BY <1>n DEF Crash, Control, TypeOK, RequestsFit
<1>c. /\ clearing' \in [Server -> {"idle", "check", "remove", "forget", "release"}]
      /\ \A t \in Server \ {s} : clearing'[t] = clearing[t]
      /\ clearing'[s] = clearing[s] \/ clearing'[s] = "idle"
  BY DEF Crash, Control, TypeOK
<1>l. /\ lease' = lease \/ (lease' = None /\ clearing'[s] = "idle")
      /\ \A t \in Server \ {s} :
           lease \in {RunLease(t), DestroyLease(t), ClearLease(t)} => lease' = lease
      /\ lease = None => lease' = None
  BY LeasesDiffer DEF Crash, Control, TypeOK
<1>1. TypeOK'
  BY <1>u, <1>q, <1>c, <1>l, StartType DEF Control, TypeOK, Label
<1>2. LeaseIsHeld'
  <2>1. \A t \in Server : task'[t] \in RunTasks => lease' = RunLease(t)
    BY <1>v, <1>n, <1>l DEF Control, LeaseIsHeld
  <2>2. \A t \in Server :
          worker'[t].result = "busy" => lease' \in {RunLease(t), DestroyLease(t)}
    BY <1>v, <1>l DEF Control, LeaseIsHeld, WorkersOwnTheRun
  <2>3. ASSUME NEW q \in Request, req'[q].pc = "reload"
        PROVE  /\ lease' = DestroyLease(req'[q].server)
               /\ worker'[req'[q].server].result # "busy"
    <3>1. req'[q] = req[q] /\ req[q].server \in Server \ {s}
      BY <1>n, <1>q, <2>3 DEF Control, RequestsFit
    <3>2. QED
      BY <1>v, <1>l, <2>3, <3>1 DEF Control, LeaseIsHeld
  <2>4. \A q, r \in Request : req'[q].pc = "reload" /\ req'[r].pc = "reload" => q = r
    BY <1>n, <1>q DEF Control, LeaseIsHeld
  <2>5. \A t \in Server :
          clearing'[t] \in {"check", "remove", "release"} => lease' = ClearLease(t)
    BY <1>c, <1>l DEF Control, LeaseIsHeld
  <2>6. QED
    BY <2>1, <2>2, <2>3, <2>4, <2>5 DEF LeaseIsHeld, WorkersOwnTheRun
<1>3. TasksHaveJobs' /\ WorkersFit'
  BY <1>v, <1>n DEF Control, TasksHaveJobs, WorkersFit
<1>4. StatusFits'
  <2>1. \A t \in Server \ {s} : Destroying(t)' <=> Destroying(t)
    BY <1>v DEF Destroying
  <2>2. QED
    BY <1>v, <1>n, <2>1 DEF Control, StatusFits, Early
<1>5. RequestsFit'
  BY <1>v, <1>n, <1>q DEF Control, RequestsFit
<1>6. DirectoryFits' /\ StateIsTheJob'
  BY <1>v, <1>n, <1>q, <1>c, <1>l DEF Control, DirectoryFits, StateIsTheJob, InPlace
<1>7. QED
  BY <1>1, <1>2, <1>3, <1>4, <1>5, <1>6 DEF Control

LEMMA InitControl ==
  ASSUME Init
  PROVE  Control
<1>1. /\ \A s \in Server : /\ job[s] = None /\ ~registered[s] /\ ~tasked[s]
                           /\ task[s] = "none" /\ worker[s] = Idle /\ clearing[s] = "idle"
      /\ \A q \in Request : req[q].pc = "idle"
      /\ kind \in Kinds /\ dir = "none" /\ disk = None /\ lease = None /\ cloud = {}
  BY DEF Init, NoRequest
<1>2. "none" \notin RunTasks \cup Early \cup Reporting \cup Cleaning \cup {"destroy"}
  BY DEF RunTasks, Early, Reporting, Cleaning
<1>3. TypeOK
  <2>1. NoRequest \in RequestState
    BY DEF NoRequest, RequestState
  <2>2. QED
    BY <2>1, StartType DEF Init, TypeOK, Label
<1>4. LeaseIsHeld
  BY <1>1, <1>2, StartType DEF LeaseIsHeld, WorkersOwnTheRun
<1>5. TasksHaveJobs /\ WorkersFit /\ StatusFits
  BY <1>1, <1>2, StartType DEF TasksHaveJobs, WorkersFit, StatusFits, Early
<1>6. RequestsFit /\ DirectoryFits /\ StateIsTheJob
  BY <1>1, <1>2, StartType DEF RequestsFit, DirectoryFits, StateIsTheJob, InPlace
<1>7. QED
  BY <1>3, <1>4, <1>5, <1>6 DEF Control

LEMMA NextControl ==
  ASSUME Control, [Next]_vars
  PROVE  Control'
<1>1. ASSUME NEW s \in Server, CreateJob(s) \/ Supervisor(s) \/ Worker(s)
      PROVE  Control'
  BY <1>1, CreateControl, SupervisorControl, WorkerControl
<1>2. ASSUME NEW s \in Server,
             ClearAcquire(s) \/ ClearThread(s) \/ Shutdown(s) \/ Exit(s) \/ Crash(s)
      PROVE  Control'
  <2>1. CASE ClearAcquire(s) \/ ClearThread(s)
    BY <2>1, ClearControl
  <2>2. CASE Shutdown(s)
    BY <2>2, ShutdownControl
  <2>3. CASE Exit(s)
    BY <2>3, ForgottenControl DEF Exit, shared
  <2>4. CASE Crash(s)
    BY <2>4, ForgottenControl DEF Crash
  <2>5. QED
    BY <1>2, <2>1, <2>2, <2>3, <2>4
<1>3. ASSUME NEW s \in Server, NEW q \in Request, DestroyRequest(q, s)
      PROVE  Control'
  BY <1>3, DestroyRequestControl
<1>4. ASSUME NEW q \in Request, Handler(q)
      PROVE  Control'
  BY <1>4, HandlerControl
<1>5. CASE UNCHANGED vars
  BY <1>5 DEF vars, Control, TypeOK, LeaseIsHeld, WorkersOwnTheRun, TasksHaveJobs, WorkersFit,
              StatusFits, Destroying, RequestsFit, DirectoryFits, StateIsTheJob, InPlace
<1>6. QED
  BY <1>1, <1>2, <1>3, <1>4, <1>5 DEF Next

THEOREM ControlHolds == Spec => []Control
<1>1. Init => Control
  BY InitControl
<1>2. Control /\ [Next]_vars => Control'
  BY NextControl
<1>3. QED
  BY <1>1, <1>2, PTL DEF Spec

\* Every variable keeps its type: in particular no step asks a job or a record
\* for a field that it lacks.
THEOREM LifecycleTypeCorrect == Spec => []TypeOK
<1>1. Control => TypeOK
  BY DEF Control
<1>2. QED
  BY <1>1, ControlHolds, PTL

\* Whatever a worker thread does to the cloud or to state.json, its server has
\* the run leased at that moment, for any number of servers and requests.
THEOREM WorkersAlwaysOwn == Spec => []WorkersOwnTheRun
<1>1. Control => WorkersOwnTheRun
  BY DEF Control, LeaseIsHeld
<1>2. QED
  BY <1>1, ControlHolds, PTL

-------------------------------------------------------------------------------
(* The cloud stays covered.                                                *)

\* k says of the cloud at least what j says.
Heir(k, j) ==
  /\ j.known \subseteq k.known
  /\ "terminal" \in k.known => "terminal" \in j.known
  /\ k.status = "destroyed" => j.status = "destroyed"

LEMMA EmptyIsCovered ==
  ASSUME cloud' = {}
  PROVE  CloudIsCovered'
BY DEF CloudIsCovered, Covers, Busy

LEMMA HeirsCover ==
  ASSUME NEW j, NEW k, Covers(j), Heir(k, j), cloud' \subseteq cloud, kind' = kind
  PROVE  Covers(k)'
BY DEF Covers, Heir, Reachable

LEMMA SavedCovers ==
  ASSUME NEW j \in Job, Covers(j)
  PROVE  Covers(Saved(j))
BY SavedFields DEF Covers, Reachable

\* A step that creates nothing and says only what was said before.
LEMMA QuietStep ==
  ASSUME Control, CloudIsCovered, kind # "ids", kind' = kind, cloud' \subseteq cloud,
         NEW s \in Server, NEW j \in Job, Covers(j), NEW k \in Job, NEW m \in Job,
         UNCHANGED job \/ (Heir(k, j) /\ job' = [job EXCEPT ![s] = k])
           \/ job' = [job EXCEPT ![s] = None],
         UNCHANGED disk \/ (Heir(m, j) /\ disk' = Saved(m)),
         \A t \in Server :
           \/ worker'[t] = worker[t] \/ worker'[t].op # "delete"
           \/ worker'[t].result # "busy"
           \/ worker'[t].bad \/ cloud' \subseteq worker'[t].todo,
         \A t \in Server : clearing'[t] = "remove" => clearing[t] = "remove" \/ cloud = {}
  PROVE  CloudIsCovered'
<1>1. IF disk' = None THEN cloud' = {} ELSE Covers(disk)'
  <2>1. CASE UNCHANGED disk
    BY <2>1 DEF CloudIsCovered, Covers, Reachable
  <2>2. CASE Heir(m, j) /\ disk' = Saved(m)
    <3>1. Covers(m)'
      BY <2>2, HeirsCover
    <3>2. QED
      BY <2>2, <3>1, SavedFields DEF Covers, Reachable
  <2>3. QED
    BY <2>1, <2>2
<1>2. ASSUME NEW t \in Server, job'[t] # None
      PROVE  Covers(job[t])'
  <2>1. CASE job'[t] = job[t]
    BY <1>2, <2>1 DEF CloudIsCovered, Covers, Reachable
  <2>2. CASE job'[t] = k /\ Heir(k, j)
    <3>1. Covers(k)'
      BY <2>2, HeirsCover
    <3>2. QED
      BY <2>2, <3>1 DEF Covers, Reachable
  <2>3. QED
    BY <1>2, <2>1, <2>2 DEF Control, TypeOK
<1>3. \A t \in Server : Busy(t, "delete")' => worker'[t].bad \/ cloud' \subseteq worker'[t].todo
  BY DEF CloudIsCovered, Busy
<1>4. \A t \in Server : clearing'[t] = "remove" => cloud' = {}
  BY DEF CloudIsCovered
<1>5. QED
  BY <1>1, <1>2, <1>3, <1>4 DEF CloudIsCovered

\* Supervisors follow their job.
LEMMA MovesCloud ==
  ASSUME Control, CloudIsCovered, kind # "ids", NEW s \in Server, job[s] \in Job,
         \/ Moves(s, job[s])
         \/ TaskDone(s) /\ UNCHANGED <<job, disk>>
         \/ /\ job[s].status # "destroyed"
            /\ Suspend(s, [job[s] EXCEPT !.status = "provisioning"], "provision", "provision"),
         UNCHANGED <<kind, cloud, clearing>>
  PROVE  CloudIsCovered'
<1>c. Covers(job[s])
  BY NoneDistinct DEF CloudIsCovered
<1>w. \A op \in {"provision", "test", "report", "destroy"} :
        worker' = [worker EXCEPT ![s] = Start(op)] \/ worker' = [worker EXCEPT ![s] = Idle] =>
          \A t \in Server : \/ worker'[t] = worker[t] \/ worker'[t].op # "delete"
                            \/ worker'[t].result # "busy"
  BY StartType DEF Control, TypeOK
<1>1. CASE TaskDone(s) /\ UNCHANGED <<job, disk>>
  BY <1>c, <1>w, <1>1, QuietStep DEF TaskDone
<1>2. ASSUME NEW k \in Job, Follows(job[s], k), Finish(s, k)
      PROVE  CloudIsCovered'
  <2>1. [k EXCEPT !.cancel = FALSE] \in Job
    BY DEF Job
  <2>2. Heir(k, job[s]) /\ Heir([k EXCEPT !.cancel = FALSE], job[s])
    BY <1>2 DEF Heir, Follows, Job
  <2>3. QED
    BY <1>c, <1>w, <1>2, <2>1, <2>2, QuietStep DEF Finish, Persist, TaskDone
<1>3. ASSUME NEW k \in Job, Heir(k, job[s]), NEW label,
             NEW op \in {"provision", "test", "report", "destroy"}, Suspend(s, k, label, op)
      PROVE  CloudIsCovered'
  BY <1>c, <1>w, <1>3, QuietStep DEF Suspend, Persist
<1>4. CASE Moves(s, job[s])
  <2>1. PICK k \in Job :
          /\ Follows(job[s], k)
          /\ \/ Finish(s, k)
             \/ \E label \in RunTasks \ {"created", "provision"},
                   op \in {"test", "report", "destroy"} : Suspend(s, k, label, op)
    BY <1>4 DEF Moves
  <2>2. Heir(k, job[s])
    BY <2>1 DEF Heir, Follows
  <2>3. QED
    BY <1>2, <1>3, <2>1, <2>2
<1>5. CASE /\ job[s].status # "destroyed"
           /\ Suspend(s, [job[s] EXCEPT !.status = "provisioning"], "provision", "provision")
  <2>1. [job[s] EXCEPT !.status = "provisioning"] \in Job
    BY DEF Job, Status, Active
  <2>2. Heir([job[s] EXCEPT !.status = "provisioning"], job[s])
    BY DEF Heir, Job
  <2>3. QED
    BY <1>3, <1>5, <2>1, <2>2
<1>6. QED
  BY <1>1, <1>4, <1>5

LEMMA SupervisorCloud ==
  ASSUME Control, CloudIsCovered, kind # "ids", NEW s \in Server, Supervisor(s)
  PROVE  CloudIsCovered'
<1>1. CASE StartRun(s)
  <2>1. job[s] \in Job /\ job[s].status # "destroyed"
    BY <1>1 DEF StartRun, Control, TypeOK, TasksHaveJobs, StatusFits, Early, Cancellable
  <2>2. CASE stopping[s] = "no"
    BY <1>1, <2>1, <2>2, StartMoves, MovesCloud DEF StartRun
  <2>3. CASE stopping[s] # "no"
    BY <1>1, <2>1, <2>3, MovesCloud DEF StartRun
  <2>4. QED
    BY <2>2, <2>3
<1>2. CASE After(s)
  <2>1. task[s] # "none" /\ UNCHANGED <<kind, cloud, clearing>>
    BY <1>2 DEF After, AfterProvision, AfterTest, AfterReport, AfterFailReport,
                AfterStopReport, AfterCleanup, Resumes
  <2>2. job[s] \in Job
    BY <2>1 DEF Control, TypeOK, TasksHaveJobs
  <2>3. QED
    BY <1>2, <2>1, <2>2, AfterMoves, MovesCloud
<1>3. CASE CleanupTaskDone(s)
  <2>1. job[s] \in Job
    BY <1>3 DEF CleanupTaskDone, Control, TypeOK, TasksHaveJobs
  <2>2. QED
    BY <1>3, <2>1, MovesCloud DEF CleanupTaskDone, shared
<1>4. QED
  BY <1>1, <1>2, <1>3 DEF Supervisor, After

\* A worker that deletes nothing and adds to what is known at most what is not
\* the proof that nothing is left.
LEMMA WorkCloud ==
  ASSUME Control, CloudIsCovered, kind # "ids", NEW s \in Server, worker[s].result = "busy",
         NEW k \in Job, Heir(k, job[s]), Update(s, k) \/ UNCHANGED <<job, disk>>,
         NEW w \in WorkerState, worker' = [worker EXCEPT ![s] = w],
         w.op = "delete" /\ w.result = "busy" => w.bad \/ cloud' \subseteq w.todo,
         cloud' \subseteq cloud, UNCHANGED <<kind, clearing>>
  PROVE  CloudIsCovered'
<1>1. job[s] \in Job /\ Covers(job[s])
  BY WorkerIsAlone, NoneDistinct DEF CloudIsCovered
<1>2. \A t \in Server :
        \/ worker'[t] = worker[t] \/ worker'[t].op # "delete"
        \/ worker'[t].result # "busy"
        \/ worker'[t].bad \/ cloud' \subseteq worker'[t].todo
  BY DEF Control, TypeOK
<1>3. QED
  BY <1>1, <1>2, QuietStep DEF Update, Persist

LEMMA ReturnCloud ==
  ASSUME Control, CloudIsCovered, kind # "ids", NEW s \in Server, worker[s].result = "busy",
         NEW result \in {"ok", "raised", "cancelled"}, Return(s, result),
         NEW k \in Job, Heir(k, job[s]), Update(s, k) \/ UNCHANGED <<job, disk>>,
         UNCHANGED <<kind, cloud, clearing>>
  PROVE  CloudIsCovered'
<1>1. /\ [worker[s] EXCEPT !.result = result] \in WorkerState
      /\ [worker[s] EXCEPT !.result = result].result # "busy"
  BY DEF Control, TypeOK, WorkerState
<1>2. QED
  BY <1>1, WorkCloud DEF Return

\* Cleanup ends: as it must when nothing is left, or with what it knew before.
LEMMA SettleCloud ==
  ASSUME Control, CloudIsCovered, kind # "ids", NEW s \in Server, worker[s].result = "busy",
         NEW k \in Job, Heir(k, job[s]) \/ cloud = {}, Settle(s, k),
         UNCHANGED <<kind, cloud, clearing>>
  PROVE  CloudIsCovered'
<1>1. CASE cloud = {}
  BY <1>1, EmptyIsCovered
<1>2. CASE Heir(k, job[s])
  <2>1. CASE worker[s].lease = None
    BY <1>2, <2>1, ReturnCloud DEF Settle
  <2>2. CASE worker[s].lease # None
    <3>1. /\ [worker[s] EXCEPT !.op = "unlock", !.todo = {}] \in WorkerState
          /\ [worker[s] EXCEPT !.op = "unlock", !.todo = {}].op = "unlock"
      <4>1. worker[s] \in WorkerState
        BY DEF Control, TypeOK
      <4>2. QED
        BY <4>1 DEF WorkerState
    <3>2. worker' = [worker EXCEPT ![s] = [worker[s] EXCEPT !.op = "unlock", !.todo = {}]]
      BY <2>2 DEF Settle, Control, TypeOK
    <3>3. Update(s, k)
      BY DEF Settle
    <3>4. QED
      BY <1>2, <3>1, <3>2, <3>3, WorkCloud
  <2>3. QED
    BY <2>1, <2>2
<1>3. QED
  BY <1>1, <1>2

\* The one step that creates: the run has one job, its intent is saved, and no
\* other object or thread says anything of its cloud.
LEMMA CreateCloud ==
  ASSUME Control, CloudIsCovered, kind # "ids", NEW s \in Server, NEW r \in Res,
         CreateResource(s, r)
  PROVE  CloudIsCovered'
<1>0. /\ worker[s].result = "busy" /\ worker[s].op = "provision"
      /\ kind = "owned" => r \in job[s].known
      /\ kind = "distributed" => "anchor" \in job[s].known
      /\ cloud' = cloud \cup {r}
      /\ UNCHANGED <<kind, disk, job, clearing>>
      /\ worker' = [worker EXCEPT ![s].made = r]
  BY DEF CreateResource, Busy, shared
<1>1. /\ task[s] = "provision" /\ task[s] \in RunTasks /\ job[s] \in Job
      /\ job[s].status # "destroyed" /\ "terminal" \notin job[s].known
      /\ disk = Saved(job[s])
      /\ \A t \in Server \ {s} : job[t] = None
  <2>1. task[s] = "provision"
    BY <1>0 DEF Control, WorkersFit
  <2>2. task[s] \in RunTasks /\ task[s] \in Early
    BY <2>1 DEF RunTasks, Early
  <2>3. job[s] \in Job /\ \A t \in Server \ {s} : job[t] = None
    BY <2>2, <2>1 DEF Control, TasksHaveJobs, TypeOK
  <2>4. QED
    BY <2>1, <2>2, <2>3 DEF Control, StatusFits, StateIsTheJob, Cancellable
<1>2. /\ \A t \in Server \ {s} : worker[t].result # "busy"
      /\ \A t \in Server : clearing[t] \notin {"check", "remove", "release"}
  BY <1>0, WorkerIsAlone
<1>3. Covers(job[s])
  BY <1>1, NoneDistinct DEF CloudIsCovered
<1>4. Covers(job[s])'
  <2>1. kind \in {"owned", "distributed"}
    BY KindsKnown DEF Control, TypeOK
  <2>2. cloud' \subseteq Res
    BY <1>0 DEF Control, TypeOK
  <2>3. QED
    BY <1>0, <1>1, <1>3, <2>1, <2>2 DEF Covers, Reachable
<1>5. Covers(disk)' /\ disk' # None
  BY <1>0, <1>1, <1>4, SavedFields DEF Covers, Reachable
<1>6. \A t \in Server : ~Busy(t, "delete")'
  BY <1>0, <1>2 DEF Busy, Control, TypeOK, WorkerState
<1>7. \A t \in Server : job'[t] # None => t = s
  BY <1>0, <1>1
<1>8. \A t \in Server : job'[t] # None => Covers(job[t])'
  BY <1>4, <1>7
<1>9. QED
  BY <1>0, <1>2, <1>5, <1>6, <1>8 DEF CloudIsCovered

LEMMA BeginDestroyCloud ==
  ASSUME Control, CloudIsCovered, kind # "ids", NEW s \in Server, BeginDestroy(s)
  PROVE  CloudIsCovered'
<1>0. /\ worker[s].result = "busy" /\ worker[s].op = "destroy" /\ job[s] \in Job
      /\ worker[s] \in WorkerState /\ Covers(job[s])
      /\ UNCHANGED <<kind, cloud, clearing>>
  BY WorkerIsAlone, NoneDistinct
     DEF BeginDestroy, Busy, Control, TypeOK, CloudIsCovered
<1>1. CASE kind = "distributed" /\ "terminal" \in job[s].known
  <2>1. cloud = {}
    BY <1>0, <1>1 DEF Covers
  <2>2. QED
    BY <1>0, <2>1, EmptyIsCovered
<1>2. CASE kind = "distributed" /\ "anchor" \notin job[s].known
  <2>1. cloud = {}
    BY <1>0, <1>2 DEF Covers, Reachable
  <2>2. QED
    BY <1>0, <2>1, EmptyIsCovered
<1>3. CASE ~(kind = "distributed" /\ "terminal" \in job[s].known)
           /\ ~(kind = "distributed" /\ "anchor" \notin job[s].known)
  <2> DEFINE k == [job[s] EXCEPT !.status = "destroying"]
             w == [worker[s] EXCEPT !.op = "delete", !.todo = Reachable(job[s])]
  <2>1. Update(s, k) /\ worker' = [worker EXCEPT ![s] = w]
    BY <1>3 DEF BeginDestroy, Control, TypeOK
  <2>2. k \in Job /\ Heir(k, job[s])
    BY <1>0 DEF Job, Status, Active, Heir
  <2>3. Reachable(job[s]) \subseteq Res /\ cloud' \subseteq Reachable(job[s])
    BY <1>0 DEF Reachable, Covers
  <2>4. w \in WorkerState /\ cloud' \subseteq w.todo
    BY <1>0, <2>3 DEF WorkerState
  <2> HIDE DEF k, w
  <2>5. QED
    BY <1>0, <2>1, <2>2, <2>4, WorkCloud
<1>4. QED
  BY <1>1, <1>2, <1>3

LEMMA EndDeleteCloud ==
  ASSUME Control, CloudIsCovered, kind # "ids", NEW s \in Server, EndDelete(s)
  PROVE  CloudIsCovered'
<1>0. /\ worker[s].result = "busy" /\ worker[s].op = "delete" /\ job[s] \in Job
      /\ worker[s].todo = {}
      /\ UNCHANGED <<kind, cloud, clearing>>
  BY WorkerIsAlone DEF EndDelete, Busy
<1>1. CASE worker[s].bad
  <2> DEFINE k == [job[s] EXCEPT !.status = "cleanup_failed"]
  <2>1. k \in Job /\ Heir(k, job[s])
    BY <1>0 DEF Job, Status, Active, Heir
  <2>2. Settle(s, k)
    BY <1>1 DEF EndDelete
  <2>3. QED
    BY <1>0, <2>1, <2>2, SettleCloud
<1>2. CASE ~worker[s].bad
  <2>1. cloud = {}
    BY <1>0, <1>2 DEF CloudIsCovered, Busy
  <2>2. QED
    BY <1>0, <2>1, EmptyIsCovered
<1>3. QED
  BY <1>1, <1>2

LEMMA WorkerCloud ==
  ASSUME Control, CloudIsCovered, kind # "ids", NEW s \in Server, Worker(s)
  PROVE  CloudIsCovered'
<1>0. worker[s].result = "busy" /\ job[s] \in Job /\ worker[s] \in WorkerState
  <2>1. worker[s].result = "busy"
    BY DEF Worker, Busy, SaveAnchor, RecordResource, EndProvision, SaveIntent, CreateResource,
           DeleteResource, AddResult, EndTest, MakeReport, BeginDestroy, EndDelete,
           UnlockAfterDestroy
  <2>2. QED
    BY <2>1, WorkerIsAlone DEF Control, TypeOK
<1>s. Heir(job[s], job[s])
  BY DEF Heir
<1>a. \A x \in Res \cup {"anchor"} :
        /\ [job[s] EXCEPT !.known = @ \cup {x}] \in Job
        /\ Heir([job[s] EXCEPT !.known = @ \cup {x}], job[s])
  BY <1>0, ResDistinct DEF Job, Known, Heir
<1>w. worker' = worker => worker' = [worker EXCEPT ![s] = worker[s]]
  BY DEF Control, TypeOK
<1>1. CASE SaveAnchor(s) \/ \E r \in Res : SaveIntent(s, r)
  <2>1. worker[s].op # "delete"
    BY <1>1 DEF SaveAnchor, SaveIntent, Busy
  <2>2. QED
    BY <1>0, <1>1, <1>a, <1>w, <2>1, WorkCloud DEF SaveAnchor, SaveIntent
<1>2. CASE RecordResource(s)
  <2>1. worker[s].made \in Res /\ worker[s].op # "delete"
    BY <1>0, <1>2 DEF RecordResource, WorkerState, Busy
  <2> DEFINE w == [worker[s] EXCEPT !.made = None]
  <2>2. w \in WorkerState /\ w.op # "delete"
    BY <1>0, <2>1 DEF WorkerState
  <2>3. worker' = [worker EXCEPT ![s] = w]
    BY <1>2 DEF RecordResource, Control, TypeOK
  <2> HIDE DEF w
  <2>4. QED
    BY <1>0, <1>2, <1>a, <2>1, <2>2, <2>3, WorkCloud DEF RecordResource
<1>3. CASE EndProvision(s) \/ EndTest(s) \/ MakeReport(s)
  BY <1>0, <1>3, <1>s, ReturnCloud DEF EndProvision, EndTest, MakeReport, shared
<1>4. ASSUME NEW r \in Res, CreateResource(s, r)
      PROVE  CloudIsCovered'
  BY <1>4, CreateCloud
<1>5. CASE AddResult(s)
  <2>1. \A x \in {"partial", "complete", "failed"} :
          /\ [job[s] EXCEPT !.results = x] \in Job
          /\ Heir([job[s] EXCEPT !.results = x], job[s])
    BY <1>0 DEF Job, Heir
  <2>2. worker[s].op # "delete"
    BY <1>5 DEF AddResult, Busy
  <2>3. CASE Update(s, [job[s] EXCEPT !.results = "failed"]) /\ Return(s, "raised")
    BY <1>0, <1>5, <2>1, <2>3, ReturnCloud DEF AddResult
  <2>4. CASE /\ Update(s, [job[s] EXCEPT !.results = IF @ = "none" THEN "partial"
                                                                   ELSE "complete"])
             /\ UNCHANGED worker
    BY <1>0, <1>5, <1>w, <2>1, <2>2, <2>4, WorkCloud DEF AddResult
  <2>5. QED
    BY <1>5, <2>3, <2>4 DEF AddResult
<1>6. ASSUME NEW r \in Res, DeleteResource(s, r)
      PROVE  CloudIsCovered'
  <2>0. worker[s].op = "delete" /\ (worker[s].bad \/ cloud \subseteq worker[s].todo)
    BY <1>0, <1>6 DEF DeleteResource, Busy, CloudIsCovered
  <2>1. CASE cloud' = cloud \ {r} /\ worker' = [worker EXCEPT ![s].todo = @ \ {r}]
    <3> DEFINE w == [worker[s] EXCEPT !.todo = @ \ {r}]
    <3>1. w \in WorkerState /\ w.bad = worker[s].bad /\ w.todo = worker[s].todo \ {r}
      BY <1>0 DEF WorkerState
    <3>2. worker' = [worker EXCEPT ![s] = w]
      BY <2>1 DEF Control, TypeOK
    <3>3. w.bad \/ cloud' \subseteq w.todo
      BY <2>0, <2>1, <3>1
    <3> HIDE DEF w
    <3>4. QED
      BY <1>0, <1>6, <1>s, <2>1, <3>1, <3>2, <3>3, WorkCloud DEF DeleteResource, shared
  <2>2. CASE /\ worker' = [worker EXCEPT ![s].todo = @ \ {r}, ![s].bad = TRUE]
             /\ UNCHANGED cloud
    <3> DEFINE w == [worker[s] EXCEPT !.todo = @ \ {r}, !.bad = TRUE]
    <3>1. w \in WorkerState /\ w.bad
      BY <1>0 DEF WorkerState
    <3>2. worker' = [worker EXCEPT ![s] = w]
      BY <2>2 DEF Control, TypeOK
    <3> HIDE DEF w
    <3>3. QED
      BY <1>0, <1>6, <1>s, <2>2, <3>1, <3>2, WorkCloud DEF DeleteResource, shared
  <2>3. QED
    BY <1>6, <2>1, <2>2 DEF DeleteResource
<1>7. CASE BeginDestroy(s) \/ EndDelete(s)
  BY <1>7, BeginDestroyCloud, EndDeleteCloud
<1>8. CASE UnlockAfterDestroy(s)
  BY <1>0, <1>8, <1>s, ReturnCloud DEF UnlockAfterDestroy
<1>9. QED
  BY <1>1, <1>2, <1>3, <1>4, <1>5, <1>6, <1>7, <1>8 DEF Worker

\* Steps that say nothing, or forget the job of a server.
LEMMA SilentCloud ==
  ASSUME Control, CloudIsCovered, kind # "ids",
         \/ UNCHANGED <<job, worker>>
         \/ \E s \in Server : /\ job' = [job EXCEPT ![s] = None]
                              /\ worker' = [worker EXCEPT ![s] = Idle],
         \A t \in Server : clearing'[t] = "remove" => clearing[t] = "remove" \/ cloud = {},
         UNCHANGED <<kind, cloud, disk>>
  PROVE  CloudIsCovered'
<1>1. IF disk' = None THEN cloud' = {} ELSE Covers(disk)'
  BY DEF CloudIsCovered, Covers, Reachable
<1>2. ASSUME NEW t \in Server, job'[t] # None
      PROVE  Covers(job[t])'
  <2>1. job'[t] = job[t]
    BY <1>2 DEF Control, TypeOK
  <2>2. QED
    BY <1>2, <2>1 DEF CloudIsCovered, Covers, Reachable
<1>3. ASSUME NEW t \in Server, Busy(t, "delete")'
      PROVE  worker'[t].bad \/ cloud' \subseteq worker'[t].todo
  <2>1. worker'[t] = worker[t]
    BY <1>3, StartType DEF Control, TypeOK, Busy
  <2>2. QED
    BY <1>3, <2>1 DEF CloudIsCovered, Busy
<1>4. \A t \in Server : clearing'[t] = "remove" => cloud' = {}
  BY DEF CloudIsCovered
<1>5. QED
  BY <1>1, <1>2, <1>3, <1>4 DEF CloudIsCovered

LEMMA HandlerCloud ==
  ASSUME Control, CloudIsCovered, kind # "ids", NEW q \in Request, NEW s \in Server,
         req[q].server = s, Handler(q)
  PROVE  CloudIsCovered'
<1>w. worker' = worker =>
        \A t \in Server : \/ worker'[t] = worker[t] \/ worker'[t].op # "delete"
                          \/ worker'[t].result # "busy"
  OBVIOUS
<1>1. CASE TaskEnded(q) \/ LoadState(q) \/ AcquireForDestroy(q)
  BY <1>1, SilentCloud DEF TaskEnded, LoadState, AcquireForDestroy, memory, shared
<1>2. CASE RequestStop(q)
  <2> DEFINE k == [Interrupt(job[s], req[q].outcome) EXCEPT !.status = "cancelling",
                                                            !.cancel = TRUE]
  <2>1. job[s] \in Job
    BY <1>2 DEF RequestStop, Control, TypeOK, TasksHaveJobs, RequestsFit, Early
  <2>2. k \in Job /\ Heir(k, job[s])
    BY <2>1 DEF Interrupt, Job, Status, Active, Heir
  <2>3. Update(s, k) /\ UNCHANGED <<kind, cloud, worker, clearing>>
    BY <1>2 DEF RequestStop
  <2>4. Covers(job[s])
    BY <2>1, NoneDistinct DEF CloudIsCovered
  <2> HIDE DEF k
  <2>5. QED
    BY <1>w, <2>1, <2>2, <2>3, <2>4, QuietStep DEF Update, Persist
<1>3. CASE RewriteState(q)
  <2>1. CASE ~registered[s]
    BY <1>3, <2>1, SilentCloud DEF RewriteState, memory
  <2>2. CASE registered[s]
    <3>1. job[s] \in Job
      BY <2>2 DEF Control, TypeOK, TasksHaveJobs
    <3>2. Covers(job[s]) /\ Heir(job[s], job[s])
      BY <3>1, NoneDistinct DEF CloudIsCovered, Heir
    <3>3. disk' = Saved(job[s]) /\ UNCHANGED <<kind, cloud, job, worker, clearing>>
      BY <1>3, <2>2 DEF RewriteState, Persist, memory
    <3>4. QED
      BY <1>w, <3>1, <3>2, <3>3, QuietStep
  <2>3. QED
    BY <2>1, <2>2
<1>4. CASE ReloadAndSubmit(q)
  <2>1. disk \in Job /\ disk # None
    BY <1>4 DEF ReloadAndSubmit, Control, TypeOK, DirectoryFits
  <2>2. CASE disk.status = "destroyed"
    BY <1>4, <2>2, SilentCloud DEF ReloadAndSubmit, memory
  <2>3. CASE disk.status # "destroyed"
    <3>1. Taken(q) \in Job /\ Heir(Taken(q), disk)
      BY <2>1, <2>3, TakenFits DEF Heir
    <3>2. /\ job' = [job EXCEPT ![s] = Taken(q)] /\ disk' = Saved(Taken(q))
          /\ worker' = [worker EXCEPT ![s] = [Start("destroy") EXCEPT !.lease = lease]]
          /\ UNCHANGED <<kind, cloud, clearing>>
      BY <1>4, <2>3 DEF ReloadAndSubmit, Submit, Taken, Update, Persist
    <3>3. [Start("destroy") EXCEPT !.lease = lease].op = "destroy"
      BY DEF Start, Idle
    <3>4. \A t \in Server : worker'[t] = worker[t] \/ worker'[t].op # "delete"
      BY <3>2, <3>3 DEF Control, TypeOK
    <3>5. Covers(disk)
      BY <2>1 DEF CloudIsCovered
    <3>6. QED
      BY <2>1, <3>1, <3>2, <3>4, <3>5, QuietStep
  <2>4. QED
    BY <2>2, <2>3
<1>5. QED
  BY <1>1, <1>2, <1>3, <1>4 DEF Handler

LEMMA ClearCloud ==
  ASSUME Control, CloudIsCovered, kind # "ids", NEW s \in Server,
         ClearAcquire(s) \/ ClearThread(s)
  PROVE  CloudIsCovered'
<1>1. CASE ClearCheck(s)
  <2> DEFINE j == IF registered[s] THEN job[s] ELSE disk
  <2>1. Covers(j)
    <3>1. disk # None /\ (registered[s] => job[s] # None)
      BY <1>1 DEF ClearCheck, Control, DirectoryFits, TasksHaveJobs
    <3>2. QED
      BY <3>1 DEF CloudIsCovered
  <2>2. Disposable(j) => cloud = {}
    BY <2>1 DEF Disposable, HasRecoverable, Covers, Reachable
  <2>3. clearing' = [clearing EXCEPT ![s] = "remove"] => Disposable(j)
    <3>1. clearing'[s] = IF ~tasked[s] /\ Disposable(j) THEN "remove" ELSE "release"
      BY <1>1 DEF ClearCheck, Clear, Control, TypeOK
    <3>2. QED
      BY <3>1 DEF Control, TypeOK
  <2>4. \A t \in Server : clearing'[t] = "remove" => clearing[t] = "remove" \/ cloud = {}
    <3>1. \A t \in Server \ {s} : clearing'[t] = clearing[t]
      BY <1>1 DEF ClearCheck, Clear, Control, TypeOK
    <3>2. clearing'[s] = "remove" => Disposable(j)
      BY <1>1 DEF ClearCheck, Clear, Control, TypeOK
    <3>3. QED
      BY <2>2, <3>1, <3>2
  <2>5. UNCHANGED <<job, worker, kind, cloud, disk>>
    BY <1>1 DEF ClearCheck, memory, shared
  <2> HIDE DEF j
  <2>6. QED
    BY <2>4, <2>5, SilentCloud
<1>2. CASE RemoveDirectory(s)
  <2>1. cloud' = {}
    BY <1>2 DEF RemoveDirectory, CloudIsCovered
  <2>2. QED
    BY <2>1, EmptyIsCovered
<1>3. CASE ClearAcquire(s) \/ ForgetRun(s) \/ ClearRelease(s)
  <2>1. \A t \in Server : clearing'[t] = "remove" => clearing[t] = "remove"
    BY <1>3 DEF ClearAcquire, ForgetRun, ClearRelease, Clear, Control, TypeOK
  <2>2. UNCHANGED <<job, worker, kind, cloud, disk>>
    BY <1>3 DEF ClearAcquire, ForgetRun, ClearRelease, memory, shared
  <2>3. QED
    BY <2>1, <2>2, SilentCloud
<1>4. QED
  BY <1>1, <1>2, <1>3 DEF ClearThread

LEMMA KindStays ==
  ASSUME [Next]_vars
  PROVE  kind' = kind
<1>1. ASSUME NEW s \in Server, Supervisor(s)
      PROVE  kind' = kind
  BY <1>1 DEF Supervisor, StartRun, AfterProvision, AfterTest, AfterReport, AfterFailReport,
              AfterStopReport, AfterCleanup, Resumes, CleanupTaskDone
<1>2. ASSUME NEW s \in Server, Worker(s)
      PROVE  kind' = kind
  BY <1>2 DEF Worker, SaveAnchor, RecordResource, EndProvision, SaveIntent, CreateResource,
              DeleteResource, AddResult, EndTest, MakeReport, BeginDestroy, EndDelete,
              UnlockAfterDestroy
<1>3. ASSUME NEW s \in Server, ClearAcquire(s) \/ ClearThread(s)
      PROVE  kind' = kind
  BY <1>3 DEF ClearAcquire, ClearThread, ClearCheck, RemoveDirectory, ForgetRun, ClearRelease
<1>4. ASSUME NEW s \in Server, CreateJob(s) \/ Shutdown(s) \/ Exit(s) \/ Crash(s)
      PROVE  kind' = kind
  BY <1>4 DEF CreateJob, Shutdown, Exit, Crash
<1>5. ASSUME NEW q \in Request,
             Handler(q) \/ \E s \in Server : DestroyRequest(q, s)
      PROVE  kind' = kind
  BY <1>5 DEF DestroyRequest, Handler, RequestStop, TaskEnded, LoadState, RewriteState,
              AcquireForDestroy, ReloadAndSubmit
<1>6. QED
  BY <1>1, <1>2, <1>3, <1>4, <1>5 DEF Next, vars

LEMMA NextCloud ==
  ASSUME Control, CloudIsCovered, [Next]_vars
  PROVE  CloudIsCovered'
<1>1. CASE kind = "ids"
  <2>1. kind' = kind
    BY KindStays
  <2>2. QED
    BY <1>1, <2>1 DEF CloudIsCovered
<1>2. CASE kind # "ids"
  <2>1. ASSUME NEW s \in Server, CreateJob(s)
        PROVE  CloudIsCovered'
    <3>1. disk = None
      BY <2>1 DEF CreateJob, Control, DirectoryFits, InPlace
    <3>2. cloud' = {}
      BY <1>2, <2>1, <3>1 DEF CreateJob, CloudIsCovered
    <3>3. QED
      BY <3>2, EmptyIsCovered
  <2>2. ASSUME NEW s \in Server, Supervisor(s) \/ Worker(s)
        PROVE  CloudIsCovered'
    BY <1>2, <2>2, SupervisorCloud, WorkerCloud
  <2>3. ASSUME NEW s \in Server, ClearAcquire(s) \/ ClearThread(s)
        PROVE  CloudIsCovered'
    BY <1>2, <2>3, ClearCloud
  <2>4. ASSUME NEW s \in Server, Shutdown(s) \/ Exit(s) \/ Crash(s)
        PROVE  CloudIsCovered'
    <3>1. \A t \in Server : clearing'[t] = "remove" => clearing[t] = "remove"
      BY <2>4 DEF Shutdown, Exit, Crash, Control, TypeOK
    <3>2. QED
      BY <1>2, <2>4, <3>1, SilentCloud DEF Shutdown, Exit, Crash, Forgotten, shared
  <2>5. ASSUME NEW s \in Server, NEW q \in Request, DestroyRequest(q, s)
        PROVE  CloudIsCovered'
    BY <1>2, <2>5, SilentCloud DEF DestroyRequest, memory, shared
  <2>6. ASSUME NEW q \in Request, Handler(q)
        PROVE  CloudIsCovered'
    <3>1. req[q].server \in Server
      BY <2>6 DEF Handler, RequestStop, TaskEnded, LoadState, RewriteState,
                  AcquireForDestroy, ReloadAndSubmit, Control, RequestsFit
    <3>2. QED
      BY <1>2, <2>6, <3>1, HandlerCloud
  <2>7. CASE UNCHANGED vars
    BY <1>2, <2>7, SilentCloud DEF vars
  <2>8. QED
    BY <2>1, <2>2, <2>3, <2>4, <2>5, <2>6, <2>7 DEF Next
<1>3. QED
  BY <1>1, <1>2

THEOREM CloudHolds == Spec => [](Control /\ CloudIsCovered)
<1>1. Init => Control /\ CloudIsCovered
  <2>1. Init => CloudIsCovered
    BY StartType DEF Init, CloudIsCovered, Busy
  <2>2. QED
    BY <2>1, InitControl
<1>2. (Control /\ CloudIsCovered) /\ [Next]_vars => (Control /\ CloudIsCovered)'
  BY NextControl, NextCloud
<1>3. QED
  BY <1>1, <1>2, PTL DEF Spec

\* A run of AWS, GCP, Azure or a distributed run is called destroyed, on disk or
\* by a server that has it registered, only when none of its resources exists.
\* (OCI, kind "ids", records a resource only once its create returned, so a
\* worker that fails in between leaves one that cleanup does not know of.)
THEOREM DestroyedRunsAreGone == Spec => [](kind # "ids" => DestroyedMeansGone)
<1>1. Control /\ CloudIsCovered => (kind # "ids" => DestroyedMeansGone)
  BY NoneDistinct
     DEF Control, TypeOK, TasksHaveJobs, CloudIsCovered, Covers, DestroyedMeansGone
<1>2. QED
  BY <1>1, CloudHolds, PTL

\* Whenever a server dies, the state.json in place reaches every resource that
\* exists, for every provider that saves its intent first.
THEOREM CloudStaysRecoverable == Spec => [](kind # "ids" => CloudIsRecoverable)
<1>1. Control /\ CloudIsCovered => (kind # "ids" => CloudIsRecoverable)
  BY DEF CloudIsCovered, Covers, CloudIsRecoverable
<1>2. QED
  BY <1>1, CloudHolds, PTL

-------------------------------------------------------------------------------
(* Saves of a run that is in history.                                      *)

\* The owner of the run saves k, which takes neither the destroyed status nor,
\* unless a stop is being requested, an outcome away.
Continues(s, k) ==
  /\ lease \in {RunLease(s), DestroyLease(s)}
  /\ disk' = Saved(k) /\ job'[s] # None /\ Saved(job'[s]) = Saved(k)
  /\ disk.status = "destroyed" => k.status = "destroyed"
  /\ (\A q \in Request : req[q].pc # "stop") /\ Outcome(disk) \in {"complete", "failed"}
       => Outcome(k) = Outcome(disk)

LEMMA SupervisorContinues ==
  ASSUME Control, NEW s \in Server, Supervisor(s), disk' # disk
  PROVE  \E k \in Job : Continues(s, k)
<1>1. /\ task[s] \in RunTasks
      /\ \/ Moves(s, job[s])
         \/ StartRun(s)
            /\ Suspend(s, [job[s] EXCEPT !.status = "provisioning"], "provision", "provision")
  <2>1. CASE StartRun(s)
    <3>1. stopping[s] = "no"
      BY <2>1 DEF StartRun
    <3>2. task[s] \in RunTasks
      BY <2>1 DEF StartRun, RunTasks, Early
    <3>3. QED
      BY <2>1, <3>1, <3>2, StartMoves
  <2>2. CASE After(s)
    <3>1. task[s] \in RunTasks
      BY <2>2 DEF After, AfterProvision, AfterTest, AfterReport, AfterFailReport,
                  AfterStopReport, AfterCleanup, Resumes, RunTasks, Early, Reporting, Cleaning
    <3>2. QED
      BY <2>2, <3>1, AfterMoves
  <2>3. CASE CleanupTaskDone(s)
    BY <2>3 DEF CleanupTaskDone, shared
  <2>4. QED
    BY <2>1, <2>2, <2>3 DEF Supervisor, After
<1>2. /\ lease = RunLease(s) /\ job[s] \in Job /\ disk = Saved(job[s])
      /\ disk.status = job[s].status /\ Outcome(disk) = Outcome(job[s])
  <2>1. lease = RunLease(s) /\ job[s] \in Job /\ disk = Saved(job[s])
    BY <1>1 DEF Control, LeaseIsHeld, TasksHaveJobs, StateIsTheJob, TypeOK, RunTasks, Early,
                Reporting, Cleaning
  <2>2. QED
    BY <2>1, SavedFields DEF Outcome
<1>3. ASSUME NEW k \in Job, Follows(job[s], k)
      PROVE  /\ disk.status = "destroyed" => k.status = "destroyed"
             /\ Outcome(disk) \in {"complete", "failed"} => Outcome(k) = Outcome(disk)
  BY <1>2, <1>3 DEF Follows
<1>4. ASSUME NEW k \in Job, Follows(job[s], k), Finish(s, k)
      PROVE  Continues(s, k)
  <2>1. /\ job'[s] = [k EXCEPT !.cancel = FALSE] /\ disk' = Saved(k)
    BY <1>4 DEF Finish, Persist, Control, TypeOK
  <2>2. [k EXCEPT !.cancel = FALSE] \in Job /\ Saved([k EXCEPT !.cancel = FALSE]) = Saved(k)
    BY DEF Job, Saved
  <2>3. QED
    BY <1>2, <1>3, <1>4, <2>1, <2>2, NoneDistinct DEF Continues
<1>5. ASSUME NEW k \in Job, Follows(job[s], k), NEW label, NEW op, Suspend(s, k, label, op)
      PROVE  Continues(s, k)
  <2>1. job'[s] = k /\ disk' = Saved(k)
    BY <1>5 DEF Suspend, Persist, Control, TypeOK
  <2>2. QED
    BY <1>2, <1>3, <1>5, <2>1, NoneDistinct DEF Continues
<1>6. CASE Moves(s, job[s])
  BY <1>4, <1>5, <1>6 DEF Moves
<1>7. CASE /\ StartRun(s)
           /\ Suspend(s, [job[s] EXCEPT !.status = "provisioning"], "provision", "provision")
  <2>1. job[s].status # "destroyed"
    BY <1>7 DEF StartRun, Control, StatusFits, Early, Cancellable
  <2>2. /\ [job[s] EXCEPT !.status = "provisioning"] \in Job
        /\ Follows(job[s], [job[s] EXCEPT !.status = "provisioning"])
    BY <1>2, <2>1 DEF Follows, Job, Outcome, Status, Active
  <2>3. QED
    BY <1>5, <1>7, <2>2
<1>8. QED
  BY <1>1, <1>6, <1>7

\* Cleanup changes a job's status and what it knows, and nothing else of it.
LEMMA CleanupUpdates ==
  ASSUME NEW s \in Server, job[s] \in Job, BeginDestroy(s) \/ EndDelete(s)
  PROVE  \E x \in Status, known \in SUBSET Known :
           Update(s, [job[s] EXCEPT !.status = x, !.known = known])
<1>1. \A x \in Status :
        [job[s] EXCEPT !.status = x] = [job[s] EXCEPT !.status = x, !.known = job[s].known]
  BY DEF Job
<1>2. \/ \E x \in Status : Update(s, [job[s] EXCEPT !.status = x])
      \/ \E x \in Status : Update(s, [job[s] EXCEPT !.status = x, !.known = {"terminal"}])
      \/ \E x \in Status : Update(s, [job[s] EXCEPT !.status = x, !.known = job[s].known])
  BY DEF BeginDestroy, EndDelete, Settle, Status, Active
<1>3. job[s].known \in SUBSET Known /\ {"terminal"} \in SUBSET Known
  BY DEF Job, Known
<1>4. QED
  BY <1>1, <1>2, <1>3

LEMMA WorkerContinues ==
  ASSUME Control, NEW s \in Server, Worker(s), dir = "here", disk' # disk
  PROVE  \E k \in Job : Continues(s, k)
<1>0. /\ worker[s].result = "busy" /\ lease \in {RunLease(s), DestroyLease(s)}
      /\ job[s] \in Job /\ disk = Saved(job[s])
      /\ disk.status = job[s].status /\ Outcome(disk) = Outcome(job[s])
      /\ worker[s].made \in Res \cup {None}
  <2>1. worker[s].result = "busy"
    BY DEF Worker, Busy, SaveAnchor, RecordResource, EndProvision, SaveIntent, CreateResource,
           DeleteResource, AddResult, EndTest, MakeReport, BeginDestroy, EndDelete,
           UnlockAfterDestroy
  <2>2. job[s] \in Job /\ disk = Saved(job[s]) /\ worker[s] \in WorkerState
    BY <2>1, WorkerIsAlone DEF Control, StateIsTheJob, TypeOK
  <2>3. worker[s].made \in Res \cup {None}
    BY <2>2 DEF WorkerState
  <2>4. QED
    BY <2>1, <2>2, <2>3, WorkerIsAlone, SavedFields DEF Outcome
<1>1. ASSUME NEW k \in Job, Update(s, k),
             k.status = job[s].status \/ job[s].status # "destroyed",
             Outcome(job[s]) \in {"complete", "failed"} => Outcome(k) = Outcome(job[s])
      PROVE  Continues(s, k)
  <2>1. job'[s] = k /\ disk' = Saved(k)
    BY <1>1 DEF Update, Persist, Control, TypeOK
  <2>2. QED
    BY <1>0, <1>1, <2>1, NoneDistinct DEF Continues
<1>2. ASSUME NEW x \in Known, Update(s, [job[s] EXCEPT !.known = @ \cup {x}])
      PROVE  \E k \in Job : Continues(s, k)
  <2>1. [job[s] EXCEPT !.known = @ \cup {x}] \in Job
    BY <1>0 DEF Job
  <2>2. Outcome([job[s] EXCEPT !.known = @ \cup {x}]) = Outcome(job[s])
    BY <1>0 DEF Job, Outcome
  <2>3. QED
    BY <1>0, <1>1, <1>2, <2>1, <2>2 DEF Job
<1>3. CASE SaveAnchor(s)
  BY <1>2, <1>3 DEF SaveAnchor, Known
<1>4. ASSUME NEW r \in Res, SaveIntent(s, r)
      PROVE  \E k \in Job : Continues(s, k)
  BY <1>2, <1>4 DEF SaveIntent, Known
<1>5. CASE RecordResource(s)
  BY <1>0, <1>2, <1>5 DEF RecordResource, Known
<1>6. CASE AddResult(s)
  <2>1. task[s] = "test" /\ ~job[s].error /\ job[s].results \in {"none", "partial"}
    BY <1>6 DEF AddResult, Busy, Control, WorkersFit, StatusFits, Early
  <2>2. Outcome(job[s]) \notin {"complete", "failed"}
    BY <2>1 DEF Outcome
  <2>3. PICK x \in {"partial", "complete", "failed"} :
          Update(s, [job[s] EXCEPT !.results = x])
    BY <1>6, <2>1 DEF AddResult
  <2>4. [job[s] EXCEPT !.results = x] \in Job
    BY <1>0 DEF Job
  <2>5. [job[s] EXCEPT !.results = x].status = job[s].status
    BY <1>0 DEF Job
  <2>6. QED
    BY <1>1, <2>2, <2>3, <2>4, <2>5
<1>7. CASE BeginDestroy(s) \/ EndDelete(s)
  <2>1. job[s].status # "destroyed"
    <3>1. Destroying(s) /\ task[s] \in Cleaning \cup {"destroy"}
      BY <1>7 DEF BeginDestroy, EndDelete, Busy, Destroying, Control, WorkersFit
    <3>2. QED
      BY <3>1 DEF Control, StatusFits
  <2>2. \A x \in Status : \A known \in SUBSET Known :
          /\ [job[s] EXCEPT !.status = x, !.known = known] \in Job
          /\ Outcome([job[s] EXCEPT !.status = x, !.known = known]) = Outcome(job[s])
    BY <1>0 DEF Job, Outcome
  <2>3. \E x \in Status, known \in SUBSET Known :
          Update(s, [job[s] EXCEPT !.status = x, !.known = known])
    BY <1>0, <1>7, CleanupUpdates
  <2>4. QED
    BY <1>1, <2>1, <2>2, <2>3
<1>8. QED
  BY <1>3, <1>4, <1>5, <1>6, <1>7
     DEF Worker, EndProvision, CreateResource, DeleteResource, EndTest, MakeReport,
         UnlockAfterDestroy, shared

LEMMA HandlerContinues ==
  ASSUME Control, NEW q \in Request, Handler(q), dir = "here", disk' # disk
  PROVE  \E s \in Server, k \in Job : Continues(s, k)
<1>1. CASE RequestStop(q)
  <2>1. PICK s \in Server : s = req[q].server
    BY <1>1 DEF RequestStop, Control, RequestsFit
  <2>2. /\ task[s] \in Early /\ lease = RunLease(s) /\ job[s] \in Job
        /\ disk = Saved(job[s]) /\ disk.status # "destroyed"
    <3>1. task[s] \in Early /\ task[s] \in RunTasks /\ task[s] # "none"
      BY <1>1, <2>1 DEF RequestStop, Control, RequestsFit, RunTasks, Early
    <3>2. job[s] \in Job /\ disk = Saved(job[s]) /\ job[s].status \in Cancellable
      BY <3>1 DEF Control, StateIsTheJob, TasksHaveJobs, TypeOK, StatusFits
    <3>3. QED
      BY <3>1, <3>2, SavedFields DEF Control, LeaseIsHeld, Cancellable
  <2> DEFINE k == [Interrupt(job[s], req[q].outcome) EXCEPT !.status = "cancelling",
                                                            !.cancel = TRUE]
  <2>3. k \in Job /\ Update(s, k)
    BY <1>1, <2>1, <2>2 DEF RequestStop, Interrupt, Job, Status, Active
  <2> HIDE DEF k
  <2>4. job'[s] = k /\ disk' = Saved(k)
    BY <2>3 DEF Update, Persist, Control, TypeOK
  <2>5. Continues(s, k)
    BY <1>1, <2>2, <2>3, <2>4, NoneDistinct DEF Continues, RequestStop
  <2>6. QED
    BY <2>3, <2>5
<1>2. CASE ReloadAndSubmit(q)
  <2>1. PICK s \in Server : s = req[q].server
    BY <1>2 DEF ReloadAndSubmit, Control, RequestsFit
  <2>2. lease = DestroyLease(s) /\ disk \in Job /\ disk.status # "destroyed"
    BY <1>2, <2>1 DEF ReloadAndSubmit, Control, LeaseIsHeld, DirectoryFits, TypeOK
  <2>3. Taken(q) \in Job /\ job'[s] = Taken(q) /\ disk' = Saved(Taken(q))
    <3>1. job' = [job EXCEPT ![s] = Taken(q)] /\ disk' = Saved(Taken(q))
      BY <1>2, <2>1, <2>2 DEF ReloadAndSubmit, Submit, Taken, Update, Persist
    <3>2. QED
      BY <2>2, <3>1, TakenFits DEF Control, TypeOK
  <2>4. Continues(s, Taken(q))
    BY <2>2, <2>3, TakenFits, NoneDistinct DEF Continues
  <2>5. QED
    BY <2>3, <2>4
<1>3. CASE RewriteState(q)
  BY <1>3 DEF RewriteState, Control, RequestsFit
<1>4. QED
  BY <1>1, <1>2, <1>3 DEF Handler, TaskEnded, LoadState, AcquireForDestroy, shared

LEMMA HistoryContinues ==
  ASSUME Control, [Next]_vars, InHistory, disk' # disk
  PROVE  \E s \in Server, k \in Job : Continues(s, k)
<1>1. ASSUME NEW s \in Server, Supervisor(s) \/ Worker(s)
      PROVE  \E k \in Job : Continues(s, k)
  BY <1>1, SupervisorContinues, WorkerContinues DEF InHistory
<1>2. ASSUME NEW q \in Request, Handler(q)
      PROVE  \E s \in Server, k \in Job : Continues(s, k)
  BY <1>2, HandlerContinues DEF InHistory
<1>3. ASSUME NEW s \in Server, CreateJob(s) \/ RemoveDirectory(s)
      PROVE  FALSE
  BY <1>3 DEF CreateJob, RemoveDirectory, InHistory
<1>4. ASSUME NEW s \in Server,
             \/ ClearAcquire(s) \/ ClearCheck(s) \/ ForgetRun(s) \/ ClearRelease(s)
             \/ Shutdown(s) \/ Exit(s) \/ Crash(s)
             \/ \E q \in Request : DestroyRequest(q, s)
      PROVE  FALSE
  BY <1>4 DEF ClearAcquire, ClearCheck, ForgetRun, ClearRelease, Shutdown, Exit, Crash,
              DestroyRequest, shared
<1>5. QED
  BY <1>1, <1>2, <1>3, <1>4 DEF Next, ClearThread, vars

\* A destroyed run is never given another status while it is in history.
THEOREM DestroyedStaysDestroyed == Spec => DestroyedIsFinal
<1>1. Control /\ [Next]_vars
        => (InHistory /\ disk.status = "destroyed" => disk'.status = "destroyed")
  <2>1. \A k \in Job : Saved(k).status = k.status
    BY SavedFields
  <2>2. QED
    BY <2>1, HistoryContinues DEF Continues
<1>2. QED
  BY <1>1, ControlHolds, PTL DEF Spec, DestroyedIsFinal

\* A benchmark outcome that was saved stays what it is through Stop, restarts and
\* cleanup, except while a stop that looked at an earlier one is being requested.
THEOREM OutcomesAreKept == Spec => OutcomeIsKept
<1>1. Control /\ [Next]_vars
        => (InHistory /\ Outcome(disk) \in {"complete", "failed"}
              /\ (\A q \in Request : req[q].pc # "stop")
              => Outcome(disk') = Outcome(disk))
  <2>1. \A k \in Job : Outcome(Saved(k)) = Outcome(k)
    BY SavedFields
  <2>2. QED
    BY <2>1, HistoryContinues DEF Continues
<1>2. QED
  BY <1>1, ControlHolds, PTL DEF Spec, OutcomeIsKept

\* While a run is in history, only the server that owns it replaces state.json,
\* and by its own job object.
THEOREM OwnersSave == Spec => OnlyTheOwnerSaves
<1>1. Control /\ [Next]_vars
        => (InHistory /\ disk' # disk
              => \E s \in Server : /\ lease \in {RunLease(s), DestroyLease(s)}
                                   /\ job'[s] # None /\ disk' = Saved(job'[s]))
  BY HistoryContinues DEF Continues
<1>2. QED
  BY <1>1, ControlHolds, PTL DEF Spec, OnlyTheOwnerSaves

-------------------------------------------------------------------------------
(* A supervisor does not end before cleanup was tried.                     *)

Stops == {"stopReport", "stopCleanup"}
Tried == {"cleanup_failed", "destroyed"}

\* Stopping has started only at the labels that say so, and whoever waits for a
\* worker has had one.
StopsFit ==
  \A s \in Server : task[s] \in RunTasks =>
    /\ job[s].stopStarted => task[s] \in Stops
    /\ worker[s].result = "none" => task[s] = "created"

\* Cleanup is asked for: by the user, or by the plan.
Asked(s) == stopping[s] = "no" /\ (job[s].cancel \/ job[s].autoDestroy)

\* Like Moves, with what ends and stops are about.
Orderly(s) ==
  \E k \in Job :
    \/ Finish(s, k) /\ (Asked(s) => k.status \in Tried)
    \/ \E label \in RunTasks \ {"created"},
          op \in {"provision", "test", "report", "destroy"} :
         Suspend(s, k, label, op) /\ (k.stopStarted => label \in Stops)

LEMMA StopIsOrderly ==
  ASSUME NEW s \in Server, job[s] \in Job, StopJob(s, job[s]),
         job[s].stopStarted \/ job[s].status = "destroyed" => job[s].status \in Tried
  PROVE  Orderly(s)
<1> DEFINE j == job[s]
           marked == [Interrupt(j, Outcome(j)) EXCEPT !.stopStarted = TRUE]
           stopped == [marked EXCEPT
                         !.error = IF Outcome(j) \in {"complete", "failed"} THEN @ ELSE FALSE]
           pending == [stopped EXCEPT !.status = "cleanup_pending"]
<1>1. stopped \in Job /\ pending \in Job /\ stopped.status = j.status
  BY DEF Job, Interrupt, Status, Active
<1>2. \/ j.stopStarted /\ Finish(s, j)
      \/ j.status = "destroyed" /\ Finish(s, stopped)
      \/ Suspend(s, pending, "stopReport", "report")
      \/ Suspend(s, pending, "stopCleanup", "destroy")
  BY DEF StopJob
<1> HIDE DEF pending, stopped
<1>3. QED
  BY <1>1, <1>2 DEF Orderly, Stops, RunTasks, Reporting, Cleaning

LEMMA FinallyIsOrderly ==
  ASSUME NEW s \in Server, NEW k \in Job, job[s] \in Job, Finally(s, k), ~k.cancel,
         Asked(s) => k.status \in Tried
  PROVE  Orderly(s)
BY DEF Finally, Orderly

LEMMA FailIsOrderly ==
  ASSUME NEW s \in Server, job[s] \in Job, ~job[s].stopStarted,
         job[s].status # "destroyed", FailJob(s, job[s])
  PROVE  Orderly(s)
<1> DEFINE j == job[s]
           failed == [j EXCEPT !.error = TRUE,
                               !.status = IF j.autoDestroy THEN "cleanup_pending"
                                                           ELSE "failed"]
<1>1. /\ failed \in Job /\ failed.cancel = j.cancel /\ ~failed.stopStarted
  BY DEF Job, Status, Active
<1>2. \/ StopJob(s, j)
      \/ Suspend(s, failed, "failReport", "report")
      \/ Suspend(s, failed, "failCleanup", "destroy")
      \/ ~j.cancel /\ ~j.autoDestroy /\ Finally(s, failed)
  BY DEF FailJob
<1> HIDE DEF failed
<1>3. QED
  BY <1>1, <1>2, StopIsOrderly, FinallyIsOrderly
     DEF Orderly, Asked, RunTasks, Reporting, Cleaning

\* Early, nothing has been stopped or destroyed, so a stop suspends the task.
LEMMA ContinueIsOrderly ==
  ASSUME NEW s \in Server, job[s] \in Job, ~job[s].stopStarted,
         job[s].status # "destroyed", NEW next, Continue(s, next),
         worker[s].result # "none", worker[s].result # "busy", worker[s] \in WorkerState,
         next /\ ~job[s].cancel => Orderly(s)
  PROVE  Orderly(s)
<1>1. CASE ShutDown(s)
  <2>1. ~Asked(s)
    BY <1>1 DEF ShutDown, Asked
  <2>2. CASE job[s].cancel
    BY <1>1, <2>2, StopIsOrderly DEF Continue, Finally
  <2>3. CASE ~job[s].cancel
    BY <1>1, <2>1, <2>3, FinallyIsOrderly DEF Continue
  <2>4. QED
    BY <2>2, <2>3
<1>2. CASE ~ShutDown(s)
  <2>1. worker[s].result \in {"ok", "raised", "cancelled"}
    BY DEF WorkerState
  <2>2. QED
    BY <1>2, <2>1, StopIsOrderly, FailIsOrderly DEF Continue
<1>3. QED
  BY <1>1, <1>2

LEMMA RunIsOrderly ==
  ASSUME Control, StopsFit, NEW s \in Server,
         After(s) \/ (StartRun(s) /\ stopping[s] = "no")
  PROVE  Orderly(s)
<1>0. task[s] \in RunTasks /\ job[s] \in Job /\ worker[s] \in WorkerState
  <2>1. task[s] \in RunTasks
    BY DEF After, AfterProvision, AfterTest, AfterReport, AfterFailReport, AfterStopReport,
           AfterCleanup, Resumes, StartRun, RunTasks, Early, Reporting, Cleaning
  <2>2. QED
    BY <2>1 DEF Control, TypeOK, TasksHaveJobs, RunTasks, Early, Reporting, Cleaning
<1>e. task[s] \in Early =>
        job[s].status # "destroyed" /\ ~job[s].stopStarted
  BY <1>0 DEF Control, StatusFits, StopsFit, Stops, Cancellable, Early
<1>s. \A status \in Status :
        /\ [job[s] EXCEPT !.status = status] \in Job
        /\ [job[s] EXCEPT !.status = status].stopStarted = job[s].stopStarted
        /\ [job[s] EXCEPT !.status = status].cancel = job[s].cancel
  BY <1>0 DEF Job
<1>l. /\ {"test", "report", "provision"} \subseteq RunTasks
      /\ Reporting \subseteq RunTasks /\ Cleaning \subseteq RunTasks
      /\ {"provisioning", "testing", "reporting", "cleanup_pending", "complete"} \subseteq Status
  BY DEF RunTasks, Early, Status, Active
<1>1. CASE AfterProvision(s) \/ AfterTest(s) \/ AfterReport(s)
  <2>0. /\ task[s] \in Early \ {"created"} /\ worker[s].result \notin {"none", "busy"}
        /\ job[s].status # "destroyed" /\ ~job[s].stopStarted
    BY <1>0, <1>1, <1>e DEF AfterProvision, AfterTest, AfterReport, Resumes, StopsFit, Early
  <2>1. ASSUME NEW status \in {"testing", "reporting", "cleanup_pending"},
               NEW label \in {"test", "report", "cleanup"},
               NEW op \in {"test", "report", "destroy"},
               Suspend(s, [job[s] EXCEPT !.status = status], label, op)
        PROVE  Orderly(s)
    <3>1. label \in RunTasks \ {"created"} /\ status \in Status
      BY <1>l DEF Cleaning
    <3>2. /\ [job[s] EXCEPT !.status = status] \in Job
          /\ ~[job[s] EXCEPT !.status = status].stopStarted
      BY <1>s, <2>0, <3>1
    <3>3. QED
      BY <2>1, <3>1, <3>2 DEF Orderly
  <2>2. ASSUME ~job[s].autoDestroy, ~job[s].cancel,
               Finish(s, [job[s] EXCEPT !.status = "complete"])
        PROVE  Orderly(s)
    <3>1. [job[s] EXCEPT !.status = "complete"] \in Job
      BY <1>s, <1>l
    <3>2. QED
      BY <2>2, <3>1 DEF Orderly, Asked
  <2>3. FailJob(s, job[s]) => Orderly(s)
    BY <1>0, <2>0, FailIsOrderly
  <2>4. CASE AfterProvision(s)
    BY <1>0, <2>0, <2>1, <2>4, ContinueIsOrderly DEF AfterProvision
  <2>5. CASE AfterTest(s)
    BY <1>0, <2>0, <2>1, <2>3, <2>5, ContinueIsOrderly DEF AfterTest
  <2>6. CASE AfterReport(s)
    BY <1>0, <2>0, <2>1, <2>2, <2>6, ContinueIsOrderly DEF AfterReport
  <2>7. QED
    BY <1>1, <2>4, <2>5, <2>6
<1>2. CASE AfterFailReport(s)
  <2>1. /\ job[s].status # "destroyed" /\ ~job[s].stopStarted
    BY <1>0, <1>2 DEF AfterFailReport, Resumes, Control, StatusFits, StopsFit, Stops, Reporting
  <2>2. CASE Suspend(s, job[s], "failCleanup", "destroy")
    BY <1>0, <1>l, <2>1, <2>2 DEF Orderly, Cleaning
  <2>3. CASE Finally(s, job[s]) /\ (~job[s].autoDestroy \/ ShutDown(s))
    <3>1. CASE job[s].cancel
      BY <1>0, <2>1, <2>3, <3>1, StopIsOrderly DEF Finally
    <3>2. CASE ~job[s].cancel
      BY <1>0, <2>3, <3>2, FinallyIsOrderly DEF Asked, ShutDown
    <3>3. QED
      BY <3>1, <3>2
  <2>4. QED
    BY <1>2, <2>2, <2>3 DEF AfterFailReport
<1>3. CASE AfterStopReport(s)
  <2>1. CASE Suspend(s, job[s], "stopCleanup", "destroy")
    BY <1>0, <1>l, <2>1 DEF Orderly, Cleaning, Stops
  <2>2. CASE Finish(s, job[s]) /\ ShutDown(s)
    BY <1>0, <2>2 DEF Orderly, Asked, ShutDown
  <2>3. QED
    BY <1>3, <2>1, <2>2 DEF AfterStopReport
<1>4. CASE AfterCleanup(s)
  <2>1. job[s].status \in Tried
    BY <1>0, <1>4 DEF AfterCleanup, Resumes, Control, StatusFits, Destroying, Cleaning, Tried
  <2>2. CASE job[s].cancel
    BY <1>0, <1>4, <2>1, <2>2, StopIsOrderly DEF AfterCleanup, Finally
  <2>3. CASE ~job[s].cancel
    BY <1>0, <1>4, <2>1, <2>3, FinallyIsOrderly DEF AfterCleanup
  <2>4. QED
    BY <2>2, <2>3
<1>5. CASE StartRun(s) /\ stopping[s] = "no"
  <2>1. task[s] \in Early
    BY <1>5 DEF StartRun, Early
  <2>2. CASE StopJob(s, job[s])
    BY <1>0, <1>e, <2>1, <2>2, StopIsOrderly
  <2>3. CASE Suspend(s, [job[s] EXCEPT !.status = "provisioning"], "provision", "provision")
    <3>1. ~[job[s] EXCEPT !.status = "provisioning"].stopStarted
      BY <1>e, <1>s, <1>l, <2>1
    <3>2. QED
      BY <1>s, <1>l, <2>3, <3>1 DEF Orderly
  <2>4. QED
    BY <1>5, <2>2, <2>3 DEF StartRun
<1>6. QED
  BY <1>1, <1>2, <1>3, <1>4, <1>5 DEF After

CleansUp ==
  \A s \in Server :
    /\ task[s] \notin {"none", "destroy"} /\ task'[s] = "none"
    /\ job'[s] # None /\ stopping[s] = "no"
    /\ job[s].cancel \/ job[s].autoDestroy
    => disk'.status \in Tried

\* Steps that neither end a supervisor nor start a stop.
LEMMA OthersStops ==
  ASSUME StopsFit,
         \A t \in Server : task'[t] \in RunTasks =>
           \/ task'[t] = "created" /\ ~job'[t].stopStarted
           \/ /\ task'[t] = task[t]
              /\ job'[t].stopStarted = job[t].stopStarted
              /\ worker'[t].result = "none" => worker[t].result = "none",
         \A t \in Server :
           task'[t] = "none" => task[t] \in {"none", "destroy"} \/ job'[t] = None
  PROVE  StopsFit' /\ CleansUp
BY DEF StopsFit, CleansUp

LEMMA SupervisorStops ==
  ASSUME Control, StopsFit, NEW s \in Server, Supervisor(s)
  PROVE  StopsFit' /\ CleansUp
<1>n. "none" \notin RunTasks /\ "created" \in RunTasks
  BY DEF RunTasks, Early, Reporting, Cleaning
<1>1. CASE StartRun(s) /\ stopping[s] # "no"
  <2>1. task'[s] = "none" /\ \A t \in Server \ {s} :
          task'[t] = task[t] /\ job'[t] = job[t] /\ worker'[t] = worker[t]
    BY <1>1 DEF StartRun, TaskDone, Control, TypeOK
  <2>2. StopsFit'
    BY <1>n, <2>1 DEF StopsFit
  <2>3. CleansUp
    BY <1>1, <2>1 DEF CleansUp
  <2>4. QED
    BY <2>2, <2>3
<1>2. CASE CleanupTaskDone(s)
  <2>1. task[s] = "destroy" /\ task'[s] = "none" /\ \A t \in Server \ {s} :
          task'[t] = task[t] /\ job'[t] = job[t] /\ worker'[t] = worker[t]
    BY <1>2 DEF CleanupTaskDone, TaskDone, Control, TypeOK
  <2>2. QED
    BY <1>n, <2>1, OthersStops
<1>3. CASE After(s) \/ (StartRun(s) /\ stopping[s] = "no")
  <2>1. PICK k \in Job :
          \/ Finish(s, k) /\ (Asked(s) => k.status \in Tried)
          \/ \E label \in RunTasks \ {"created"},
                op \in {"provision", "test", "report", "destroy"} :
               Suspend(s, k, label, op) /\ (k.stopStarted => label \in Stops)
    BY <1>3, RunIsOrderly DEF Orderly
  <2>2. CASE Finish(s, k) /\ (Asked(s) => k.status \in Tried)
    <3>1. /\ task'[s] = "none" /\ disk'.status = k.status
          /\ \A t \in Server \ {s} :
               task'[t] = task[t] /\ job'[t] = job[t] /\ worker'[t] = worker[t]
      BY <2>2, SavedFields DEF Finish, Persist, TaskDone, Control, TypeOK
    <3>2. StopsFit'
      BY <1>n, <3>1 DEF StopsFit
    <3>3. CleansUp
      BY <2>2, <3>1 DEF CleansUp, Asked
    <3>4. QED
      BY <3>2, <3>3
  <2>3. ASSUME NEW label \in RunTasks \ {"created"},
               NEW op \in {"provision", "test", "report", "destroy"},
               Suspend(s, k, label, op), k.stopStarted => label \in Stops
        PROVE  StopsFit' /\ CleansUp
    <3>1. /\ task'[s] = label /\ job'[s] = k /\ worker'[s].result = "busy"
          /\ \A t \in Server \ {s} :
               task'[t] = task[t] /\ job'[t] = job[t] /\ worker'[t] = worker[t]
      BY <2>3, StartType DEF Suspend, Control, TypeOK
    <3>2. StopsFit'
      BY <2>3, <3>1 DEF StopsFit
    <3>3. CleansUp
      BY <1>n, <3>1 DEF CleansUp
    <3>4. QED
      BY <3>2, <3>3
  <2>4. QED
    BY <2>1, <2>2, <2>3
<1>4. QED
  BY <1>1, <1>2, <1>3 DEF Supervisor, After

LEMMA WorkerStops ==
  ASSUME Control, StopsFit, NEW s \in Server, Worker(s)
  PROVE  StopsFit' /\ CleansUp
<1>0. worker[s].result = "busy" /\ job[s] \in Job /\ worker[s] \in WorkerState
  <2>1. worker[s].result = "busy"
    BY DEF Worker, Busy, SaveAnchor, RecordResource, EndProvision, SaveIntent, CreateResource,
           DeleteResource, AddResult, EndTest, MakeReport, BeginDestroy, EndDelete,
           UnlockAfterDestroy
  <2>2. QED
    BY <2>1, WorkerIsAlone DEF Control, TypeOK
<1>1. /\ UNCHANGED task
      /\ \A t \in Server \ {s} : job'[t] = job[t] /\ worker'[t] = worker[t]
  BY DEF Worker, SaveAnchor, RecordResource, EndProvision, SaveIntent, CreateResource,
         DeleteResource, AddResult, EndTest, MakeReport, BeginDestroy, EndDelete,
         UnlockAfterDestroy, Settle, Update, Return, Control, TypeOK
<1>r. \A result : Return(s, result) => worker'[s].result = result
  BY <1>0 DEF Return, Control, TypeOK, WorkerState
<1>2. worker'[s].result # "none"
  <2>1. CASE UNCHANGED worker
    BY <1>0, <2>1
  <2>2. CASE \E j : Settle(s, j)
    BY <1>0, <1>r, <2>2 DEF Settle, Control, TypeOK, WorkerState
  <2>3. CASE RecordResource(s)
    BY <1>0, <2>3 DEF RecordResource, Control, TypeOK, WorkerState
  <2>4. ASSUME NEW r \in Res, CreateResource(s, r)
        PROVE  worker'[s].result # "none"
    BY <1>0, <2>4 DEF CreateResource, Control, TypeOK, WorkerState
  <2>5. ASSUME NEW r \in Res, DeleteResource(s, r)
        PROVE  worker'[s].result # "none"
    BY <1>0, <2>5 DEF DeleteResource, Control, TypeOK, WorkerState
  <2>6. CASE BeginDestroy(s) /\ ~ \E j : Settle(s, j)
    BY <1>0, <2>6 DEF BeginDestroy, Control, TypeOK, WorkerState
  <2>7. CASE EndDelete(s)
    BY <2>2, <2>7 DEF EndDelete
  <2>8. CASE \/ AddResult(s) \/ EndProvision(s) \/ EndTest(s) \/ MakeReport(s)
             \/ UnlockAfterDestroy(s)
    BY <1>0, <1>r, <2>8 DEF AddResult, EndProvision, EndTest, MakeReport, UnlockAfterDestroy
  <2>9. QED
    BY <2>1, <2>2, <2>3, <2>4, <2>5, <2>6, <2>7, <2>8 DEF Worker, SaveAnchor, SaveIntent
<1>u. ASSUME NEW j, Update(s, j)
      PROVE  job'[s] = j
  BY <1>u DEF Update, Control, TypeOK
<1>3. job'[s].stopStarted = job[s].stopStarted
  <2>1. CASE UNCHANGED job
    BY <2>1
  <2>2. CASE BeginDestroy(s) \/ EndDelete(s)
    <3>1. PICK x \in Status, known \in SUBSET Known :
            Update(s, [job[s] EXCEPT !.status = x, !.known = known])
      BY <1>0, <2>2, CleanupUpdates
    <3>2. [job[s] EXCEPT !.status = x, !.known = known].stopStarted = job[s].stopStarted
      BY <1>0 DEF Job
    <3>3. QED
      BY <1>u, <3>1, <3>2
  <2>3. CASE SaveAnchor(s) \/ RecordResource(s) \/ \E r \in Res : SaveIntent(s, r)
    <3>1. PICK x \in Res \cup {"anchor", None} :
            Update(s, [job[s] EXCEPT !.known = @ \cup {x}])
      <4>1. worker[s].made \in Res \cup {None}
        BY <1>0 DEF WorkerState
      <4>2. QED
        BY <2>3, <4>1 DEF SaveAnchor, RecordResource, SaveIntent
    <3>2. [job[s] EXCEPT !.known = @ \cup {x}].stopStarted = job[s].stopStarted
      BY <1>0 DEF Job
    <3>3. QED
      BY <1>u, <3>1, <3>2
  <2>4. CASE AddResult(s)
    <3>1. PICK x \in {"partial", "complete", "failed"} :
            Update(s, [job[s] EXCEPT !.results = x])
      BY <2>4 DEF AddResult
    <3>2. [job[s] EXCEPT !.results = x].stopStarted = job[s].stopStarted
      BY <1>0 DEF Job
    <3>3. QED
      BY <1>u, <3>1, <3>2
  <2>5. QED
    BY <2>1, <2>2, <2>3, <2>4
       DEF Worker, EndProvision, CreateResource, DeleteResource, EndTest, MakeReport,
           UnlockAfterDestroy
<1>4. QED
  BY <1>1, <1>2, <1>3, OthersStops

LEMMA NextStops ==
  ASSUME Control, StopsFit, [Next]_vars
  PROVE  StopsFit' /\ CleansUp
<1>n. {"none", "destroy"} \cap RunTasks = {} /\ Early \subseteq RunTasks
  BY DEF RunTasks, Early, Reporting, Cleaning
<1>1. ASSUME NEW s \in Server, Supervisor(s) \/ Worker(s)
      PROVE  StopsFit' /\ CleansUp
  BY <1>1, SupervisorStops, WorkerStops
<1>2. ASSUME NEW s \in Server, CreateJob(s)
      PROVE  StopsFit' /\ CleansUp
  <2>1. /\ task'[s] = "created" /\ ~job'[s].stopStarted
        /\ \A t \in Server \ {s} :
             task'[t] = task[t] /\ job'[t] = job[t] /\ worker'[t] = worker[t]
    BY <1>2 DEF CreateJob, NewJob, Control, TypeOK
  <2>2. QED
    BY <1>n, <2>1, OthersStops
<1>3. ASSUME NEW s \in Server, Exit(s) \/ Crash(s)
      PROVE  StopsFit' /\ CleansUp
  <2>1. /\ task'[s] = "none" /\ job'[s] = None
        /\ \A t \in Server \ {s} :
             task'[t] = task[t] /\ job'[t] = job[t] /\ worker'[t] = worker[t]
    BY <1>3 DEF Exit, Crash, Forgotten, Control, TypeOK
  <2>2. QED
    BY <1>n, <2>1, OthersStops
<1>4. CASE UNCHANGED <<job, task, worker>>
  BY <1>n, <1>4, OthersStops
<1>5. ASSUME NEW s \in Server,
             \/ ClearAcquire(s) \/ ClearThread(s) \/ Shutdown(s)
             \/ \E q \in Request : DestroyRequest(q, s)
      PROVE  UNCHANGED <<job, task, worker>>
  BY <1>5 DEF ClearAcquire, ClearThread, ClearCheck, RemoveDirectory, ForgetRun, ClearRelease,
              Shutdown, DestroyRequest, memory
<1>6. ASSUME NEW q \in Request, NEW s \in Server, req[q].server = s, Handler(q)
      PROVE  StopsFit' /\ CleansUp
  <2>1. CASE TaskEnded(q) \/ LoadState(q) \/ AcquireForDestroy(q) \/ RewriteState(q)
    BY <1>4, <2>1 DEF TaskEnded, LoadState, AcquireForDestroy, RewriteState, memory
  <2>2. CASE RequestStop(q)
    <3>1. job[s] \in Job
      BY <1>6, <2>2 DEF RequestStop, Control, TypeOK, TasksHaveJobs, RequestsFit, Early
    <3>2. /\ job'[s].stopStarted = job[s].stopStarted /\ UNCHANGED <<task, worker>>
          /\ \A t \in Server \ {s} : job'[t] = job[t]
      BY <1>6, <2>2, <3>1 DEF RequestStop, Update, Interrupt, Control, TypeOK, Job
    <3>3. QED
      BY <1>n, <3>2, OthersStops
  <2>3. CASE ReloadAndSubmit(q)
    <3>1. CASE disk.status = "destroyed"
      BY <1>4, <2>3, <3>1 DEF ReloadAndSubmit, memory
    <3>2. CASE disk.status # "destroyed"
      <4>1. /\ task'[s] = "destroy"
            /\ \A t \in Server \ {s} :
                 task'[t] = task[t] /\ job'[t] = job[t] /\ worker'[t] = worker[t]
        BY <1>6, <2>3, <3>2 DEF ReloadAndSubmit, Submit, Update, Control, TypeOK
      <4>2. QED
        BY <1>n, <4>1, OthersStops
    <3>3. QED
      BY <3>1, <3>2
  <2>4. QED
    BY <1>6, <2>1, <2>2, <2>3 DEF Handler
<1>7. ASSUME NEW q \in Request, Handler(q)
      PROVE  req[q].server \in Server
  BY <1>7 DEF Handler, RequestStop, TaskEnded, LoadState, RewriteState, AcquireForDestroy,
              ReloadAndSubmit, Control, RequestsFit
<1>8. QED
  BY <1>1, <1>2, <1>3, <1>4, <1>5, <1>6, <1>7 DEF Next, vars

THEOREM StopsHold == Spec => [](Control /\ StopsFit)
<1>1. Init => Control /\ StopsFit
  <2>1. Init => StopsFit
    BY DEF Init, StopsFit, RunTasks, Early, Reporting, Cleaning
  <2>2. QED
    BY <2>1, InitControl
<1>2. (Control /\ StopsFit) /\ [Next]_vars => (Control /\ StopsFit)'
  BY NextControl, NextStops
<1>3. QED
  BY <1>1, <1>2, PTL DEF Spec

\* A supervisor that was stopped by the user, or whose plan asks for automatic
\* cleanup, does not end before cleanup was tried, whichever await the stop, a
\* failure or both hit (short of a crash or a shutdown of its server).
THEOREM SupervisorsCleanUp == Spec => SupervisorCleansUp
<1>1. (Control /\ StopsFit) /\ [Next]_vars
        => \A s \in Server :
             /\ task[s] \notin {"none", "destroy"} /\ task'[s] = "none"
             /\ job'[s] # None /\ stopping[s] = "no"
             /\ job[s].cancel \/ job[s].autoDestroy
             => disk'.status \in {"destroyed", "cleanup_failed"}
  BY NextStops DEF CleansUp, Tried
<1>2. QED
  BY <1>1, StopsHold, PTL DEF Spec, SupervisorCleansUp
===============================================================================
