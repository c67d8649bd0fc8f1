----------------------------- MODULE RunLifecycle -----------------------------
(***************************************************************************)
(* The life of one benchmark run in app/main.py, seen from every server    *)
(* process that shares the runs directory: creation, the run supervisor    *)
(* (run_job), Stop and Destroy requests, cleanup workers, history deletion,*)
(* crashes and orderly shutdowns.                                          *)
(*                                                                         *)
(* A server has one event loop, on which request handlers and supervisors  *)
(* run between awaits, plus threads: one worker for the run and one for the*)
(* deletion of history.  Each action is what one of them does between two  *)
(* points where another can be seen; the loop is busy while a handler is   *)
(* between two such points.                                                *)
(*                                                                         *)
(* The lease is the one of RunLease, reduced to its owner.  persist_job_   *)
(* state is one step here.                                                 *)
(***************************************************************************)
EXTENDS FiniteSets

CONSTANTS Server,    \* processes sharing the runs directory
          Request,   \* destroy requests that can be in progress at once
          Res,       \* cloud resources the plan calls for
          Kinds,     \* how the provider of the run keeps track of them
          None       \* no job, nobody, no resource

\* "ids"        OCI: a resource is recorded after its create returned
\* "owned"      AWS, GCP, Azure: identity and intent are saved before a create
\* "distributed": one contract that covers every resource is saved first
ASSUME KindsKnown == Kinds \subseteq {"ids", "owned", "distributed"}

VARIABLES
  kind,        \* the provider kind of the run
  dir,         \* the run directory: not created yet, in place, deleted, or
               \* created again by a save that came after its deletion
  disk,        \* state.json in it
  lease,       \* who owns the run, None when nobody does
  cloud,       \* the resources that exist
  job,         \* per server: the newest job object it has made for the run
  registered,  \* per server: that object is in the jobs registry
  tasked,      \* per server: the running task is in the job_tasks registry
  task,        \* per server: where the run or cleanup task is suspended
  worker,      \* per server: the thread the task waits for
  stopping,    \* per server: an orderly shutdown
  req,         \* per destroy request: its server and where it stands
  clearing     \* per server: where clear_saved_runs stands

vars == <<kind, dir, disk, lease, cloud, job, registered, tasked, task,
          worker, stopping, req, clearing>>

memory == <<job, registered, tasked, task, worker, stopping>>
shared == <<dir, disk, lease>>

-------------------------------------------------------------------------------
(* Jobs.                                                                   *)

Active == {"queued", "provisioning", "testing", "reporting", "cancelling",
           "cleanup_pending", "destroying"}
Cancellable == {"queued", "provisioning", "testing", "reporting", "cancelling"}
Status == Active \cup {"complete", "failed", "cleanup_failed", "destroyed"}

\* What resources records: cloud resources (by ID or by intent), the ownership
\* anchor, and the proof that a distributed run has nothing left.
Known == Res \cup {"anchor", "terminal"}
ASSUME ResDistinct == Res \cap {"anchor", "terminal"} = {}

Job == [status : Status, error : BOOLEAN, interrupted : BOOLEAN,
        results : {"none", "partial", "complete", "failed"},
        known : SUBSET Known, autoDestroy : BOOLEAN,
        cancel : BOOLEAN, stopStarted : BOOLEAN, emptyProof : BOOLEAN]

\* The fields whose names start with an underscore are never saved.
Saved(j) == [j EXCEPT !.cancel = FALSE, !.stopStarted = FALSE, !.emptyProof = FALSE]

\* benchmark_status
Outcome(j) ==
  IF j.results = "failed" \/ (j.results = "none" /\ j.error) THEN "failed"
  ELSE IF j.interrupted THEN "interrupted"
  ELSE IF j.results = "complete" THEN "complete"
  ELSE IF j.error THEN "failed" ELSE "pending"

\* Mistake: an outcome is not looked at.
InterruptAlways(j, outcome) == [j EXCEPT !.interrupted = TRUE]

\* Stop, and the recovery of a run whose server is gone, mark the benchmark as
\* interrupted unless it already had an outcome.
Interrupt(j, outcome) ==
  IF outcome \in {"complete", "failed"} THEN j ELSE [j EXCEPT !.interrupted = TRUE]

\* has_recoverable_resources, and the local terminal proof of a distributed run
HasRecoverable(j) ==
  IF kind = "distributed"
  THEN ~(j.status = "destroyed" /\ "terminal" \in j.known)
  ELSE j.known # {}

\* saved_run_can_be_deleted, for a job without a task or a process
Disposable(j) ==
  /\ j.status \notin Active \cup {"complete", "cleanup_failed"}
  /\ (j.status = "destroyed" /\ kind # "distributed") \/ ~HasRecoverable(j)

-------------------------------------------------------------------------------
(* Threads and tasks.                                                      *)

Idle == [op |-> "none", todo |-> {}, bad |-> FALSE, made |-> None,
         result |-> "none", lease |-> None]

Start(op) == [Idle EXCEPT !.op = op, !.result = "busy"]

Busy(s, op) == worker[s].op = op /\ worker[s].result = "busy"

RunLease(s) == <<"run", s>>
DestroyLease(s) == <<"destroy", s>>
ClearLease(s) == <<"clear", s>>

ASSUME NoneDistinct ==
  /\ None \notin Res /\ None \notin Job
  /\ None \notin {"run", "destroy", "clear"} \X Server

\* No request handler of s is between two of its steps.
LoopFree(s) == \A q \in Request : req[q].server = s => req[q].pc \in {"idle", "wait", "ready"}

InPlace == dir \in {"here", "recreated"}

\* persist_job_state: creates the directory when it is missing.
Persist(j) ==
  /\ disk' = Saved(j)
  /\ dir' = IF dir \in {"none", "here"} THEN "here" ELSE "recreated"

\* Mistake: nobody is told.
AwakenNobody(s) == UNCHANGED req

\* Requests waiting for the task of s can go on once it is done.
Awaken(s) ==
  req' = [q \in Request |->
            IF req[q].server = s /\ req[q].pc = "wait"
            THEN [req[q] EXCEPT !.pc = "ready"] ELSE req[q]]

\* The loop leaves j behind, suspended at label, with a worker for op.
Suspend(s, j, label, op) ==
  /\ job' = [job EXCEPT ![s] = j]
  /\ Persist(j)
  /\ task' = [task EXCEPT ![s] = label]
  /\ worker' = [worker EXCEPT ![s] = Start(op)]
  /\ UNCHANGED <<lease, tasked, req>>

\* The task of s is done: its callback takes it out of the registry.
TaskDone(s) ==
  /\ task' = [task EXCEPT ![s] = "none"]
  /\ tasked' = [tasked EXCEPT ![s] = FALSE]
  /\ worker' = [worker EXCEPT ![s] = Idle]
  /\ Awaken(s)

-------------------------------------------------------------------------------

NewJob(auto) ==
  [status |-> "queued", error |-> FALSE, interrupted |-> FALSE,
   results |-> "none", known |-> {}, autoDestroy |-> auto,
   cancel |-> FALSE, stopStarted |-> FALSE, emptyProof |-> kind = "distributed"]

Label == {"none", "created", "provision", "test", "report", "cleanup", "failReport",
          "failCleanup", "stopReport", "stopCleanup", "destroy"}

WorkerState ==
  [op : {"none", "provision", "test", "report", "destroy", "delete", "unlock"},
   todo : SUBSET Res, bad : BOOLEAN, made : Res \cup {None},
   result : {"none", "busy", "ok", "raised", "cancelled"},
   lease : {None} \cup ({"destroy"} \X Server)]

RequestState ==
  [server : Server \cup {None},
   pc : {"idle", "stop", "wait", "ready", "load", "rewrite", "acquire", "reload"},
   live : BOOLEAN,
   outcome : {"none", "failed", "interrupted", "complete", "pending"}]

TypeOK ==
  /\ kind \in Kinds
  /\ dir \in {"none", "here", "gone", "recreated"}
  /\ disk \in Job \cup {None}
  /\ lease \in {None} \cup ({"run", "destroy", "clear"} \X Server)
  /\ cloud \subseteq Res
  /\ job \in [Server -> Job \cup {None}]
  /\ registered \in [Server -> BOOLEAN]
  /\ tasked \in [Server -> BOOLEAN]
  /\ task \in [Server -> Label]
  /\ worker \in [Server -> WorkerState]
  /\ stopping \in [Server -> {"no", "pending", "delivered"}]
  /\ req \in [Request -> RequestState]
  /\ clearing \in [Server -> {"idle", "check", "remove", "forget", "release"}]

NoRequest == [server |-> None, pc |-> "idle", live |-> FALSE, outcome |-> "none"]

Init ==
  /\ kind \in Kinds
  /\ dir = "none"
  /\ disk = None
  /\ lease = None
  /\ cloud = {}
  /\ job = [s \in Server |-> None]
  /\ registered = [s \in Server |-> FALSE]
  /\ tasked = [s \in Server |-> FALSE]
  /\ task = [s \in Server |-> "none"]
  /\ worker = [s \in Server |-> Idle]
  /\ stopping = [s \in Server |-> "no"]
  /\ req = [q \in Request |-> NoRequest]
  /\ clearing = [s \in Server |-> "idle"]

\* create_job: the lease comes before the first state that others can read.
CreateJob(s) ==
  /\ dir = "none"
  /\ stopping[s] = "no" /\ LoopFree(s)
  /\ \E auto \in BOOLEAN :
       /\ job' = [job EXCEPT ![s] = NewJob(auto)]
       /\ Persist(NewJob(auto))
  /\ lease' = RunLease(s)
  /\ registered' = [registered EXCEPT ![s] = TRUE]
  /\ tasked' = [tasked EXCEPT ![s] = TRUE]
  /\ task' = [task EXCEPT ![s] = "created"]
  /\ UNCHANGED <<kind, cloud, worker, stopping, req, clearing>>

-------------------------------------------------------------------------------
(* run_job.                                                                *)

\* The finally clause: the last save, then the lease.
Finish(s, j) ==
  /\ job' = [job EXCEPT ![s] = [j EXCEPT !.cancel = FALSE]]
  /\ Persist(j)
  /\ lease' = None
  /\ TaskDone(s)

\* finish_cancelled_job, which runs at most once for a job.
StopJob(s, j) ==
  LET marked == [Interrupt(j, Outcome(j)) EXCEPT !.stopStarted = TRUE]
      stopped == [marked EXCEPT
                    !.error = IF Outcome(j) \in {"complete", "failed"} THEN @ ELSE FALSE]
  IN IF j.stopStarted \/ j.status = "destroyed"
     THEN Finish(s, IF j.stopStarted THEN j ELSE stopped)
     ELSE IF j.results # "none"
     THEN Suspend(s, [stopped EXCEPT !.status = "cleanup_pending"], "stopReport", "report")
     ELSE Suspend(s, [stopped EXCEPT !.status = "cleanup_pending"], "stopCleanup", "destroy")

Finally(s, j) == IF j.cancel THEN StopJob(s, j) ELSE Finish(s, j)

\* The except Exception clause.
FailJob(s, j) ==
  LET failed == [j EXCEPT !.error = TRUE,
                          !.status = IF j.autoDestroy THEN "cleanup_pending" ELSE "failed"]
  IN IF j.cancel THEN StopJob(s, j)
     ELSE IF j.results # "none" THEN Suspend(s, failed, "failReport", "report")
     ELSE IF j.autoDestroy THEN Suspend(s, failed, "failCleanup", "destroy")
     ELSE Finally(s, failed)

\* A task whose server shut down before its first step never runs: only the
\* callback that releases the lease does.
StartRun(s) ==
  /\ task[s] = "created"
  /\ LoopFree(s)
  /\ IF stopping[s] # "no"
     THEN lease' = None /\ TaskDone(s) /\ UNCHANGED <<job, disk, dir>>
     ELSE IF job[s].cancel THEN StopJob(s, job[s])
     ELSE Suspend(s, [job[s] EXCEPT !.status = "provisioning"], "provision", "provision")
  /\ UNCHANGED <<kind, cloud, registered, stopping, clearing>>

\* The worker a supervisor waits for is done.  A shutdown that arrived during
\* the wait is delivered now, but only if the worker raised nothing: an
\* exception of the worker takes its place.
Resumes(s, label) ==
  /\ task[s] = label
  /\ worker[s].result # "busy"
  /\ LoopFree(s)
  /\ stopping' = [stopping EXCEPT ![s] = IF @ = "pending" THEN "delivered" ELSE @]
  /\ UNCHANGED <<kind, cloud, registered, clearing>>

ShutDown(s) == stopping[s] = "pending" /\ worker[s].result = "ok"

\* What follows a step of the try block: the shutdown, the cancellation that
\* the worker or raise_if_cancelled raises, a failure, or the next step.
Continue(s, next) ==
  IF ShutDown(s) THEN Finally(s, job[s])
  ELSE IF worker[s].result = "cancelled" \/ (worker[s].result = "ok" /\ job[s].cancel)
  THEN StopJob(s, job[s])
  ELSE IF worker[s].result = "raised" THEN FailJob(s, job[s])
  ELSE next

AfterProvision(s) ==
  /\ Resumes(s, "provision")
  /\ Continue(s, Suspend(s, [job[s] EXCEPT !.status = "testing"], "test", "test"))

AfterTest(s) ==
  /\ Resumes(s, "test")
  /\ Continue(s, IF Outcome(job[s]) = "complete"
                 THEN Suspend(s, [job[s] EXCEPT !.status = "reporting"], "report", "report")
                 ELSE FailJob(s, job[s]))

\* Mistake: a run with a report gets the status that history shows for one.
AfterReportReported(s) ==
  /\ Resumes(s, "report")
  /\ Continue(s, Finish(s, [job[s] EXCEPT !.status = "reported"]))

AfterReport(s) ==
  /\ Resumes(s, "report")
  /\ Continue(s, IF job[s].autoDestroy
                 THEN Suspend(s, [job[s] EXCEPT !.status = "cleanup_pending"],
                              "cleanup", "destroy")
                 ELSE Finish(s, [job[s] EXCEPT !.status = "complete"]))

AfterFailReport(s) ==
  /\ Resumes(s, "failReport")
  /\ IF job[s].autoDestroy /\ ~ShutDown(s)
     THEN Suspend(s, job[s], "failCleanup", "destroy")
     ELSE Finally(s, job[s])

\* Mistake: a failing report ends the stop.
AfterStopReportOrFail(s) ==
  /\ Resumes(s, "stopReport")
  /\ IF ShutDown(s) \/ worker[s].result = "raised"
     THEN Finish(s, job[s]) ELSE Suspend(s, job[s], "stopCleanup", "destroy")

AfterStopReport(s) ==
  /\ Resumes(s, "stopReport")
  /\ IF ShutDown(s) THEN Finish(s, job[s])
                    ELSE Suspend(s, job[s], "stopCleanup", "destroy")

AfterCleanup(s) ==
  /\ \E label \in {"cleanup", "failCleanup", "stopCleanup"} : Resumes(s, label)
  /\ Finally(s, job[s])

-------------------------------------------------------------------------------
(* The worker threads.                                                     *)

Update(s, j) == job' = [job EXCEPT ![s] = j] /\ Persist(j)

Return(s, result) == worker' = [worker EXCEPT ![s].result = result]

\* The last save of a cleanup worker; one that has a lease still has to give it up.
Settle(s, j) ==
  /\ Update(s, j)
  /\ IF worker[s].lease = None THEN Return(s, "ok")
     ELSE worker' = [worker EXCEPT ![s].op = "unlock", ![s].todo = {}]

\* provision: what is saved before the first create ...
SaveAnchor(s) ==
  /\ Busy(s, "provision")
  /\ kind # "ids" /\ "anchor" \notin job[s].known
  /\ Update(s, [job[s] EXCEPT !.known = @ \cup {"anchor"}])
  /\ UNCHANGED <<kind, lease, cloud, registered, tasked, task, worker, stopping, req,
                 clearing>>

\* Mistake: the intent is only noted in memory.
NoteIntent(s, r) ==
  /\ Busy(s, "provision")
  /\ kind = "owned" /\ "anchor" \in job[s].known
  /\ worker[s].made = None /\ r \notin job[s].known
  /\ job' = [job EXCEPT ![s].known = @ \cup {r}]
  /\ UNCHANGED <<kind, shared, cloud, registered, tasked, task, worker, stopping, req,
                 clearing>>

\* ... and before each create,
SaveIntent(s, r) ==
  /\ Busy(s, "provision")
  /\ kind = "owned" /\ "anchor" \in job[s].known
  /\ worker[s].made = None /\ r \notin job[s].known
  /\ Update(s, [job[s] EXCEPT !.known = @ \cup {r}])
  /\ UNCHANGED <<kind, lease, cloud, registered, tasked, task, worker, stopping, req,
                 clearing>>

\* the create, whose answer may still be lost,
CreateResource(s, r) ==
  /\ Busy(s, "provision")
  /\ worker[s].made = None /\ r \notin cloud
  /\ kind = "owned" => r \in job[s].known
  /\ kind = "distributed" => "anchor" \in job[s].known
  /\ cloud' = cloud \cup {r}
  /\ worker' = [worker EXCEPT ![s].made = r]
  /\ UNCHANGED <<kind, shared, job, registered, tasked, task, stopping, req, clearing>>

\* and record_resource.
RecordResource(s) ==
  /\ Busy(s, "provision")
  /\ worker[s].made # None
  /\ Update(s, [job[s] EXCEPT !.known = @ \cup {worker[s].made}])
  /\ worker' = [worker EXCEPT ![s].made = None]
  /\ UNCHANGED <<kind, lease, cloud, registered, tasked, task, stopping, req, clearing>>

EndProvision(s) ==
  /\ Busy(s, "provision")
  /\ \/ Return(s, "raised")
     \/ Res \subseteq job[s].known /\ Res \subseteq cloud /\ worker[s].made = None
          /\ Return(s, "ok")
  /\ UNCHANGED <<kind, shared, cloud, job, registered, tasked, task, stopping, req, clearing>>

\* execute_benchmark appends a completed row, or a failed one before it raises.
AddResult(s) ==
  /\ Busy(s, "test")
  /\ job[s].results \in {"none", "partial"}
  /\ \/ /\ Update(s, [job[s] EXCEPT !.results = IF @ = "none" THEN "partial" ELSE "complete"])
        /\ UNCHANGED worker
     \/ Update(s, [job[s] EXCEPT !.results = "failed"]) /\ Return(s, "raised")
  /\ UNCHANGED <<kind, lease, cloud, registered, tasked, task, stopping, req, clearing>>

\* A runner may also raise without a row, or return with rows missing; ssh
\* raises RunCancelled once it sees the cancellation event.
EndTest(s) ==
  /\ Busy(s, "test")
  /\ \/ Return(s, "raised")
     \/ job[s].results # "none" /\ Return(s, "ok")
     \/ job[s].cancel /\ Return(s, "cancelled")
  /\ UNCHANGED <<kind, shared, cloud, job, registered, tasked, task, stopping, req, clearing>>

MakeReport(s) ==
  /\ Busy(s, "report")
  /\ \E result \in {"ok", "raised"} : Return(s, result)
  /\ UNCHANGED <<kind, shared, cloud, job, registered, tasked, task, stopping, req, clearing>>

\* What cleanup can find of a run from what is recorded.
Reachable(j) ==
  IF kind = "distributed" THEN (IF "anchor" \in j.known THEN Res ELSE {})
                          ELSE j.known \cap Res


\* destroy_resources: a distributed run with an empty manifest is settled by
\* the proof that only its own process has, or refused.
BeginDestroy(s) ==
  LET j == job[s] IN
  /\ Busy(s, "destroy")
  /\ IF kind = "distributed" /\ "terminal" \in j.known
     THEN Settle(s, [j EXCEPT !.status = "destroyed"])
     ELSE IF kind = "distributed" /\ "anchor" \notin j.known
     THEN Settle(s, IF j.emptyProof
                    THEN [j EXCEPT !.status = "destroyed", !.known = {"terminal"}]
                    ELSE [j EXCEPT !.status = "cleanup_failed"])
     ELSE /\ Update(s, [j EXCEPT !.status = "destroying"])
          /\ worker' = [worker EXCEPT ![s].op = "delete", ![s].todo = Reachable(j)]
  /\ UNCHANGED <<kind, lease, cloud, registered, tasked, task, stopping, req, clearing>>

\* One resource: deleted, found absent, or left behind with an error that does
\* not keep cleanup from trying the others.
DeleteResource(s, r) ==
  /\ Busy(s, "delete")
  /\ r \in worker[s].todo
  /\ \/ cloud' = cloud \ {r} /\ worker' = [worker EXCEPT ![s].todo = @ \ {r}]
     \/ /\ worker' = [worker EXCEPT ![s].todo = @ \ {r}, ![s].bad = TRUE]
        /\ UNCHANGED cloud
  /\ UNCHANGED <<kind, shared, job, registered, tasked, task, stopping, req, clearing>>

\* Mistake: errors of single resources are dropped.
EndDeleteRegardless(s) ==
  /\ Busy(s, "delete")
  /\ worker[s].todo = {}
  /\ Settle(s, [job[s] EXCEPT !.status = "destroyed"])
  /\ UNCHANGED <<kind, lease, cloud, registered, tasked, task, stopping, req, clearing>>

\* destroy_with_status
EndDelete(s) ==
  /\ Busy(s, "delete")
  /\ worker[s].todo = {}
  /\ Settle(s, IF worker[s].bad THEN [job[s] EXCEPT !.status = "cleanup_failed"]
               ELSE [job[s] EXCEPT !.status = "destroyed",
                                   !.known = IF kind = "distributed" THEN {"terminal"} ELSE @])
  /\ UNCHANGED <<kind, lease, cloud, registered, tasked, task, stopping, req, clearing>>

\* Mistake: the lease is left to a callback that is never made.
ReturnAfterDestroy(s) ==
  /\ Busy(s, "unlock")
  /\ Return(s, "ok")
  /\ UNCHANGED <<kind, shared, cloud, job, registered, tasked, task, stopping, req, clearing>>

\* destroy_with_status_under_lease: the worker, not its task, gives the lease up.
UnlockAfterDestroy(s) ==
  /\ Busy(s, "unlock")
  /\ lease' = None
  /\ Return(s, "ok")
  /\ UNCHANGED <<kind, dir, disk, cloud, job, registered, tasked, task, stopping, req,
                 clearing>>

\* wait_for_uncancellable_cleanup returns.
CleanupTaskDone(s) ==
  /\ task[s] = "destroy"
  /\ worker[s].result # "busy"
  /\ LoopFree(s)
  /\ TaskDone(s)
  /\ UNCHANGED <<kind, shared, cloud, job, registered, stopping, clearing>>

-------------------------------------------------------------------------------
(* The destroy endpoint.                                                   *)

Step(q, pc) == req' = [req EXCEPT ![q].pc = pc]
Reply(q) == req' = [req EXCEPT ![q] = NoRequest]

\* With a running task: nothing to do when cleanup is under way or stopping has
\* been requested, otherwise stop the run, or wait for a task that is about to
\* end.  Without one, cleanup starts from what is saved.
DestroyRequest(q, s) ==
  LET live == registered[s]
      active == tasked[s]
      status == job[s].status
  IN /\ req[q].pc = "idle"
     /\ stopping[s] = "no" /\ LoopFree(s)
     /\ live => status # "destroyed"
     /\ ~(live /\ active /\ status \in {"cleanup_pending", "destroying"})
     /\ ~(live /\ active /\ status \in Cancellable /\ job[s].cancel)
     /\ req' = [req EXCEPT ![q] =
                  [server |-> s,
                   pc |-> IF ~(live /\ active) THEN "load"
                          ELSE IF status \in Cancellable THEN "stop" ELSE "wait",
                   live |-> live,
                   outcome |-> IF live /\ active /\ status \in Cancellable
                               THEN Outcome(job[s]) ELSE "none"]]
     /\ UNCHANGED <<kind, shared, cloud, memory, clearing>>

\* The outcome was read a moment ago; a worker may have added a result since.
RequestStop(q) ==
  LET s == req[q].server IN
  /\ req[q].pc = "stop"
  /\ Update(s, [Interrupt(job[s], req[q].outcome)
                  EXCEPT !.status = "cancelling", !.cancel = TRUE])
  /\ Reply(q)
  /\ UNCHANGED <<kind, lease, cloud, registered, tasked, task, worker, stopping, clearing>>

TaskEnded(q) ==
  LET s == req[q].server IN
  /\ req[q].pc = "ready"
  /\ LoopFree(s)
  /\ IF job[s].status = "destroyed" THEN Reply(q) ELSE Step(q, "load")
  /\ UNCHANGED <<kind, shared, cloud, memory, clearing>>

LoadState(q) ==
  /\ req[q].pc = "load"
  /\ IF disk = None
     THEN IF req[q].live THEN Step(q, "rewrite") ELSE Reply(q)
     ELSE IF disk.status = "destroyed" THEN Reply(q) ELSE Step(q, "acquire")
  /\ UNCHANGED <<kind, shared, cloud, memory, clearing>>

\* No saved state: write down the job the registry still has, and load that.
RewriteState(q) ==
  LET s == req[q].server IN
  /\ req[q].pc = "rewrite"
  /\ IF registered[s]
     THEN Persist(job[s]) /\ req' = [req EXCEPT ![q].pc = "load", ![q].live = FALSE]
     ELSE Reply(q) /\ UNCHANGED <<disk, dir>>
  /\ UNCHANGED <<kind, lease, cloud, memory, clearing>>

\* Mistake: a refused acquisition is ignored.
DestroyAnyway(q) ==
  /\ req[q].pc = "acquire"
  /\ disk # None
  /\ lease' = IF lease = None THEN DestroyLease(req[q].server) ELSE lease
  /\ Step(q, "reload")
  /\ UNCHANGED <<kind, dir, disk, cloud, memory, clearing>>

\* Acquisition never waits, and may fail for other reasons than an owner.
AcquireForDestroy(q) ==
  /\ req[q].pc = "acquire"
  /\ \/ /\ lease = None /\ InPlace
        /\ lease' = DestroyLease(req[q].server)
        /\ Step(q, "reload")
     \/ Reply(q) /\ UNCHANGED lease
  /\ UNCHANGED <<kind, dir, disk, cloud, memory, clearing>>

\* The destroy task takes over what was read under the lease, and the lease.
Submit(q) ==
  LET s == req[q].server
      transfers == /\ req[q].live /\ registered[s]
                   /\ job[s].emptyProof /\ job[s].known = {} /\ disk.known = {}
      marked == IF disk.status \in Cancellable THEN Interrupt(disk, Outcome(disk)) ELSE disk
  IN /\ Update(s, [marked EXCEPT !.status = "destroying", !.emptyProof = transfers])
     /\ registered' = [registered EXCEPT ![s] = TRUE]
     /\ tasked' = [tasked EXCEPT ![s] = TRUE]
     /\ task' = [task EXCEPT ![s] = "destroy"]
     /\ worker' = [worker EXCEPT ![s] = [Start("destroy") EXCEPT !.lease = lease]]

\* Mistake: the state that was read before the lease decides.
SubmitUnread(q) ==
  /\ req[q].pc = "reload"
  /\ Reply(q)
  /\ Submit(q)
  /\ UNCHANGED <<kind, lease, cloud, stopping, clearing>>

\* Mistake: the handler gives the lease up instead of handing it over.
SubmitUnleased(q) ==
  /\ req[q].pc = "reload"
  /\ Reply(q)
  /\ lease' = None
  /\ IF disk.status = "destroyed" THEN UNCHANGED <<dir, disk, memory>>
     ELSE Submit(q) /\ UNCHANGED stopping
  /\ UNCHANGED <<kind, cloud, clearing>>

\* Only the state read under the lease may be acted on.
ReloadAndSubmit(q) ==
  /\ req[q].pc = "reload"
  /\ Reply(q)
  /\ IF disk.status = "destroyed"
     THEN lease' = None /\ UNCHANGED <<dir, disk, memory>>
     ELSE Submit(q) /\ UNCHANGED <<lease, stopping>>
  /\ UNCHANGED <<kind, cloud, clearing>>

-------------------------------------------------------------------------------
(* clear_saved_runs, on a thread of its own.                               *)

Clear(s, pc) == clearing' = [clearing EXCEPT ![s] = pc]

ClearAcquire(s) ==
  /\ clearing[s] = "idle" /\ stopping[s] = "no"
  /\ InPlace /\ lease = None
  /\ lease' = ClearLease(s)
  /\ Clear(s, "check")
  /\ UNCHANGED <<kind, dir, disk, cloud, memory, req>>

ClearCheck(s) ==
  /\ clearing[s] = "check"
  /\ Clear(s, IF ~tasked[s] /\ Disposable(IF registered[s] THEN job[s] ELSE disk)
              THEN "remove" ELSE "release")
  /\ UNCHANGED <<kind, shared, cloud, memory, req>>

\* The lease of the directory goes away with it: whoever makes a new one at the
\* same path can lease that.
RemoveDirectory(s) ==
  /\ clearing[s] = "remove"
  /\ dir' = "gone" /\ disk' = None /\ lease' = None
  /\ Clear(s, "forget")
  /\ UNCHANGED <<kind, cloud, memory, req>>

\* forget_deleted_run
ForgetRun(s) ==
  /\ clearing[s] = "forget"
  /\ registered' = [registered EXCEPT ![s] = FALSE]
  /\ tasked' = [tasked EXCEPT ![s] = FALSE]
  /\ Clear(s, "idle")
  /\ UNCHANGED <<kind, shared, cloud, job, task, worker, stopping, req>>

\* Not disposable, or the rename failed.
ClearRelease(s) ==
  /\ clearing[s] \in {"remove", "release"}
  /\ lease' = None
  /\ Clear(s, "idle")
  /\ UNCHANGED <<kind, dir, disk, cloud, memory, req>>

-------------------------------------------------------------------------------
(* Shutdown and crash.                                                     *)

Shutdown(s) ==
  /\ stopping[s] = "no"
  /\ clearing[s] = "idle" /\ \A q \in Request : req[q].server # s
  /\ stopping' = [stopping EXCEPT ![s] = "pending"]
  /\ UNCHANGED <<kind, shared, cloud, job, registered, tasked, task, worker, req, clearing>>

\* The next process of s starts with empty registries.
Forgotten(s) ==
  /\ job' = [job EXCEPT ![s] = None]
  /\ registered' = [registered EXCEPT ![s] = FALSE]
  /\ tasked' = [tasked EXCEPT ![s] = FALSE]
  /\ task' = [task EXCEPT ![s] = "none"]
  /\ worker' = [worker EXCEPT ![s] = Idle]
  /\ stopping' = [stopping EXCEPT ![s] = "no"]

Exit(s) ==
  /\ stopping[s] # "no"
  /\ task[s] = "none"
  /\ Forgotten(s)
  /\ UNCHANGED <<kind, shared, cloud, req, clearing>>

Crash(s) ==
  /\ Forgotten(s)
  /\ lease' = IF lease \in {RunLease(s), DestroyLease(s), ClearLease(s)} THEN None ELSE lease
  /\ req' = [q \in Request |-> IF req[q].server = s THEN NoRequest ELSE req[q]]
  /\ clearing' = [clearing EXCEPT ![s] = "idle"]
  /\ UNCHANGED <<kind, dir, disk, cloud>>

-------------------------------------------------------------------------------

Supervisor(s) ==
  \/ StartRun(s) \/ AfterProvision(s) \/ AfterTest(s) \/ AfterReport(s)
  \/ AfterFailReport(s) \/ AfterStopReport(s) \/ AfterCleanup(s)
  \/ CleanupTaskDone(s)

Worker(s) ==
  \/ SaveAnchor(s) \/ RecordResource(s) \/ EndProvision(s)
  \/ \E r \in Res : SaveIntent(s, r) \/ CreateResource(s, r) \/ DeleteResource(s, r)
  \/ AddResult(s) \/ EndTest(s) \/ MakeReport(s)
  \/ BeginDestroy(s) \/ EndDelete(s) \/ UnlockAfterDestroy(s)

Handler(q) ==
  \/ RequestStop(q) \/ TaskEnded(q) \/ LoadState(q) \/ RewriteState(q)
  \/ AcquireForDestroy(q) \/ ReloadAndSubmit(q)

ClearThread(s) ==
  ClearCheck(s) \/ RemoveDirectory(s) \/ ForgetRun(s) \/ ClearRelease(s)

Next ==
  \/ \E s \in Server :
       \/ CreateJob(s) \/ Supervisor(s) \/ Worker(s)
       \/ ClearAcquire(s) \/ ClearThread(s)
       \/ Shutdown(s) \/ Exit(s) \/ Crash(s)
       \/ \E q \in Request : DestroyRequest(q, s)
  \/ \E q \in Request : Handler(q)

Spec == Init /\ [][Next]_vars

\* Threads that have been given work finish it (cloud and SSH calls return or
\* raise), and a handler's steps follow each other.  The event loop runs what is
\* ready in the order it became ready, so a supervisor or a request that could
\* go on is not overtaken for ever by new requests: their fairness is strong.
\* Nothing makes a user send a request or a server crash.
Fairness ==
  /\ \A s \in Server : SF_vars(Supervisor(s)) /\ WF_vars(Worker(s))
                         /\ WF_vars(ClearThread(s)) /\ WF_vars(Exit(s))
  /\ \A q \in Request : SF_vars(TaskEnded(q)) /\ WF_vars(Handler(q))

FairSpec == Spec /\ Fairness

-------------------------------------------------------------------------------
(* Properties.                                                             *)

\* Whatever a worker thread does to the cloud or to state.json, its server has
\* the run leased at that moment, so no two workers of any servers share a run
\* and a cleanup worker never outlives its lease.
WorkersOwnTheRun ==
  \A s \in Server :
    worker[s].result = "busy" => lease \in {RunLease(s), DestroyLease(s)}

\* A run is called destroyed, on disk or by a server that has it registered,
\* only when none of its cloud resources exists ("Compact providers assign
\* ``destroyed`` only after cleanup proves their resources absent").
DestroyedMeansGone ==
  /\ disk # None /\ disk.status = "destroyed" => cloud = {}
  /\ \A s \in Server : registered[s] /\ job[s].status = "destroyed" => cloud = {}

\* The saved manifest is enough to clean up with, whenever the server dies and
\* whatever history deletion is doing: no existing resource is unreachable from
\* the state.json that is in place.
CloudIsRecoverable == cloud # {} => disk # None /\ cloud \subseteq Reachable(disk)

\* While a run is in history (it has not been removed; see DeletionIsPermanent).
InHistory == dir = "here" /\ dir' = "here"

\* A destroyed run is never given another status while it is in history, by
\* stale registries of other servers or late saves of a supervisor.
DestroyedIsFinal ==
  [][InHistory /\ disk.status = "destroyed" => disk'.status = "destroyed"]_vars

\* A benchmark outcome that was saved stays what it is through Stop, restarts
\* and cleanup: completed results are not relabelled as interrupted.  (The one
\* exception is OutcomeSurvivesStop below.)
OutcomeIsKept ==
  [][InHistory /\ Outcome(disk) \in {"complete", "failed"}
       /\ (\A q \in Request : req[q].pc # "stop")
       => Outcome(disk') = Outcome(disk)]_vars

\* A supervisor that was stopped by the user, or whose plan asks for automatic
\* cleanup, does not end before cleanup was tried, whichever await the stop, a
\* failure or both hit (short of a crash or a shutdown of the server).
SupervisorCleansUp ==
  [][\A s \in Server :
       /\ task[s] \notin {"none", "destroy"} /\ task'[s] = "none"
       /\ job'[s] # None /\ stopping[s] = "no"
       /\ job[s].cancel \/ job[s].autoDestroy
       => disk'.status \in {"destroyed", "cleanup_failed"}]_vars

\* A run always ends: its supervisor, and every cleanup worker, gives up the
\* lease, so the run can be destroyed or removed from history.
LeaseIsReleased ==
  \A s \in Server : /\ lease = RunLease(s) ~> lease # RunLease(s)
                    /\ lease = DestroyLease(s) ~> lease # DestroyLease(s)

\* A destroy request is answered, also one that waits for a task to end.
RequestsAreAnswered ==
  \A q \in Request : req[q].pc # "idle" ~> req[q].pc = "idle"

\* A state.json that is in place is only replaced by the job object of the server
\* that owns the run, also when it is a Stop request that saves and relies on the
\* lease of its supervisor ("Callers that mutate history must acquire the run
\* lease first").
OnlyTheOwnerSaves ==
  [][InHistory /\ disk' # disk
       => \E s \in Server : /\ lease \in {RunLease(s), DestroyLease(s)}
                            /\ job'[s] # None /\ disk' = Saved(job'[s])]_vars

\* OutcomeIsKept, also while a stop is being requested: a worker thread must not
\* be able to complete the benchmark between the look at its outcome and the mark.
OutcomeSurvivesStop ==
  [][disk # None /\ disk' # None /\ Outcome(disk) = "complete"
       => Outcome(disk') = "complete"]_vars

\* "Permanently remove": history that was deleted does not come back, as it does
\* when a request saves a registered job whose state.json is gone.  What it starts
\* then is without registries once forget_deleted_run drops "stale" ones.
DeletionIsPermanent == [][dir = "gone" => dir' = "gone"]_vars
===============================================================================
