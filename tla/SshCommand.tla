------------------------------ MODULE SshCommand ------------------------------
(***************************************************************************)
(* The SSH commands of a run and their cancellation (app/main.py).  The    *)
(* worker thread of a run makes one ssh call after another; each starts a  *)
(* local process per attempt, registers it, waits for it in slices, and    *)
(* tries again after a transport failure (exit status 255).  The destroy   *)
(* endpoint sets the cancellation event and then signals the processes that*)
(* are registered at that moment.  Once the worker has returned, cloud     *)
(* cleanup starts.                                                         *)
(*                                                                         *)
(* Processes are numbered in the order in which they are started.          *)
(***************************************************************************)
EXTENDS Naturals

CONSTANTS Calls,     \* ssh calls of the worker
          Attempts   \* transport_attempts of a call

ASSUME BoundsArePositive == Calls \in Nat \ {0} /\ Attempts \in Nat \ {0}

VARIABLES
  pc,          \* where the worker is in ssh
  call,        \* calls begun
  attempt,     \* attempts of this call
  process,     \* the last process: its number and what has become of it
  registered,  \* the processes in job_processes
  stop,        \* the stop request: the event, then a look at the registry
  targets,     \* the processes it saw there and has not signalled yet
  late         \* processes started after the event was set

vars == <<pc, call, attempt, process, registered, stop, targets, late>>

\* A process runs, may be deaf to SIGTERM, exits, and is reaped by its parent.
Running == {"running", "deaf"}
Exits == {"ok", "error", "transport"}

TypeOK ==
  /\ pc \in {"idle", "check", "spawn", "register", "send", "wait", "communicate",
             "terminate", "grace", "unregister", "after", "pause", "returned"}
  /\ call \in 0..Calls
  /\ attempt \in 0..Attempts
  /\ process \in [number : Nat, state : Running \cup Exits, reaped : BOOLEAN,
                  why : {"none", "exit", "cancelled", "failed"}]
  /\ registered \subseteq 1..process.number
  /\ stop \in {"no", "set", "signal", "done"}
  /\ targets \subseteq 1..process.number
  /\ late \in Nat

Init ==
  /\ pc = "idle"
  /\ call = 0
  /\ attempt = 0
  /\ process = [number |-> 0, state |-> "ok", reaped |-> TRUE, why |-> "none"]
  /\ registered = {}
  /\ stop = "no"
  /\ targets = {}
  /\ late = 0

\* Mistake: the event of an older job object is asked.
NeverRequested == FALSE

CancellationRequested == stop # "no"

Alive == process.state \in Running
Goto(label) == pc' = label
others == <<call, attempt, process, registered, stop, targets, late>>

-------------------------------------------------------------------------------
(* ssh.                                                                    *)

\* The runners may catch what an ordinary failure raises and go on.
BeginCall ==
  /\ pc = "idle" /\ call < Calls
  /\ call' = call + 1
  /\ attempt' = 0
  /\ Goto("check")
  /\ UNCHANGED <<process, registered, stop, targets, late>>

\* RunCancelled is a BaseException: no wrapper of a workload stops it.
WorkerReturns == pc = "idle" /\ Goto("returned") /\ UNCHANGED others

Check ==
  /\ pc = "check"
  /\ Goto(IF CancellationRequested THEN "returned" ELSE "spawn")
  /\ UNCHANGED others

\* subprocess.Popen
Spawn ==
  /\ pc = "spawn"
  /\ attempt' = attempt + 1
  /\ \E state \in Running :
       process' = [number |-> process.number + 1, state |-> state, reaped |-> FALSE,
                   why |-> "none"]
  /\ late' = IF stop = "no" THEN late ELSE late + 1
  /\ Goto("register")
  /\ UNCHANGED <<call, registered, stop, targets>>

RegisterProcess ==
  /\ pc = "register"
  /\ registered' = registered \cup {process.number}
  /\ Goto("send")
  /\ UNCHANGED <<call, attempt, process, stop, targets, late>>

Decide(why, label) ==
  /\ process' = [process EXCEPT !.why = why]
  /\ Goto(label)
  /\ UNCHANGED <<call, attempt, registered, stop, targets, late>>

\* The secret standard input; a broken pipe ends the call.
SendInput ==
  /\ pc = "send"
  /\ \/ Goto("wait") /\ UNCHANGED others
     \/ Decide("failed", "terminate")

\* One turn of the waiting loop looks at the event, then at the deadline,
SeeCancellation ==
  /\ pc = "wait" /\ CancellationRequested
  /\ Decide("cancelled", "terminate")

GiveUp ==
  /\ pc = "wait" /\ ~CancellationRequested
  /\ Decide("failed", "terminate")

WaitSlice ==
  /\ pc = "wait" /\ ~CancellationRequested
  /\ Goto("communicate")
  /\ UNCHANGED others

\* and waits a quarter of a second, in which the event may be set.
SliceEnds == pc = "communicate" /\ Alive /\ Goto("wait") /\ UNCHANGED others

Collect ==
  /\ pc = "communicate"
  /\ ~Alive
  /\ process' = [process EXCEPT !.why = "exit", !.reaped = TRUE]
  /\ Goto("unregister")
  /\ UNCHANGED <<call, attempt, registered, stop, targets, late>>

\* Mistake: a failing pipe is passed on at once.
LeaveRunning ==
  /\ pc = "communicate"
  /\ Decide("failed", "unregister")

\* A local pipe fails; the process is ended before the failure is passed on.
PipeFails ==
  /\ pc = "communicate"
  /\ Decide("failed", "terminate")

\* terminate_process_and_collect: SIGTERM,
Terminate ==
  /\ pc = "terminate"
  /\ process' = [process EXCEPT !.state = IF @ = "running" THEN "error" ELSE @]
  /\ Goto("grace")
  /\ UNCHANGED <<call, attempt, registered, stop, targets, late>>

\* Mistake: SIGTERM is taken to be enough.
WaitForExit ==
  /\ pc = "grace" /\ ~Alive
  /\ process' = [process EXCEPT !.reaped = TRUE]
  /\ Goto("unregister")
  /\ UNCHANGED <<call, attempt, registered, stop, targets, late>>

\* and, after the grace period, SIGKILL.
KillAndReap ==
  /\ pc = "grace"
  /\ process' = [process EXCEPT !.state = IF Alive THEN "error" ELSE @, !.reaped = TRUE]
  /\ Goto("unregister")
  /\ UNCHANGED <<call, attempt, registered, stop, targets, late>>

\* What follows depends on why the wait ended.
UnregisterProcess ==
  /\ pc = "unregister"
  /\ registered' = registered \ {process.number}
  /\ Goto(CASE process.why = "cancelled" -> "returned"
            [] process.why = "failed" -> "idle"
            [] OTHER -> "after")
  /\ UNCHANGED <<call, attempt, process, stop, targets, late>>

\* Mistake: the last attempt is followed by another.
AfterAttemptOffByOne ==
  /\ pc = "after"
  /\ Goto(IF CancellationRequested THEN "returned"
          ELSE IF process.state = "transport" /\ attempt <= Attempts THEN "pause"
          ELSE "idle")
  /\ UNCHANGED others

AfterAttempt ==
  /\ pc = "after"
  /\ Goto(IF CancellationRequested THEN "returned"
          ELSE IF process.state = "transport" /\ attempt < Attempts THEN "pause"
          ELSE "idle")
  /\ UNCHANGED others

\* cancel.wait(transport_retry_delay_seconds)
Pause ==
  /\ pc = "pause"
  /\ Goto(IF CancellationRequested THEN "returned" ELSE "check")
  /\ UNCHANGED others

-------------------------------------------------------------------------------
(* The process, and the stop request.                                      *)

ProcessExits ==
  /\ Alive
  /\ \E exit \in Exits : process' = [process EXCEPT !.state = exit]
  /\ UNCHANGED <<pc, call, attempt, registered, stop, targets, late>>

SetEvent ==
  /\ stop = "no"
  /\ stop' = "set"
  /\ UNCHANGED <<pc, call, attempt, process, registered, targets, late>>

\* signal_job_processes copies the registry under its lock; further requests
\* find the event set and do the same,
LookAtProcesses ==
  /\ stop \in {"set", "done"}
  /\ targets' = registered
  /\ stop' = "signal"
  /\ UNCHANGED <<pc, call, attempt, process, registered, late>>

\* and signals the copies that are still running, one by one.
SignalProcess(n) ==
  /\ stop = "signal" /\ n \in targets
  /\ targets' = targets \ {n}
  /\ process' = [process EXCEPT !.state =
                   IF n = process.number /\ @ = "running" THEN "error" ELSE @]
  /\ UNCHANGED <<pc, call, attempt, registered, stop, late>>

EndRequest ==
  /\ stop = "signal" /\ targets = {}
  /\ stop' = "done"
  /\ UNCHANGED <<pc, call, attempt, process, registered, targets, late>>

-------------------------------------------------------------------------------

Worker ==
  \/ BeginCall \/ WorkerReturns \/ Check \/ Spawn \/ RegisterProcess \/ SendInput
  \/ SeeCancellation \/ GiveUp \/ WaitSlice \/ SliceEnds \/ Collect
  \/ PipeFails \/ Terminate \/ KillAndReap \/ UnregisterProcess \/ AfterAttempt \/ Pause

Request ==
  SetEvent \/ LookAtProcesses \/ EndRequest
    \/ \E n \in 1..process.number : SignalProcess(n)

Next == Worker \/ ProcessExits \/ Request

Spec == Init /\ [][Next]_vars

\* The worker runs on: no step of ssh blocks for ever, since waits are sliced and
\* a process can be killed.  No process is assumed to exit by itself, and no
\* deadline to end a wait.
FairSpec == Spec /\ WF_vars(Worker)

-------------------------------------------------------------------------------
(* Properties.                                                             *)

\* "Never let an unexpected local pipe/communicate failure leave SSH (and its
\* remote producer) running while the supervisor moves on to cloud cleanup":
\* between calls and once the worker has returned, every process it started has
\* been reaped and none is registered, however the call ended.
NothingLeftRunning ==
  pc \in {"idle", "returned"} => ~Alive /\ process.reaped /\ registered = {}

\* A stop that finds no process registered, because the worker is just about to
\* start one, is not missed: at most that one process is started, whatever
\* attempts and calls were left.
StopStartsNothingNew == late <= 1

\* A stop ends the worker, also when its process ignores SIGTERM and does not
\* exit, and wherever in its retries the stop finds it.
StopIsHeard == stop # "no" ~> pc = "returned"
===============================================================================
