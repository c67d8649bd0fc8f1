------------------------------ MODULE CandidateState ------------------------------
(***************************************************************************)
(* The private state of a candidate run (CandidateStateStore): state.json, *)
(* replaced as a whole under the lease of the run, the job of the process  *)
(* that holds the lease, and how that process is interrupted.              *)
(***************************************************************************)
EXTENDS Naturals, Sequences

CONSTANT MaxSetbacks   \* bound on failures, signals, deaths and meddling

ASSUME MaxSetbacksNat == MaxSetbacks \in Nat

VARIABLES
  at,        \* where the process stands
  candidate, \* its job
  recorded,  \* state.json
  call,      \* what its command will report
  guarded,   \* hotel-initialization-pin.json exists
  setbacks

state == <<at, candidate, recorded, call, guarded, setbacks>>

\* The journal of the support stage: the identities of the phases that were
\* applied, and of what was seen of the next one before it was.
NoStage == [state |-> "absent", receipts |-> <<>>, pending |-> {}, prepared |-> FALSE]

NoHotel == [state |-> "absent", executed |-> "no", verified |-> FALSE]

\* operator record, provider graph, stage, archive, cleanup source, Hotel
Queued ==
  [state |-> "queued", identity |-> 0, contract |-> "none", stage |-> NoStage,
   archive |-> NoStage, source |-> "none", proof |-> FALSE, hotel |-> NoHotel]

Unwritten == [Queued EXCEPT !.state = "unwritten"]

NoCall == [cleanupOnly |-> FALSE, failure |-> "none", signal |-> FALSE,
           cleanupFailed |-> FALSE, proved |-> FALSE, exit |-> "none"]

StateInit ==
  /\ at = "allocate" /\ candidate = Queued /\ recorded = Unwritten
  /\ call = NoCall /\ guarded \in BOOLEAN /\ setbacks = 0

NoCandidate ==
  /\ at = "idle" /\ candidate = Queued /\ recorded = Unwritten
  /\ call = NoCall /\ guarded = FALSE /\ setbacks = 0

\* No process holds the lease.
Ended == {"idle", "down", "refused", "returned"}

\* Before the operator has accepted the run it refuses and cleans nothing up.
Acceptance == {"allocate", "accept", "verify"}

HotelPlaces == {"hotel", "openJournal", "createPods", "sendPods", "pinPods", "gate", "latch",
                "intent", "saveIntent", "release", "poll", "exit", "final"}

Teardown == {"pend", "archive", "removeKey", "clean", "source", "delete", "clear",
             "absence", "finish", "late"}

Working == at \notin Ended \cup Acceptance \cup Teardown \cup {"failHotel"}

-------------------------------------------------------------------------------
(* Failures.                                                               *)

Setback == setbacks < MaxSetbacks /\ setbacks' = setbacks + 1

\* Where an exception takes the process.
Handler ==
  CASE at \in Acceptance -> "refused"
    [] at \in HotelPlaces -> "failHotel"
    [] OTHER -> "pend"

Decline == at' = Handler /\ call' = [call EXCEPT !.failure = "error"]

\* Something failed, a checkpoint interrupts, or a signal does.
BreakOff ==
  /\ Setback /\ at' = Handler
  /\ \E f \in {"error", "interrupted"}, s \in BOOLEAN :
       /\ s => f = "interrupted"
       /\ call' = [call EXCEPT !.failure = f, !.signal = s]

\* save: the file is replaced and the directory synchronised; only then the
\* process goes on.  A failure may leave the old file or the new one.
SaveJob(job, next) ==
  /\ candidate' = job
  /\ \/ recorded' = job /\ at' = next /\ UNCHANGED <<call, setbacks>>
     \/ recorded' \in {recorded, job} /\ BreakOff

GoOn(next) == at' = next /\ UNCHANGED <<call, setbacks>>

Interrupt == (Working \/ at = "verify") /\ BreakOff /\ UNCHANGED <<candidate, recorded, guarded>>

\* The process is killed, or ends itself at a hard checkpoint.
Die ==
  /\ at \notin Ended /\ Setback
  /\ at' = "down" /\ candidate' = Queued /\ call' = NoCall
  /\ UNCHANGED <<recorded, guarded>>
===============================================================================
