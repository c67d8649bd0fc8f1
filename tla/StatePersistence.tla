--------------------------- MODULE StatePersistence ---------------------------
(***************************************************************************)
(* persist_job_state of app/main.py without the atomicity that RunLifecycle*)
(* gives it.  A job is a dict that the worker thread of a run and the event*)
(* loop both change and both save: the worker whenever a resource exists   *)
(* (record_resource), the loop when the user stops the run and when the    *)
(* supervisor goes on after the worker.  Each save copies the status, walks*)
(* the live resources dict while it writes JSON to a temporary file of its *)
(* own, and renames that over state.json.                                  *)
(***************************************************************************)
EXTENDS FiniteSets

CONSTANTS Res,      \* the resources that the worker records
          None      \* nothing saved or written

Thread == {"loop", "worker"}

VARIABLES
  status,     \* the job in memory: its status,
  resources,  \* and its resources
  stopped,    \* the cancellation event is set
  disk,       \* state.json
  doing,      \* what each thread does
  copy,       \* the status each save has copied
  seen,       \* the resources when the walk began
  text,       \* the temporary file of each save
  recorded,   \* resources whose record_resource has returned
  working     \* the worker function has not returned or raised

saves == <<status, resources, stopped, disk, doing, copy, seen, text, recorded, working>>

Statuses == {"provisioning", "cancelling", "cleanup_pending", "testing"}
State == [status : Statuses, resources : SUBSET Res]

SavesTypeOK ==
  /\ status \in Statuses
  /\ resources \subseteq Res
  /\ stopped \in BOOLEAN
  /\ disk \in State
  /\ doing \in [Thread -> {"idle", "copy", "walk", "dump", "replace", "done"}]
  /\ copy \in [Thread -> Statuses]
  /\ seen \in [Thread -> SUBSET Res]
  /\ text \in [Thread -> State \cup {None}]
  /\ recorded \subseteq Res
  /\ working \in BOOLEAN

\* run_job has saved the job and submitted provision.
SavesInit ==
  /\ status = "provisioning"
  /\ resources = {}
  /\ stopped = FALSE
  /\ disk = [status |-> status, resources |-> resources]
  /\ doing = [t \in Thread |-> "idle"]
  /\ copy = [t \in Thread |-> status]
  /\ seen = [t \in Thread |-> {}]
  /\ text = [t \in Thread |-> None]
  /\ recorded = {}
  /\ working = TRUE

Goes(t, label) == doing' = [doing EXCEPT ![t] = label]

-------------------------------------------------------------------------------
(* persist_job_state.                                                      *)

\* The state dict: its status is a copy, its resources are the job's own.
CopyState(t) ==
  /\ doing[t] = "copy"
  /\ copy' = [copy EXCEPT ![t] = status]
  /\ Goes(t, "walk")
  /\ UNCHANGED <<status, resources, stopped, disk, seen, text, recorded, working>>

BeginWalk(t) ==
  /\ doing[t] = "walk"
  /\ seen' = [seen EXCEPT ![t] = resources]
  /\ Goes(t, "dump")
  /\ UNCHANGED <<status, resources, stopped, disk, copy, text, recorded, working>>

Dump(t) ==
  /\ doing[t] = "dump"
  /\ resources = seen[t]
  /\ text' = [text EXCEPT ![t] = [status |-> copy[t], resources |-> resources]]
  /\ Goes(t, "replace")
  /\ UNCHANGED <<status, resources, stopped, disk, copy, seen, recorded, working>>

\* Mistake: a temporary file that was not written is renamed all the same.
DumpRaisesLate(t) ==
  /\ doing[t] = "dump"
  /\ resources # seen[t]
  /\ Goes(t, "replace")
  /\ UNCHANGED <<status, resources, stopped, disk, copy, seen, text, recorded, working>>

\* A dict that gets a new key while it is walked makes the walk raise; the
\* request fails and the event stays clear.
DumpRaises(t) ==
  /\ doing[t] = "dump"
  /\ resources # seen[t]
  /\ Goes(t, "idle")
  /\ UNCHANGED <<status, resources, stopped, disk, copy, seen, text, recorded, working>>

\* os.replace, and what the caller of the save does next.
Replace(t) ==
  /\ doing[t] = "replace"
  /\ disk' = text[t]
  /\ text' = [text EXCEPT ![t] = None]
  /\ IF t = "worker"
     THEN recorded' = resources /\ Goes(t, "idle") /\ UNCHANGED stopped
     ELSE /\ stopped' = (stopped \/ status = "cancelling")
          /\ Goes(t, IF status \in {"provisioning", "cancelling"} THEN "idle" ELSE "done")
          /\ UNCHANGED recorded
  /\ UNCHANGED <<status, resources, copy, seen, working>>

-------------------------------------------------------------------------------
\* record_resource
RecordResource(r) ==
  /\ working /\ doing["worker"] = "idle"
  /\ r \notin resources
  /\ resources' = resources \cup {r}
  /\ Goes("worker", "copy")
  /\ UNCHANGED <<status, stopped, disk, copy, seen, text, recorded, working>>

\* provision returns, or raises after a failure or once it sees the event.
EndWorker ==
  /\ working /\ doing["worker"] = "idle"
  /\ working' = FALSE
  /\ UNCHANGED <<status, resources, stopped, disk, doing, copy, seen, text, recorded>>

\* destroy, for a run that has not been stopped; a request that failed may be
\* repeated.
RequestStop ==
  /\ doing["loop"] = "idle" /\ ~stopped
  /\ status' = "cancelling"
  /\ Goes("loop", "copy")
  /\ UNCHANGED <<resources, stopped, disk, copy, seen, text, recorded, working>>

\* Mistake: the next status is left to the next save.
GoOnUnsaved ==
  /\ ~working /\ doing["loop"] = "idle"
  /\ status' = IF stopped THEN "cleanup_pending" ELSE "testing"
  /\ Goes("loop", "done")
  /\ UNCHANGED <<resources, stopped, disk, copy, seen, text, recorded, working>>

\* The supervisor resumes after the worker, on the loop.
GoOn ==
  /\ ~working /\ doing["loop"] = "idle"
  /\ status' = IF stopped THEN "cleanup_pending" ELSE "testing"
  /\ Goes("loop", "copy")
  /\ UNCHANGED <<resources, stopped, disk, copy, seen, text, recorded, working>>

Save(t) == CopyState(t) \/ BeginWalk(t) \/ Dump(t) \/ DumpRaises(t) \/ Replace(t)

SavesNext ==
  \/ \E t \in Thread : Save(t)
  \/ \E r \in Res : RecordResource(r)
  \/ EndWorker \/ RequestStop \/ GoOn

SavesSpec == SavesInit /\ [][SavesNext]_saves

\* Both threads run on, the worker returns (it records each resource once), and
\* the loop resumes the supervisor.
FairSavesSpec ==
  /\ SavesSpec
  /\ \A t \in Thread : WF_saves(Save(t))
  /\ WF_saves(EndWorker) /\ WF_saves(GoOn)

-------------------------------------------------------------------------------
(* Properties.                                                             *)

\* Once the supervisor has gone on, state.json is the job: the status that is
\* about to be worked under and every resource, whatever saves of the worker and
\* of stop requests came before, finished late or failed.
SettledIsSaved ==
  doing["loop"] = "done" => disk = [status |-> status, resources |-> resources]

\* A recorded resource that a late save took off the disk comes back and stays.
RecordsReturn == \A r \in Res : r \in recorded ~> [](r \in disk.resources)

\* "created AWS, GCP, and Azure resource identities are persisted immediately so
\* an interrupted run can be recovered": what record_resource has returned for
\* is in state.json from then on, wherever the server dies.
RecordedIsSaved == recorded \subseteq disk.resources

\* A run that says it is being cancelled has its cancellation event set, as soon
\* as the request that said so has ended.
CancellingIsHeard == status = "cancelling" /\ doing["loop"] = "idle" => stopped
===============================================================================
