--------------------------------- MODULE Guests ---------------------------------
(***************************************************************************)
(* A distributed DeathStarBench run between its resources and its          *)
(* measurement: the job in memory and on disk, the guests that commands    *)
(* over SSH change, and the cluster that runs on them.                     *)
(*                                                                         *)
(* An attempt is a sequence of commands and saves.  A command is answered, *)
(* or it fails and leaves nothing, a part of its effect or all of it; what *)
(* a failed command still did is over before the next attempt.  A save     *)
(* changes the job in memory before it may fail.  Attempts are repeated,   *)
(* in the same process or in a new one.                                    *)
(***************************************************************************)
EXTENDS Integers, Sequences

CONSTANT MaxFaults   \* bound: failures, and what others do

VARIABLES
  workload,  \* the workload of the plan
  pc,        \* where the attempt stands
  turn,      \* index into the hosts, phases or stages it goes through
  first,     \* it found no K3s journal
  failed,    \* the network qualification raised and is cleaning up
  seen,      \* what its probes showed
  snapshot,  \* the generation of Pods before the load
  memory,    \* the journals of the job,
  disk,      \* and in state.json
  guest,     \* what is set up on each host
  volume,    \* the data disk of the database host
  token,     \* the credentials of each host
  service,   \* hosts whose K3s service runs
  ca,        \* the authority of the control plane, 0 before its first start
  pinned,    \* CoreDNS is pinned to the control node
  objects,   \* what was applied to the cluster
  pods,      \* the Pods of the workload
  probe,     \* the two probe Pods
  network,   \* the path from the probes to Redis
  effect,    \* what came of each one-shot command
  times,     \* how often each was sent
  tampered,  \* somebody replaced a file system or the control plane
  faults     \* so far

attempt == <<pc, turn, first, failed, seen, snapshot>>
journals == <<memory, disk>>
hosts == <<guest, volume, token, service, ca, pinned>>
cluster == <<objects, pods, probe, network>>
oneShot == <<effect, times>>
remote == <<hosts, cluster, oneShot, tampered>>
vars == <<workload, attempt, journals, remote, faults>>

Agents == <<"database", "cache", "application">>   \* _AGENT_KEYS
Hosts == <<"control">> \o Agents                   \* _CLUSTER_KEYS
HostSet == {Hosts[i] : i \in 1..Len(Hosts)}
AgentSet == {Agents[i] : i \in 1..Len(Agents)}

Absent == 0     \* of credentials; a number above is the authority they belong to
Partial == -1

NoK3s == [state |-> "none", prepared |-> 0, joined |-> 0, ca |-> 0, volume |-> 0]
NoWork == [state |-> "none", applied |-> 0, storage |-> 0]
NoJob == [k3s |-> NoK3s, work |-> NoWork, evidence |-> "none", stage |-> "none", result |-> FALSE]

Unseen == [before |-> FALSE, denied |-> "none", after |-> FALSE]

OneShotStep == {"initialize", "check", "warmup", "measure"}

GuestsInit ==
  /\ pc = "idle" /\ turn = 1 /\ first = FALSE /\ failed = FALSE
  /\ seen = Unseen /\ snapshot = 0
  /\ memory = NoJob /\ disk = NoJob
  /\ guest = [h \in HostSet |-> {}]
  /\ volume = [filesystem |-> 0, mounted |-> FALSE, store |-> "none"]
  /\ token = [h \in HostSet |-> Absent]
  /\ service = {} /\ ca = 0 /\ pinned = FALSE
  /\ objects = {}
  /\ pods = [up |-> FALSE, generation |-> 0, restarted |-> FALSE]
  /\ probe = [n \in {"control", "deny"} |-> "none"]
  /\ network \in [enforced : BOOLEAN, path : {TRUE}, glitch : {FALSE}]
  /\ effect = [s \in OneShotStep |-> "none"]
  /\ times = [s \in OneShotStep |-> 0]
  /\ tampered = FALSE
  /\ faults = 0

-------------------------------------------------------------------------------
(* How an attempt goes on.                                                 *)

Fault == faults < MaxFaults /\ faults' = faults + 1

Goto(place, index) ==
  pc' = place /\ turn' = index /\ UNCHANGED <<first, failed, seen, snapshot>>

Answered(place, index) == Goto(place, index) /\ UNCHANGED faults

\* A command or a save raises.
Lost == Goto("idle", 1) /\ Fault

\* A check of the code or of the command itself refuses.
Refuse == Goto("idle", 1) /\ UNCHANGED faults

\* The job is changed, then persist is called, which may raise.
Save(job, place, index) ==
  /\ memory' = job
  /\ \/ disk' = job /\ Answered(place, index)
     \/ disk' = disk /\ Lost

-------------------------------------------------------------------------------
(* What goes on beside the attempts.                                       *)

\* The process ends, and a new one loads the job.
Restart ==
  /\ memory' = disk
  /\ Goto("idle", 1)
  /\ IF pc = "idle" THEN UNCHANGED faults ELSE Fault
  /\ UNCHANGED <<workload, disk, remote>>

\* Between two attempts somebody makes a new file system on the data disk, or
\* sets up the control plane anew.
Tamper ==
  /\ pc = "idle"
  /\ \/ /\ volume.filesystem # 0
        /\ volume' = [volume EXCEPT !.filesystem = @ + 1, !.store = "none"]
        /\ UNCHANGED ca
     \/ ca # 0 /\ ca' = ca + 1 /\ UNCHANGED volume
  /\ tampered' = TRUE
  /\ Fault
  /\ UNCHANGED <<workload, attempt, journals, guest, token, service, pinned, cluster, oneShot>>

\* The K3s service of a host stops.
ServiceStops ==
  /\ \E h \in service : service' = service \ {h}
  /\ Fault
  /\ UNCHANGED <<workload, attempt, journals, guest, volume, token, ca, pinned, cluster,
                 oneShot, tampered>>

\* A Pod is restarted in its place, or replaced.
PodFails ==
  /\ pods.up
  /\ \E inPlace \in BOOLEAN :
       pods' = [up |-> FALSE, generation |-> pods.generation + 1,
                restarted |-> pods.restarted \/ inPlace]
  /\ Fault
  /\ UNCHANGED <<workload, attempt, journals, hosts, objects, probe, network, oneShot, tampered>>

PodsStart ==
  /\ objects \cap {"workloads", "applications"} # {} /\ ~pods.up
  /\ pods' = [pods EXCEPT !.up = TRUE]
  /\ UNCHANGED <<workload, attempt, journals, hosts, objects, probe, network, oneShot, tampered,
                 faults>>

\* Somebody takes the name of a probe Pod, also in place of ours.
ForeignPod ==
  /\ "namespace" \in objects
  /\ \E n \in DOMAIN probe : probe[n] # "foreign" /\ probe' = [probe EXCEPT ![n] = "foreign"]
  /\ Fault
  /\ UNCHANGED <<workload, attempt, journals, hosts, objects, pods, network, oneShot, tampered>>

\* DNS, the Service or Redis fails, and is back.  A glitch is an outage that
\* lies between the two positive controls of one attempt.
PathFails ==
  /\ pc = "network" /\ network.path
  /\ network' = [network EXCEPT !.path = FALSE]
  /\ Fault
  /\ UNCHANGED <<workload, attempt, journals, hosts, objects, pods, probe, oneShot, tampered>>

PathReturns ==
  /\ ~network.path
  /\ network' = [network EXCEPT !.path = TRUE, !.glitch = @ \/ (seen.before /\ ~seen.after)]
  /\ UNCHANGED <<workload, attempt, journals, hosts, objects, pods, probe, oneShot, tampered,
                 faults>>

\* A one-shot command that was sent runs, also when its answer was lost.
EffectEnds ==
  /\ \E s \in OneShotStep, end \in {"finished", "dead"} :
       /\ effect[s] = "running"
       /\ effect' = [effect EXCEPT ![s] = end]
  /\ UNCHANGED <<workload, attempt, journals, hosts, cluster, times, tampered, faults>>

Others ==
  \/ Tamper \/ ServiceStops \/ PodFails \/ PodsStart \/ ForeignPod
  \/ PathFails \/ PathReturns \/ EffectEnds
===============================================================================
