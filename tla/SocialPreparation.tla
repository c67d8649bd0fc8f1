--------------------------- MODULE SocialPreparation ---------------------------
(***************************************************************************)
(* The deployment of Social Network                                        *)
(* (app/deathstarbench_distributed.py, app/deathstarbench_k3s_workload.py  *)
(* and the storage scripts of the guests).  What was recorded as applied is*)
(* not applied again, but nodes, authority, volume and the workload itself *)
(* are attested by every attempt.                                          *)
(***************************************************************************)
EXTENDS K3sPreparation

WorkloadPhases == <<"namespace", "storage", "policies", "services", "workloads">>
PhaseSet == {WorkloadPhases[i] : i \in 1..5}

\* A state and the phases it tells of.
ValidWork(j, filesystem) ==
  CASE j.state = "none" -> j = NoWork
    [] j.state = "preparing_storage" -> j.applied = 0 /\ j.storage = 0
    [] j.state = "storage_ready" -> j.applied = 0 /\ j.storage = filesystem
    [] j.state = "applying" -> j.applied < 5 /\ j.storage = filesystem
    [] j.state = "applied" -> j.applied > 0 /\ j.storage = filesystem
    [] j.state = "workload_ready" -> j.applied = 5 /\ j.storage = filesystem

\* _write_workload_journal
SaveWork(state, applied, storage, place, index) ==
  LET j == [state |-> state, applied |-> applied, storage |-> storage]
  IN IF ValidWork(j, memory.k3s.volume)
     THEN Save([memory EXCEPT !.work = j], place, index)
     ELSE Keep /\ Refuse

\* Mistake: readiness is only replaced when it has been attested again.
BeginWorkloadStillReady ==
  /\ pc = "workload" /\ workload = "social"
  /\ IF ~ValidWork(memory.work, memory.k3s.volume) THEN Keep /\ Refuse
     ELSE IF memory.work.state = "none"
     THEN SaveWork("preparing_storage", 0, 0, "reattest", 1)
     ELSE Keep /\ Answered("reattest", 1)
  /\ UNCHANGED <<workload, remote>>

\* Readiness is revoked before anything is sent.
BeginWorkload ==
  /\ pc = "workload" /\ workload = "social"
  /\ IF ~ValidWork(memory.work, memory.k3s.volume) THEN Keep /\ Refuse
     ELSE CASE memory.work.state = "none" ->
                 SaveWork("preparing_storage", 0, 0, "reattest", 1)
            [] memory.work.state = "workload_ready" ->
                 SaveWork("applied", 5, memory.work.storage, "reattest", 1)
            [] OTHER -> Keep /\ Answered("reattest", 1)
  /\ UNCHANGED <<workload, remote>>

\* The read-only attestation of the mounted file system.
VolumeAttested == volume.mounted /\ volume.filesystem = memory.k3s.volume

\* Four commands that only look.
ReattestCluster ==
  /\ pc = "reattest"
  /\ LET same ==
           /\ ClusterAttested
           /\ ca = memory.k3s.ca
           /\ VolumeAttested
     IN \/ same /\ Answered("store", 1)
        \/ ~same /\ Refuse
        \/ Lost
  /\ UNCHANGED <<workload, journals, remote>>

StoreReady == [volume EXCEPT !.store = "ready"]

\* The marker of ownership comes first, then the directories.
PrepareStorage ==
  /\ pc = "store"
  /\ LET ready == StoreReady
         next == IF memory.work.applied < 5 THEN "apply" ELSE "attest"
     IN \/ /\ volume' = ready
           /\ IF memory.work.state = "preparing_storage"
              THEN SaveWork("storage_ready", 0, volume.filesystem, next, 1)
              ELSE Keep /\ Answered(next, memory.work.applied + 1)
        \/ /\ \/ volume' \in {volume, ready}
              \/ volume.store = "none" /\ volume' = [volume EXCEPT !.store = "marked"]
           /\ Keep /\ Lost
  /\ UNCHANGED <<workload, guest, token, service, ca, pinned, cluster, oneShot, tampered>>

BeginPhase ==
  /\ pc = "apply"
  /\ SaveWork("applying", turn - 1, volume.filesystem, "send", turn)
  /\ UNCHANGED <<workload, remote>>

Applied(phase) == objects \cup {phase}

\* kubectl apply of the manifests of one phase; Pods start on their own.
ApplyPhase ==
  /\ pc = "send"
  /\ \/ /\ objects' = Applied(WorkloadPhases[turn])
        /\ SaveWork("applied", turn, volume.filesystem, IF turn < 5 THEN "apply" ELSE "attest",
                    IF turn < 5 THEN turn + 1 ELSE 1)
     \/ objects' \in {objects, Applied(WorkloadPhases[turn])} /\ Keep /\ Lost
  /\ UNCHANGED <<workload, hosts, pods, probe, network, oneShot, tampered>>

\* workload_readiness_command waits for the Pods, parse_workload_attestation
\* compares the inventory.
WorkloadAttested == PhaseSet \subseteq objects /\ pods.up

AttestWorkload ==
  /\ pc = "attest"
  /\ \/ /\ WorkloadAttested
        /\ SaveWork("workload_ready", 5, volume.filesystem, "network", 1)
     \/ Keep /\ Lost
  /\ UNCHANGED <<workload, remote>>

SocialStep ==
  \/ BeginWorkload \/ ReattestCluster \/ PrepareStorage \/ BeginPhase \/ ApplyPhase
  \/ AttestWorkload
===============================================================================
