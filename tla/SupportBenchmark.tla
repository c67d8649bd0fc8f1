---------------------------- MODULE SupportBenchmark ----------------------------
(***************************************************************************)
(* Hotel Reservation and Media Microservices                               *)
(* (app/deathstarbench_hotel_benchmark.py and                              *)
(* app/deathstarbench_media_benchmark.py).  Everything after the cluster   *)
(* happens once: a journal, or a result, refuses every further attempt.    *)
(* Each stage is recorded before it begins.                                *)
(***************************************************************************)
EXTENDS NetworkQualification

Stages ==
  IF workload = "hotel"
  THEN <<"deploying_support", "initializing_dataset", "starting_applications",
         "semantic_checks", "warming_up", "measuring", "measurement_complete">>
  ELSE <<"deploying_support", "starting_applications", "initializing_dataset",
         "semantic_checks", "warming_up", "measuring", "measurement_complete">>

StepOf ==
  [initializing_dataset |-> "initialize", semantic_checks |-> "check",
   warming_up |-> "warmup", measuring |-> "measure"]

\* Mistake: only a result refuses, not a journal.
BeginSupportUnlessComplete ==
  /\ pc = "workload" /\ workload # "social"
  /\ IF memory.result THEN Refuse ELSE Answered("stage", 1)
  /\ UNCHANGED <<workload, journals, remote>>

BeginSupport ==
  /\ pc = "workload" /\ workload # "social"
  /\ IF memory.stage # "none" \/ memory.result THEN Refuse ELSE Answered("stage", 1)
  /\ UNCHANGED <<workload, journals, remote>>

\* The plan may ask for no warm-up.
BeginStage ==
  /\ pc = "stage" /\ turn < 7
  /\ \/ Save([memory EXCEPT !.stage = Stages[turn]], "do", turn)
     \/ Stages[turn] = "warming_up" /\ Keep /\ Answered("stage", turn + 1)
  /\ UNCHANGED <<workload, remote>>

Doing(stages) == pc = "do" /\ Stages[turn] \in stages

\* Directories and databases.
DeploySupport ==
  /\ Doing({"deploying_support"})
  /\ \/ volume.mounted /\ objects' = objects \cup {"support"} /\ Answered("stage", turn + 1)
     \/ ~volume.mounted /\ UNCHANGED objects /\ Refuse
     \/ objects' \in {objects, objects \cup {"support"}} /\ Lost
  /\ UNCHANGED <<workload, journals, hosts, pods, probe, network, oneShot, tampered>>

StartApplications ==
  /\ Doing({"starting_applications"})
  /\ \/ objects' = objects \cup {"applications"} /\ Answered("rollout", turn)
     \/ objects' \in {objects, objects \cup {"applications"}} /\ Lost
  /\ UNCHANGED <<workload, journals, hosts, pods, probe, network, oneShot, tampered>>

AwaitRollout ==
  /\ pc = "rollout"
  /\ \/ pods.up /\ Answered("stage", turn + 1)
     \/ Lost
  /\ UNCHANGED <<workload, journals, remote>>

\* The initializer, the checks, which also write, the warm-up and the load are
\* sent once, over one transport attempt.
SendOneShot ==
  /\ Doing(DOMAIN StepOf)
  /\ LET s == StepOf[Stages[turn]]
     IN /\ times' = [times EXCEPT ![s] = @ + 1]
        /\ \/ effect' = [effect EXCEPT ![s] = "running"] /\ Answered("await", turn)
           \/ effect' \in {effect, [effect EXCEPT ![s] = "running"]} /\ Lost
  /\ UNCHANGED <<workload, journals, hosts, cluster, tampered>>

\* Mistake: a failed step is passed over.
AwaitOneShotAnyway ==
  /\ pc = "await"
  /\ LET stage == Stages[turn]
         end == effect[StepOf[stage]]
     IN \/ /\ end \in {"finished", "dead"}
           /\ Answered(CASE stage = "semantic_checks" -> "before"
                         [] stage = "measuring" -> "complete" [] OTHER -> "stage",
                       IF stage \in {"semantic_checks", "measuring"} THEN turn ELSE turn + 1)
        \/ Lost
  /\ UNCHANGED <<workload, journals, remote>>

\* The output tells whether it went right: counts, semantics, metrics.
AwaitOneShot ==
  /\ pc = "await"
  /\ LET stage == Stages[turn]
         end == effect[StepOf[stage]]
     IN \/ end = "finished" /\ stage = "semantic_checks" /\ Answered("before", turn)
        \/ end = "finished" /\ stage = "measuring" /\ Answered("complete", turn)
        \/ end = "finished" /\ stage \notin {"semantic_checks", "measuring"}
             /\ Answered("stage", turn + 1)
        \/ end = "dead" /\ Refuse
        \/ Lost
  /\ UNCHANGED <<workload, journals, remote>>

\* _pod_snapshot: all Pods are up and none was ever restarted.
Healthy == pods.up /\ ~pods.restarted

SnapshotPods ==
  /\ pc = "before"
  /\ \/ /\ Healthy
        /\ snapshot' = pods.generation
        /\ pc' = "stage" /\ turn' = turn + 1 /\ UNCHANGED <<first, failed, seen, faults>>
     \/ ~Healthy /\ Refuse
     \/ Lost
  /\ UNCHANGED <<workload, journals, remote>>

\* The result, and the last stage with it.
CompleteSupport ==
  /\ pc = "complete"
  /\ \/ /\ Healthy /\ pods.generation = snapshot
        /\ Save([memory EXCEPT !.result = TRUE, !.stage = "measurement_complete"],
                "completed", 1)
     \/ (~Healthy \/ pods.generation # snapshot) /\ Keep /\ Refuse
     \/ Keep /\ Lost
  /\ UNCHANGED <<workload, remote>>

SupportStep ==
  \/ BeginSupport \/ BeginStage \/ DeploySupport \/ StartApplications \/ AwaitRollout
  \/ SendOneShot \/ AwaitOneShot \/ SnapshotPods \/ CompleteSupport
===============================================================================
