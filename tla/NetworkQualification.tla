-------------------------- MODULE NetworkQualification --------------------------
(***************************************************************************)
(* The qualification of the network paths                                  *)
(* (app/deathstarbench_distributed.py): a probe Pod that policies must cut *)
(* off from Redis, between two positive controls that must reach it.  The  *)
(* names of both Pods are fixed, so they may be left over, or belong to    *)
(* somebody else.                                                          *)
(***************************************************************************)
EXTENDS SocialPreparation

Clear(pod) == [kind |-> "clear", pod |-> pod]
Create(pod) == [kind |-> "create", pod |-> pod]

\* The last two are the nested finally clauses.
NetworkPlan ==
  <<Clear("control"), Clear("deny"), [kind |-> "paths", pod |-> "none"],
    Create("control"), Clear("control"), Create("deny"), Create("control"),
    Clear("deny"), Clear("control")>>

Qualifying(kind) == pc = "network" /\ NetworkPlan[turn].kind = kind

Pod == NetworkPlan[turn].pod

\* On to the next command, or to the evidence.
Proceed ==
  /\ IF turn < 9 THEN pc' = "network" /\ turn' = turn + 1 ELSE pc' = "evidence" /\ turn' = 1
  /\ UNCHANGED <<first, snapshot>>

\* An exception leads to the clean-up; one of the clean-up to its second half.
\* That of the probe is kept until the second control is done.
Except ==
  /\ failed' = TRUE
  /\ IF turn < 9
     THEN pc' = "network" /\ turn' = (IF turn = 6 THEN 7 ELSE IF turn < 8 THEN 8 ELSE 9)
     ELSE pc' = "evidence" /\ turn' = 1
  /\ UNCHANGED <<first, snapshot, seen>>

Passed == Proceed /\ UNCHANGED <<failed, seen, faults>>

\* One API response shows the Pod and its UID.
ReadProbePod ==
  /\ Qualifying("clear")
  /\ \/ probe[Pod] = "none" /\ Passed
     \/ probe[Pod] = "ours" /\ Answered("delete", turn)
     \/ probe[Pod] = "foreign" /\ Except /\ UNCHANGED faults
     \/ Except /\ Fault
  /\ UNCHANGED <<workload, journals, remote>>

\* Mistake: the Pod is deleted by its name.
DeleteProbePodByName ==
  /\ pc = "delete"
  /\ probe' = [probe EXCEPT ![Pod] = "none"]
  /\ Passed
  /\ UNCHANGED <<workload, journals, hosts, objects, pods, network, oneShot, tampered>>

\* The API server deletes exactly that Pod.
DeleteProbePod ==
  /\ pc = "delete"
  /\ LET gone == [probe EXCEPT ![Pod] = "none"]
     IN \/ probe[Pod] # "foreign" /\ probe' = gone /\ Passed
        \/ probe[Pod] = "foreign" /\ UNCHANGED probe /\ Except /\ UNCHANGED faults
        \/ /\ probe' \in {probe} \cup (IF probe[Pod] = "ours" THEN {gone} ELSE {})
           /\ Except /\ Fault
  /\ UNCHANGED <<workload, journals, hosts, objects, pods, network, oneShot, tampered>>

\* From the load generator: one path that must be open, three that must not.
ProbePaths ==
  /\ Qualifying("paths")
  /\ \/ Passed
     \/ Except /\ Fault
  /\ UNCHANGED <<workload, journals, remote>>

\* A name that is taken makes the create fail.
Created ==
  IF probe[Pod] = "none" THEN probe' = [probe EXCEPT ![Pod] = "ours"] ELSE UNCHANGED probe

\* Mistake: one control is enough.
PositiveControlOnce ==
  /\ Qualifying("create") /\ Pod = "control"
  /\ IF turn = 7
     THEN Passed /\ UNCHANGED probe
     ELSE /\ Created
          /\ \/ /\ probe[Pod] = "none" /\ network.path
                /\ seen' = [seen EXCEPT !.before = TRUE]
                /\ Proceed /\ UNCHANGED <<failed, faults>>
             \/ (probe[Pod] # "none" \/ ~network.path) /\ Except /\ UNCHANGED faults
  /\ UNCHANGED <<workload, journals, hosts, objects, pods, network, oneShot, tampered>>

PositiveControl ==
  /\ Qualifying("create") /\ Pod = "control"
  /\ Created
  /\ \/ /\ probe[Pod] = "none" /\ network.path
        /\ seen' = IF turn = 4 THEN [seen EXCEPT !.before = TRUE] ELSE [seen EXCEPT !.after = TRUE]
        /\ Proceed /\ UNCHANGED <<failed, faults>>
     \/ (probe[Pod] # "none" \/ ~network.path) /\ Except /\ UNCHANGED faults
  /\ UNCHANGED <<workload, journals, hosts, objects, pods, network, oneShot, tampered>>

\* The command for a Pod is lost, before or after it is created.
LosePod ==
  /\ Qualifying("create")
  /\ Created \/ UNCHANGED probe
  /\ Except /\ Fault
  /\ UNCHANGED <<workload, journals, hosts, objects, pods, network, oneShot, tampered>>

\* The probe is dropped or rejected, or it reaches Redis.
DefaultDeny ==
  /\ Qualifying("create") /\ Pod = "deny"
  /\ Created
  /\ LET cut == (network.enforced /\ "policies" \in objects) \/ ~network.path
     IN IF probe[Pod] = "none" /\ cut
        THEN /\ \E mode \in {"drop", "reject"} : seen' = [seen EXCEPT !.denied = mode]
             /\ Proceed /\ UNCHANGED <<failed, faults>>
        ELSE Except /\ UNCHANGED faults
  /\ UNCHANGED <<workload, journals, hosts, objects, pods, network, oneShot, tampered>>

\* Evidence is saved once and must be the same in every later attempt.
SaveEvidence ==
  /\ pc = "evidence"
  /\ CASE failed -> Keep /\ Refuse
       [] ~failed /\ memory.evidence = "none" ->
            Save([memory EXCEPT !.evidence = seen.denied], "measured", 1)
       [] ~failed /\ memory.evidence = seen.denied -> Keep /\ Answered("measured", 1)
       [] OTHER -> Keep /\ Refuse
  /\ UNCHANGED <<workload, remote>>

NetworkStep ==
  \/ ReadProbePod \/ DeleteProbePod \/ ProbePaths \/ PositiveControl \/ LosePod \/ DefaultDeny
  \/ SaveEvidence
===============================================================================
