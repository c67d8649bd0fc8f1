-------------------------------- MODULE AwsGraph --------------------------------
(***************************************************************************)
(* The distributed graph on AWS (app/providers/aws.py).  One subnet, one   *)
(* security group and two instances stand for all of their kind.           *)
(*                                                                         *)
(* Creates are never repeated.  A resource without an identity is looked   *)
(* up by its tags, which may not show it yet.                              *)
(***************************************************************************)
EXTENDS GraphCloud

AwsGraphKeys ==
  {"vpc", "igw", "subnet", "nat", "group", "volume", "database", "loadgen"}

\* The graph is audited before the instances are launched and at the end.
AwsGraphOrder ==
  <<"vpc", "igw", "subnet", "nat", "group", "volume", "audit", "database",
    "loadgen", "audit">>

AwsPlace(r) == CHOOSE i \in 1..Len(AwsGraphOrder) : AwsGraphOrder[i] = r

AwsGraphHolds ==
  ({"igw", "subnet", "group"} \X {"vpc"})
    \cup ({"nat", "database", "loadgen"} \X {"subnet"})
    \cup {<<"nat", "igw">>, <<"database", "volume">>}
    \cup ({"database", "loadgen"} \X {"group"})

Unanswered == {"creating", "create_ambiguous"}
Leaving == {"deleting", "delete_ambiguous"}

\* What a lookup may show: by identity all there is, by tags perhaps less.
AwsViews == {seen \in SUBSET (cloud \cap AwsGraphKeys) : known \cap cloud \subseteq seen}

-------------------------------------------------------------------------------
(* provision_distributed_deathstarbench_candidate                          *)

\* The graph of the whole run.
AwsContract == SaveContract(AwsGraphKeys)

\* An instance comes with its boot disk.
AwsDispatch(r) ==
  /\ UNCHANGED <<contract, load, pass>>
  /\ Calmly
  /\ \/ /\ Make({r} \cup BootOf(r))
        /\ status' = [status EXCEPT ![r] = "running"]
        /\ known' = known \cup {r}
        /\ Advance
     \* refused for certain
     \/ /\ status' = [status EXCEPT ![r] = "planned"]
        /\ UNCHANGED <<known, world>>
        /\ Raise
     \* no answer, or not visible yet
     \/ /\ status' \in {[status EXCEPT ![r] = s] : s \in Unanswered}
        /\ Make({r} \cup BootOf(r)) \/ UNCHANGED world
        /\ UNCHANGED known
        /\ Raise
     \* the answer of the gateway, or an accepted instance, is saved at once
     \/ /\ r \in {"igw", "database", "loadgen"}
        /\ status' \in {[status EXCEPT ![r] = s] : s \in Unanswered}
        /\ Make({r} \cup BootOf(r))
        /\ known' = known \cup {r}
        /\ Raise

AwsAdopt(r) ==
  /\ status' = [status EXCEPT ![r] = "running"]
  /\ known' = known \cup {r}
  /\ UNCHANGED <<contract, world, load, pass>>
  /\ Calmly
  /\ Advance

\* Mistake: creates again what is not seen, as long as it has no identity.
AwsEnsureReplaying ==
  \E r \in AwsGraphKeys, seen \in AwsViews :
    /\ Provisioning(AwsGraphOrder, r)
    /\ \/ status[r] = "deleted" /\ Refuse
       \/ status[r] # "deleted" /\ r \in seen /\ AwsAdopt(r)
       \/ status[r] # "deleted" /\ r \notin seen /\ r \in known /\ Refuse
       \/ status[r] # "deleted" /\ r \notin seen \cup known /\ AwsDispatch(r)

\* _dsb_ensure: what is seen is adopted, and only what was never asked for is
\* created.
AwsEnsure ==
  \E r \in AwsGraphKeys, seen \in AwsViews :
    /\ Provisioning(AwsGraphOrder, r)
    /\ \/ status[r] = "deleted" /\ Refuse
       \/ status[r] # "deleted" /\ r \in seen /\ AwsAdopt(r)
       \/ /\ r \notin seen /\ (r \in known \/ status[r] # "planned")
          /\ Refuse
       \/ r \notin seen \cup known /\ status[r] = "planned" /\ AwsDispatch(r)

-------------------------------------------------------------------------------
(* recover_distributed_deathstarbench_candidate                            *)

\* Mistake: lets creates pass that have no answer.
AwsUnexplainedUnlessUnanswered(seen) ==
  {r \in AwsGraphKeys :
     IF r \in seen THEN status[r] = "deleted"
     ELSE r \in known /\ status[r] = "running"}

\* What a recovery cannot explain.
AwsUnexplained(seen) ==
  {r \in AwsGraphKeys :
     IF r \in seen THEN status[r] = "deleted"
     ELSE status[r] \in Unanswered \/ (r \in known /\ status[r] = "running")}

\* Mistake: leaves what has gone for the deletion to find out.
AwsRecoveredIfSeen(r, seen) ==
  IF r \in seen THEN IF status[r] \in Leaving THEN status[r] ELSE "running"
  ELSE status[r]

AwsRecovered(r, seen) ==
  IF r \in seen THEN IF status[r] \in Leaving THEN status[r] ELSE "running"
  ELSE IF r \in known /\ status[r] \in Leaving THEN "deleted"
  ELSE status[r]

\* _dsb_verify_item: what is seen has the identity, the tags and the form that were
\* asked for, and nothing else is attached.
AwsVerified == stranger = "none"

\* In the order of the plan, each saved, up to the first that is unexplained.
AwsReconcileAll ==
  \E seen \in AwsViews :
    LET bad == AwsUnexplained(seen)
        done == {r \in AwsGraphKeys : \A b \in bad : AwsPlace(r) < AwsPlace(b)}
    IN /\ status' = [r \in AwsGraphKeys |->
                       IF r \in done THEN AwsRecovered(r, seen) ELSE status[r]]
       /\ known' = known \cup (done \cap seen)
       /\ UNCHANGED <<contract, world, load, pass>>
       /\ Expect(seen = cloud \cap AwsGraphKeys)
       /\ IF bad = {} /\ AwsVerified THEN Advance ELSE Raise

AwsAudit == Provisioning(AwsGraphOrder, "audit") /\ AwsReconcileAll

\* A launch that CloudTrail shows to have been rejected, and that was looked
\* for in vain twice, is closed by hand.  The rest must be untouched.
AwsReconcileRejection ==
  /\ provider = "aws" /\ phase = "idle" /\ contract = "open"
  /\ \E r \in {"database", "loadgen"} :
       /\ status[r] = "create_ambiguous" /\ r \notin known \cup cloud
       /\ \A q \in AwsGraphKeys \ {r} : status[q] \in {"planned", "running"}
       /\ status' = [status EXCEPT ![r] = "deleted"]
  /\ UNCHANGED <<provider, phase, at, known, contract, world, load, pass, env>>

-------------------------------------------------------------------------------
(* destroy_distributed_deathstarbench_candidate                            *)

\* Mistake: the volume before the instance that it is attached to.
AwsGraphStepsVolumeFirst ==
  <<"load", "quiesce", "recover", "volume", "loadgen", "database", "nat", "group",
    "subnet", "igw", "vpc", "end">>

AwsGraphSteps ==
  <<"load", "quiesce", "recover", "loadgen", "database", "volume", "nat", "group",
    "subnet", "igw", "vpc", "end">>

\* _dsb_load
AwsLoadContract == LoadContract(AwsGraphSteps)

\* The load generator alone is verified before it is stopped; the rest of the graph
\* follows.
AwsQuiesce ==
  /\ Cleaning(AwsGraphSteps, "quiesce")
  /\ IF journal /\ status["loadgen"] \notin {"planned", "deleted"} /\ "loadgen" \in cloud
     THEN StopExact
     ELSE Skip

AwsRecoverGraph == Cleaning(AwsGraphSteps, "recover") /\ AwsReconcileAll

\* Intent, deletion, proof of absence, tombstone; the first error ends the pass.
AwsGraphDelete ==
  \E r \in AwsGraphKeys :
    LET parts == {r} \cup BootOf(r)
    IN /\ Cleaning(AwsGraphSteps, r)
       /\ UNCHANGED <<known, contract, pass>>
       /\ \/ /\ r \notin cloud
             /\ status' = [status EXCEPT ![r] = IF @ = "planned" THEN "deleted" ELSE @]
             /\ UNCHANGED <<world, load>>
             /\ Calmly
             /\ Advance
          \/ /\ r \in cloud /\ ~Held(r, AwsGraphHolds)
             /\ status' = [status EXCEPT ![r] = "deleted"]
             /\ Remove(parts)
             /\ Calmly
             /\ Advance
          \/ /\ r \in cloud /\ Held(r, AwsGraphHolds)
             /\ status' = [status EXCEPT ![r] = "delete_ambiguous"]
             /\ UNCHANGED <<world, load>>
             /\ Calmly
             /\ Raise
          \/ /\ r \in cloud
             /\ status' \in {[status EXCEPT ![r] = s] : s \in Leaving}
             /\ \/ UNCHANGED <<world, load>>
                \/ ~Held(r, AwsGraphHolds) /\ Remove(parts)
             /\ Fault
             /\ Raise

AwsGraphFinish ==
  /\ Cleaning(AwsGraphSteps, "end")
  /\ IF \A r \in AwsGraphKeys : status[r] = "deleted"
     THEN Finish /\ UNCHANGED plan
     ELSE Refuse

AwsGraphNext ==
  /\ provider = "aws"
  /\ \/ AwsContract \/ AwsEnsure \/ AwsAudit \/ Complete(AwsGraphOrder)
     \/ AwsLoadContract \/ AwsQuiesce \/ AwsRecoverGraph \/ AwsGraphDelete \/ AwsGraphFinish
===============================================================================
