-------------------------------- MODULE OciGraph --------------------------------
(***************************************************************************)
(* The distributed graph on OCI (app/providers/oci.py).  One gateway,      *)
(* route table, subnet and security group and two instances stand for all  *)
(* of their kind.                                                          *)
(*                                                                         *)
(* Creates are never repeated.  A resource without an identity is looked   *)
(* up by its exact name, in a list that may not show it yet.               *)
(***************************************************************************)
EXTENDS GraphCloud

OciGraphOrder ==
  <<"vcn", "gateway", "route", "subnet", "group", "volume", "database",
    "loadgen", "attachment">>

OciGraphKeys == {OciGraphOrder[i] : i \in 1..Len(OciGraphOrder)}

OciGraphHolds ==
  ({"gateway", "route", "subnet", "group"} \X {"vcn"})
    \cup ({"database", "loadgen"} \X {"subnet", "group"})
    \cup {<<"route", "gateway">>, <<"subnet", "route">>, <<"attachment", "volume">>}

-------------------------------------------------------------------------------
(* provision_distributed_deathstarbench_candidate                          *)

\* Entries with their specifications and retry tokens.
OciContract == SaveContract(OciGraphKeys)

OciSet(r, s) == status' = [status EXCEPT ![r] = s]

\* Mistake: takes any failure for a refusal.
OciDispatchAnyFailure(r) ==
  /\ status[r] = "planned"
  /\ \/ OciSet(r, "running") /\ Make({r} \cup BootOf(r)) /\ known' = known \cup {r}
        /\ Advance
     \/ /\ OciSet(r, "planned")
        /\ Make({r} \cup BootOf(r)) \/ UNCHANGED world
        /\ UNCHANGED known
        /\ Raise

OciDispatch(r) ==
  /\ status[r] = "planned"
  /\ \/ OciSet(r, "running") /\ Make({r} \cup BootOf(r)) /\ known' = known \cup {r}
        /\ Advance
     \* refused for certain
     \/ OciSet(r, "planned") /\ UNCHANGED <<known, world>> /\ Raise
     \* no answer, or the server died
     \/ /\ OciSet(r, "creating")
        /\ Make({r} \cup BootOf(r)) \/ UNCHANGED world
        /\ UNCHANGED known
        /\ Raise
     \* accepted, and the wait fails
     \/ OciSet(r, "creating") /\ Make({r} \cup BootOf(r)) /\ known' = known \cup {r}
        /\ Raise

\* The list shows a resource that exists, or not yet; then nothing is done.
OciRecoverOne(r) ==
  /\ status[r] = "creating"
  /\ \/ r \in cloud /\ OciSet(r, "running") /\ known' = known \cup {r} /\ Advance
     \/ UNCHANGED <<status, known>> /\ Raise
  /\ UNCHANGED world

OciEnsure ==
  \E r \in OciGraphKeys :
    /\ Provisioning(OciGraphOrder, r)
    /\ \/ r \notin known /\ (OciDispatch(r) \/ OciRecoverOne(r))
       \/ r \in known /\ OciSet(r, "running") /\ UNCHANGED <<known, world>> /\ Advance
    /\ UNCHANGED <<contract, load, pass>>
    /\ Calmly

-------------------------------------------------------------------------------
(* destroy_distributed_deathstarbench_candidate                            *)

\* Attestation comes last, also when an earlier pass has deleted everything.
OciGraphSteps ==
  <<"load", "quiesce", "recover", "verify", "attachment", "loadgen", "database",
    "volume", "group", "subnet", "route", "gateway", "vcn", "end", "attest">>

\* _load
OciLoadContract == LoadContract(OciGraphSteps)

\* The load generator is verified with its VNIC and boot volume before it is stopped.
\* An instance that has ended and is still shown lacks the attachments that
\* are asked for before its state is.
OciQuiesce ==
  /\ Cleaning(OciGraphSteps, "quiesce") /\ contract # "deleted"
  /\ IF ~journal \/ status["loadgen"] \in {"planned", "deleted"} \/ "loadgen" \notin known
     THEN Skip
     ELSE IF "loadgen" \in cloud THEN StopExact
     ELSE IF "loadgen" \in retained THEN Refuse ELSE Skip

OciAlreadyDeleted ==
  /\ Cleaning(OciGraphSteps, "quiesce") /\ contract = "deleted"
  /\ at' = Len(OciGraphSteps)
  /\ UNCHANGED <<provider, phase, plan, world, load, pass>>
  /\ Calmly

OciUnanswered == {r \in OciGraphKeys : status[r] = "creating" /\ r \notin known}

\* Each is saved, up to the first that is not seen.
OciRecoverGraph ==
  /\ Cleaning(OciGraphSteps, "recover")
  /\ \E seen \in SUBSET (OciUnanswered \cap cloud) :
       /\ known' = known \cup seen
       /\ Expect(seen = OciUnanswered \cap cloud)
       /\ IF seen = OciUnanswered THEN Advance ELSE Raise
  /\ UNCHANGED <<status, contract, world, load, pass>>

\* _implicit: what came with a network or an instance is all there is about it.
OciImplicitOnly == stranger = "none"

\* _verify_graph: nothing foreign, and nothing has gone that is not ours to
\* delete.  It is repeated before each deletion and within a pass nothing
\* changes its outcome.
OciVerify ==
  /\ Cleaning(OciGraphSteps, "verify")
  /\ IF /\ OciImplicitOnly
        /\ \A r \in known : r \in cloud \/ status[r] \in {"deleting", "deleted"}
     THEN contract' = "deleting" /\ Advance
     ELSE UNCHANGED contract /\ Raise
  /\ UNCHANGED <<status, known, world, load, pass>>
  /\ Calmly

\* Mistake: the tombstone of an instance does not wait for its boot volume.
OciDeleteInstanceOnly ==
  \E r \in OciGraphKeys :
    /\ Cleaning(OciGraphSteps, r)
    /\ UNCHANGED <<known, contract, pass>>
    /\ OciSet(r, "deleted")
    /\ Remove({r})
    /\ Calmly
    /\ Advance

\* Intent, deletion, wait, the boot volume, tombstone; an error ends the pass.
OciGraphDelete ==
  \E r \in OciGraphKeys :
    LET parts == {r} \cup BootOf(r)
    IN /\ Cleaning(OciGraphSteps, r)
       /\ UNCHANGED <<known, contract, pass>>
       /\ \/ /\ status[r] \in {"planned", "deleted"}
             /\ UNCHANGED <<status, world, load>>
             /\ Calmly
             /\ Advance
          \/ /\ status[r] \notin {"planned", "deleted"} /\ ~Held(r, OciGraphHolds)
             /\ OciSet(r, "deleted")
             /\ Remove(parts)
             /\ Calmly
             /\ Advance
          \/ /\ status[r] \notin {"planned", "deleted"} /\ Held(r, OciGraphHolds)
             /\ OciSet(r, "deleting")
             /\ UNCHANGED <<world, load>>
             /\ Calmly
             /\ Raise
          \/ /\ status[r] \notin {"planned", "deleted"}
             /\ OciSet(r, "deleting")
             /\ \/ UNCHANGED <<world, load>>
                \/ ~Held(r, OciGraphHolds) /\ Remove({r})
                \/ ~Held(r, OciGraphHolds) /\ Remove(parts)
             /\ Fault
             /\ Raise

OciGraphEnd ==
  /\ Cleaning(OciGraphSteps, "end")
  /\ contract' = "deleted"
  /\ UNCHANGED <<status, known, world, load, pass>>
  /\ Calmly
  /\ Advance

\* All that was ever created is asked for once more.
OciAttest ==
  /\ Cleaning(OciGraphSteps, "attest")
  /\ IF cloud = {} THEN Finish /\ UNCHANGED plan ELSE Refuse

OciGraphNext ==
  /\ provider = "oci"
  /\ \/ OciContract \/ OciEnsure \/ Complete(OciGraphOrder)
     \/ OciLoadContract \/ OciAlreadyDeleted \/ OciQuiesce \/ OciRecoverGraph \/ OciVerify
     \/ OciGraphDelete \/ OciGraphEnd \/ OciAttest
===============================================================================
