-------------------------------- MODULE GcpGraph --------------------------------
(***************************************************************************)
(* The distributed graph on GCP (app/providers/gcp.py).  One subnet, one   *)
(* firewall and two instances stand for all of their kind.                 *)
(*                                                                         *)
(* Names are fixed by the plan, and boot disks are on record of their own: *)
(* planned is a resource without a name on record, creating one that is    *)
(* announced, running one with its identity.                               *)
(***************************************************************************)
EXTENDS GraphCloud

GcpGraphOrder ==
  <<"network", "subnet", "router", "firewall", "disk", "database", "loadgen">>

GcpGraphBoots == {"databaseBoot", "loadgenBoot"}

GcpGraphKeys == {GcpGraphOrder[i] : i \in 1..Len(GcpGraphOrder)} \cup GcpGraphBoots

GcpGraphHolds ==
  ({"subnet", "router", "firewall", "database", "loadgen"} \X {"network"})
    \cup ({"router", "database", "loadgen"} \X {"subnet"})
    \cup {<<"database", "disk">>, <<"database", "databaseBoot">>,
          <<"loadgen", "loadgenBoot">>}

GcpSetAll(parts, s) ==
  status' = [r \in GcpGraphKeys |-> IF r \in parts THEN s ELSE status[r]]

-------------------------------------------------------------------------------
(* provision_distributed_deathstarbench_candidate                          *)

\* The names of all are on record before the first write.
GcpContract == SaveContract(GcpGraphKeys)

\* What has the name is this run's if it is what was asked for.
GcpAdopt(r) ==
  /\ r \in cloud
  /\ \/ GcpSetAll({r} \cup BootOf(r), "running") /\ Advance
     \/ GcpSetAll({r} \cup BootOf(r), "creating") /\ Raise
  /\ UNCHANGED world

\* A create of these parts with one answer, under the number of the first request
\* for it; a launch without an answer may leave the boot disk alone, and no other
\* then takes its place.
GcpGraphInsert(r) ==
  LET parts == {r} \cup BootOf(r)
      free == parts \cap cloud = {}
  IN \/ GcpAdopt(r)
     \/ free /\ GcpSetAll(parts, "running") /\ Put(parts) /\ Advance
     \* refused, or failed for certain and not found
     \/ r \notin cloud /\ GcpSetAll(parts, "planned") /\ UNCHANGED world /\ Raise
     \* no answer, refused although it was asked for before, or the server died
     \/ /\ r \notin cloud /\ GcpSetAll(parts, "creating")
        /\ \E made \in {{}, parts, BootOf(r)} : (free \/ made = {}) /\ Put(made)
        /\ Raise

\* _create_named_resource, of all but the router and the instances
GcpGraphCreate ==
  /\ \E r \in GcpGraphKeys \ {"router", "database", "loadgen"} :
       Provisioning(GcpGraphOrder, r) /\ GcpGraphInsert(r)
  /\ UNCHANGED <<known, contract, load, pass>>
  /\ Calmly

\* The router has its identity before address translation is added to it.
GcpGraphRouter ==
  /\ Provisioning(GcpGraphOrder, "router")
  /\ \/ GcpGraphInsert("router")
     \/ GcpSetAll({"router"}, "running") /\ Put({"router"}) /\ Raise
  /\ UNCHANGED <<known, contract, load, pass>>
  /\ Calmly

\* An instance and its boot disk are announced together and get their
\* identities, or are forgotten, one after the other.
GcpGraphLaunch ==
  /\ \E r \in {"database", "loadgen"} :
       LET parts == {r} \cup BootOf(r)
           half(a, b) ==
             status' = [q \in GcpGraphKeys |->
                          IF q = r THEN a ELSE IF q \in BootOf(r) THEN b ELSE status[q]]
       IN /\ Provisioning(GcpGraphOrder, r)
          /\ \/ GcpGraphInsert(r)
             \/ /\ r \in cloud \/ parts \cap cloud = {}
                /\ half("running", "creating") /\ Put(parts) /\ Raise
             \/ r \notin cloud /\ half("planned", "creating") /\ UNCHANGED world /\ Raise
  /\ UNCHANGED <<known, contract, load, pass>>
  /\ Calmly

-------------------------------------------------------------------------------
(* _destroy_distributed_deathstarbench_candidate                           *)

GcpGraphSteps ==
  <<"marker", "load", "quiesce", "survey", "loadgen", "database", "disk",
    "loadgenBoot", "databaseBoot", "firewall", "router", "subnet", "network",
    "sweep", "end">>

\* The terminal marker is all that is left of a graph that is gone.
GcpGraphMarker ==
  /\ Cleaning(GcpGraphSteps, "marker")
  /\ IF contract = "deleted" THEN Finish /\ UNCHANGED plan ELSE Skip

\* _load_distributed_cleanup_contract
GcpLoadContract == LoadContract(GcpGraphSteps)

\* Mistake: goes on when the load generator cannot be stopped.
GcpQuiesceOrNot ==
  /\ Cleaning(GcpGraphSteps, "quiesce")
  /\ IF journal /\ "loadgen" \in cloud
     THEN StopExact \/ (Fault /\ UNCHANGED <<plan, world, load, pass>> /\ Advance)
     ELSE Skip

\* Mistake: verifies the whole graph before the load is stopped.
GcpQuiesceVerifyingAll ==
  /\ Cleaning(GcpGraphSteps, "quiesce")
  /\ IF journal /\ "loadgen" \in cloud
     THEN IF stranger # "none" THEN Refuse ELSE Stop
     ELSE Skip

\* The load generator is verified before it is stopped, and it alone: what else is
\* wrong with the graph must not keep the load going.
GcpGraphQuiesce ==
  /\ Cleaning(GcpGraphSteps, "quiesce")
  /\ IF journal /\ "loadgen" \in cloud THEN StopExact ELSE Skip

\* Descriptions, labels and relations are those of this run, nothing of somebody
\* else is attached, and no disk is used by an instance that is not on record.
GcpVerified(seen) ==
  /\ stranger = "none"
  /\ \A r \in {"database", "loadgen"} :
       r \in cloud /\ BootOf(r) \cap seen # {} => status[r] # "planned"

\* The names on record are looked up, those that are missing repeatedly; what
\* has no identity may not be visible yet.  Nothing changes unless all are
\* accounted for and nothing is foreign; then identities are saved.
GcpGraphSurvey ==
  /\ Cleaning(GcpGraphSteps, "survey")
  /\ LET named == {r \in GcpGraphKeys : status[r] \in {"creating", "running"}}
         sure == {r \in named \cap cloud : status[r] = "running"}
     IN \E seen \in {s \in SUBSET (named \cap cloud) : sure \subseteq s} :
          /\ Expect(seen = named \cap cloud)
          /\ IF ~GcpVerified(seen) \/ \E r \in named \ seen : status[r] = "creating"
             THEN UNCHANGED <<status, found>> /\ Raise
             ELSE GcpSetAll(seen, "running") /\ found' = seen /\ Advance
  /\ UNCHANGED <<known, contract, world, load, failed>>

\* What was found is deleted, and an error does not keep the rest from it.  An
\* instance takes its boot disk along.
GcpGraphDelete ==
  \E r \in GcpGraphKeys :
    LET parts == {r} \cup BootOf(r)
    IN /\ Cleaning(GcpGraphSteps, r)
       /\ UNCHANGED <<plan, found>>
       /\ \/ /\ r \notin found \cap cloud
             /\ UNCHANGED <<world, load, failed>>
             /\ Calmly
          \/ /\ r \in found \cap cloud /\ ~Held(r, GcpGraphHolds)
             /\ Remove(parts)
             /\ UNCHANGED failed
             /\ Calmly
          \/ /\ r \in found \cap cloud /\ Held(r, GcpGraphHolds)
             /\ failed' = TRUE
             /\ UNCHANGED <<world, load>>
             /\ Calmly
          \/ /\ r \in found \cap cloud
             /\ failed' = TRUE
             /\ \/ UNCHANGED <<world, load>>
                \/ ~Held(r, GcpGraphHolds) /\ Remove(parts)
             /\ Fault
       /\ Advance

\* Every name of the plan must be free, on record or not; then the record is
\* replaced by the terminal marker in one save.
GcpGraphSweep ==
  /\ Cleaning(GcpGraphSteps, "sweep")
  /\ IF failed \/ cloud # {}
     THEN Refuse
     ELSE /\ GcpSetAll(GcpGraphKeys, "deleted") /\ contract' = "deleted"
          /\ UNCHANGED <<known, world, load, pass>>
          /\ Calmly
          /\ Advance

GcpGraphFinish == Cleaning(GcpGraphSteps, "end") /\ Finish /\ UNCHANGED plan

GcpGraphNext ==
  /\ provider = "gcp"
  /\ \/ GcpContract \/ GcpGraphCreate \/ GcpGraphRouter \/ GcpGraphLaunch \/ Complete(GcpGraphOrder)
     \/ GcpGraphMarker \/ GcpLoadContract \/ GcpGraphQuiesce \/ GcpGraphSurvey \/ GcpGraphDelete
     \/ GcpGraphSweep \/ GcpGraphFinish
===============================================================================
