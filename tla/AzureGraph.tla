------------------------------- MODULE AzureGraph -------------------------------
(***************************************************************************)
(* The distributed graph on Azure (app/providers/azure.py).                *)
(*                                                                         *)
(* All names are on record before the first create, and all resources live *)
(* in one group that is deleted as a whole.                                *)
(***************************************************************************)
EXTENDS GraphCloud

AzureNodes == <<"database", "loadgen">>

AzureGraphOrder ==
  <<"group", "nsg", "network", "natAddress", "nat", "subnet", "disk", "database",
    "loadgen">>

AzureGraphKeys == {AzureGraphOrder[i] : i \in 1..Len(AzureGraphOrder)}

\* Names, and the identities that follow from them.
AzureContract == SaveContract(AzureGraphKeys)

\* What is there by its name is adopted; a create of what is there changes
\* nothing.  A launch without an answer may leave the system disk alone.
AzurePut(r) ==
  LET parts == {r} \cup BootOf(r)
  IN /\ UNCHANGED <<known, contract, load, pass>> /\ Calmly
     /\ \/ status' = [status EXCEPT ![r] = "running"] /\ Put(parts) /\ Advance
        \/ /\ status' = [status EXCEPT ![r] = "creating"]
           /\ \E made \in {{}, parts, BootOf(r)} : Put(made)
           /\ Raise

\* _ensure_group
AzureGroup == Provisioning(AzureGraphOrder, "group") /\ AzurePut("group")

\* _ensure_child
AzureChild ==
  \E r \in {"nsg", "network", "natAddress", "nat"} :
    Provisioning(AzureGraphOrder, r) /\ AzurePut(r)

AzureSubnet == Provisioning(AzureGraphOrder, "subnet") /\ AzurePut("subnet")

AzureDataDisk == Provisioning(AzureGraphOrder, "disk") /\ AzurePut("disk")

\* _create_vm_role_resources
AzureLaunch ==
  \E r \in {AzureNodes[i] : i \in 1..Len(AzureNodes)} :
    Provisioning(AzureGraphOrder, r) /\ AzurePut(r)

-------------------------------------------------------------------------------
(* destroy_resources                                                       *)

AzureGraphSteps ==
  <<"load", "find", "deallocate", "inventory", "delete", "clear", "end">>

\* _load_topology_inventory_contract
AzureLoadContract == LoadContract(AzureGraphSteps)

\* The terminal marker is all that is left of a graph that is gone; a group
\* that is repeatedly not found is gone as well.  The tags of a group that is
\* found must be those it was given.
AzureFind ==
  /\ Cleaning(AzureGraphSteps, "find")
  /\ IF contract = "deleted" THEN Finish /\ UNCHANGED plan
     ELSE IF stranger = "group" /\ "group" \in cloud THEN Refuse
     ELSE Skip

\* A load generator with other tags of ownership ends the pass; a failure to stop the
\* load does not.
AzureDeallocate ==
  /\ Cleaning(AzureGraphSteps, "deallocate")
  /\ IF ~(journal /\ "loadgen" \in cloud) THEN Skip
     ELSE IF stranger = "loadgen" THEN Refuse
     ELSE /\ \/ traffic' = FALSE /\ Calmly
             \/ UNCHANGED traffic /\ Fault
          /\ UNCHANGED <<plan, world, journal, pass>>
          /\ Advance

\* The identities that the contract allows this run to own.
AzureAllowed == UNION {{r} \cup BootOf(r) : r \in AzureGraphKeys}

\* The group holds nothing else, and all that it holds is tagged as this run's.
AzureGraphInventory ==
  /\ Cleaning(AzureGraphSteps, "inventory")
  /\ LET members == cloud \cup IF stranger # "none" THEN {"foreign"} ELSE {}
     IN IF "group" \in cloud /\ ~(members \subseteq AzureAllowed) THEN Refuse ELSE Skip

\* The whole group; a deletion that fails may have emptied it.
AzureGraphDelete ==
  /\ Cleaning(AzureGraphSteps, "delete")
  /\ UNCHANGED <<plan, pass>>
  /\ \/ Remove(cloud) /\ Calmly /\ Advance
     \/ /\ "group" \in cloud
        /\ \/ UNCHANGED <<world, load>>
           \/ \E left \in {{}, {"group"}} : Remove(cloud \ left)
        /\ Fault
        /\ Raise

\* Mistake: clears only what is still there.
AzureClearThere ==
  /\ Cleaning(AzureGraphSteps, "clear")
  /\ status' = [r \in AzureGraphKeys \cap cloud |-> "deleted"] /\ contract' = "deleted"
  /\ UNCHANGED <<known, world, load, pass>>
  /\ Calmly
  /\ Advance

\* The record is replaced by the terminal marker in one save.
AzureGraphClear ==
  /\ Cleaning(AzureGraphSteps, "clear")
  /\ status' = [r \in AzureGraphKeys |-> "deleted"] /\ contract' = "deleted"
  /\ UNCHANGED <<known, world, load, pass>>
  /\ Calmly
  /\ Advance

AzureGraphFinish == Cleaning(AzureGraphSteps, "end") /\ Finish /\ UNCHANGED plan

AzureGraphNext ==
  /\ provider = "azure"
  /\ \/ AzureContract \/ AzureGroup \/ AzureChild \/ AzureSubnet \/ AzureDataDisk
     \/ AzureLaunch \/ Complete(AzureGraphOrder)
     \/ AzureLoadContract \/ AzureFind \/ AzureDeallocate \/ AzureGraphInventory \/ AzureGraphDelete
     \/ AzureGraphClear \/ AzureGraphFinish
===============================================================================
