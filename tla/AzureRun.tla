------------------------------- MODULE AzureRun -------------------------------
(***************************************************************************)
(* A compact run on Azure (app/providers/azure.py): provision and          *)
(* destroy_resources, for benchmarks other than DeathStarBench.            *)
(*                                                                         *)
(* Everything lives in one resource group, which is deleted as a whole, and*)
(* only when all it holds at its top level is on record.  The settings of  *)
(* the run are saved before the name of the group.                         *)
(***************************************************************************)
EXTENDS CompactCloud

AzureOrder ==
  <<"context", "group", "nsg", "vnet", "subnet", "dataDisk",
    "runnerIp", "runnerNic", "runner", "loadgenIp", "loadgenNic", "loadgen",
    "peerIp", "peerNic", "peer">>

AzureWanted ==
  {"context", "group", "nsg", "vnet", "subnet", "runnerIp", "runnerNic", "runner"}
    \cup (IF "volume" \in plan THEN {"dataDisk"} ELSE {})
    \cup (IF "peer" \in plan THEN {"peerIp", "peerNic", "peer"} ELSE {})
    \cup (IF "loadgen" \in plan THEN {"loadgenIp", "loadgenNic", "loadgen"} ELSE {})

\* The managed disk that comes with a virtual machine.
AzureDiskOf(r) ==
  CASE r = "runner" -> {"runnerDisk"} [] r = "loadgen" -> {"loadgenDisk"}
    [] r = "peer" -> {"peerDisk"} [] OTHER -> {}

\* A subnet is part of its network and not listed in the group.
AzureListed == cloud \ {"group", "subnet"}

-------------------------------------------------------------------------------
(* provision                                                               *)

AzureContext ==
  /\ Provisioning(AzureOrder, "context")
  /\ ids' = ids \cup {"context"}
  /\ UNCHANGED <<intent, unresolved, cloud, pass>>
  /\ Calmly
  /\ Advance

\* A create that fails is looked up; what is there is adopted, which is the
\* first case.  A rejected create keeps its contract.
AzureCreate(r, parts, effects) ==
  /\ Provisioning(AzureOrder, r) /\ r \in AzureWanted
  /\ Accept(parts, parts) \/ Lose(parts, effects)

AzureEnsureGroup == AzureCreate("group", {"group"}, {{}, {"group"}})

AzureEnsureChild ==
  \E r \in {"nsg", "vnet", "dataDisk", "runnerIp", "runnerNic", "loadgenIp",
            "loadgenNic", "peerIp", "peerNic"} : AzureCreate(r, {r}, {{}, {r}})

AzureEnsureSubnet == AzureCreate("subnet", {"subnet"}, {{}, {"subnet"}})

\* A machine that fails may leave its disk.
AzureCreateVm ==
  \E r \in {"runner", "loadgen", "peer"} :
    LET parts == {r} \cup AzureDiskOf(r)
    IN AzureCreate(r, parts, {{}, parts, AzureDiskOf(r)})

AzureProvision ==
  \/ AzureContext \/ AzureEnsureGroup \/ AzureEnsureChild \/ AzureEnsureSubnet
  \/ AzureCreateVm
  \/ Omit(AzureOrder, AzureWanted)

-------------------------------------------------------------------------------
(* destroy_resources                                                       *)

AzureSteps == <<"anchor", "inventory", "delete", "clear", "end">>

\* Without the name of a group there must be nothing else on record.
AzureAnchor ==
  /\ Cleaning(AzureSteps, "anchor")
  /\ LET known == ids \cup intent
     IN \/ "group" \in known /\ Skip
        \/ /\ known = {}
           /\ at' = 5
           /\ UNCHANGED <<provider, plan, phase, record, cloud, pass>>
           /\ Calmly
        \/ /\ "group" \notin known /\ known # {}
           /\ Raise
           /\ UNCHANGED <<record, cloud, pass>>
           /\ Calmly

\* _verify_group: it has the identity and the tags of this run.
AzureGroupIsOurs == "group" \notin foreign

\* Mistake: looks only for what is on record.
AzureListsOwn == TRUE

\* Nothing may be listed in the group that is not on record; this is the last
\* read before the deletion.
AzureListsOnlyOwn == (AzureListed \cup foreign) \subseteq ids \cup intent

\* A group is absent when it was not found several times; that is taken to be
\* conclusive.
AzureInventory ==
  /\ Cleaning(AzureSteps, "inventory")
  /\ UNCHANGED <<record, cloud, failed>>
  /\ Calmly
  /\ found' = {"group"} \cap (cloud \cup foreign)
  /\ IF found' = {} \/ (AzureGroupIsOurs /\ AzureListsOnlyOwn) THEN Advance ELSE Raise

\* Mistake: a group that is being deleted counts as deleted.
AzureDeleteAccepted ==
  /\ Cleaning(AzureSteps, "delete")
  /\ UNCHANGED <<record, foreign, pass>>
  /\ Calmly
  /\ Advance
  /\ cloud' \in {{}, cloud}

\* A deletion that failed has still succeeded when the group is absent.  It takes
\* along whatever is in the group.
AzureDelete ==
  /\ Cleaning(AzureSteps, "delete")
  /\ \/ found = {} /\ Skip /\ UNCHANGED foreign
     \/ /\ found # {}
        /\ cloud' = {} /\ foreign' = {}
        /\ UNCHANGED <<record, pass>>
        /\ Calmly
        /\ Advance
     \/ /\ found # {}
        /\ cloud' \in {cloud, cloud \cap {"group"}}
        /\ UNCHANGED <<record, foreign, pass>>
        /\ Fault
        /\ Raise

\* All contracts are dropped in one save.
AzureClear ==
  /\ Cleaning(AzureSteps, "clear")
  /\ Forget(ids \cup intent \cup unresolved)
  /\ UNCHANGED <<cloud, pass>>
  /\ Calmly
  /\ Advance

AzureFinish ==
  /\ Cleaning(AzureSteps, "end")
  /\ Finish(TRUE)

AzureCleanup ==
  \/ UNCHANGED foreign /\ (AzureAnchor \/ AzureInventory \/ AzureClear \/ AzureFinish)
  \/ AzureDelete

AzureNext ==
  /\ provider = "azure"
  /\ (AzureProvision /\ UNCHANGED foreign) \/ AzureCleanup

\* Before the last read: somebody puts a resource into the group, or a group of
\* that name in its place.
AzureOthers ==
  /\ provider = "azure" /\ at <= 2
  /\ \/ "group" \in cloud /\ Intrude({"guest"}) /\ UNCHANGED cloud
     \/ /\ "group" \in ids \cup intent
        /\ cloud' = {}
        /\ Intrude({"group"})
===============================================================================
