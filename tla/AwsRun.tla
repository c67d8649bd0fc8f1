-------------------------------- MODULE AwsRun --------------------------------
(***************************************************************************)
(* A compact run on AWS (app/providers/aws.py): provision and              *)
(* destroy_resources.                                                      *)
(*                                                                         *)
(* A create can be found again in three ways: by an ambiguity flag and the *)
(* ownership tags (flagged), by a client token (launched, and the data     *)
(* volume and the route table, whose creates are repeated with the token), *)
(* or by the tags alone.                                                   *)
(***************************************************************************)
EXTENDS CompactCloud

AwsOrder ==
  <<"vpc", "gateway", "attachment", "subnet", "routeTable", "association",
    "group", "peerGroup", "peerRule", "loadgenGroup", "webRule", "keyPair",
    "volume", "instance", "peer", "loadgen", "mount">>

AwsWanted ==
  {"vpc", "gateway", "attachment", "subnet", "routeTable", "association",
   "group", "keyPair", "instance"}
    \cup (IF "volume" \in plan THEN {"volume", "mount"} ELSE {})
    \cup (IF "peer" \in plan THEN {"peerGroup", "peerRule", "peer"} ELSE {})
    \cup (IF "loadgen" \in plan THEN {"loadgenGroup", "webRule", "loadgen"} ELSE {})

AwsInstances == {"instance", "peer", "loadgen"}
AwsGroups == {"group", "peerGroup", "loadgenGroup"}
AwsChildren == {"subnet", "routeTable"} \cup AwsGroups

\* An ambiguity flag is saved before these are created.
AwsFlagged == {"vpc", "gateway", "routeTable", "loadgenGroup", "keyPair", "volume"}

\* These have no identity that is saved.
AwsLinks == {"attachment", "peerRule", "webRule", "mount"}

AwsHolds ==
  ((AwsChildren \cup {"attachment"}) \X {"vpc"})
    \cup (AwsInstances \X {"subnet", "attachment"})
    \cup {<<"attachment", "gateway">>, <<"association", "routeTable">>,
          <<"instance", "group">>, <<"peerRule", "group">>,
          <<"peer", "peerGroup">>, <<"loadgen", "loadgenGroup">>,
          <<"webRule", "loadgenGroup">>, <<"mount", "volume">>}

AwsCarries ==
  {<<"mount", "instance">>, <<"association", "subnet">>,
   <<"peerRule", "peerGroup">>, <<"webRule", "group">>}

-------------------------------------------------------------------------------
(* provision                                                               *)

\* What is saved before the create is announced.
AwsCreate(r, announced) ==
  /\ Provisioning(AwsOrder, r) /\ r \in AwsWanted
  /\ Accept({r}, {r} \ AwsLinks) \/ Lose(announced, {{}, {r}})

AwsCreateNetwork ==
  \E r \in {"vpc", "gateway", "attachment", "subnet", "routeTable", "association"} :
    AwsCreate(r, {r} \cap AwsFlagged)

AwsCreateGroups ==
  \E r \in AwsGroups \cup {"peerRule", "webRule"} : AwsCreate(r, {r} \cap AwsFlagged)

AwsCreateKeyPair == AwsCreate("keyPair", {"keyPair"})

AwsCreateVolume == AwsCreate("volume", {"volume"})

\* The token of a launch is saved first and stays.
AwsLaunch == \E r \in AwsInstances : AwsCreate(r, {r})

AwsAttachVolume == AwsCreate("mount", {})

\* A create that is refused for certain takes its flag back.
AwsReject ==
  \E r \in AwsWanted :
    Provisioning(AwsOrder, r) /\ Reject({r} \cap AwsInstances)

AwsProvision ==
  \/ AwsCreateNetwork \/ AwsCreateGroups \/ AwsCreateKeyPair \/ AwsCreateVolume
  \/ AwsLaunch \/ AwsAttachVolume \/ AwsReject
  \/ Omit(AwsOrder, AwsWanted)

-------------------------------------------------------------------------------
(* destroy_resources                                                       *)

AwsSteps ==
  <<"lookup", "replayTable", "replayVolume", "recover", "launches", "verify",
    "loadgen", "peer", "instance", "volume", "keyPair", "association", "subnet",
    "routeTable", "peerGroup", "group", "loadgenGroup", "detach", "gateway",
    "vpc", "closeContracts", "end">>

\* Tagged resources without a saved identity are looked up.  Whether a new one
\* is visible yet is open; one that may exist and is not seen is unresolved,
\* except where a replay follows.
AwsLookup ==
  /\ Cleaning(AwsSteps, "lookup")
  /\ LET there == (cloud \ ids) \cap (AwsFlagged \cup AwsChildren)
     IN \E seen \in SUBSET there :
          /\ Expect(seen = there)
          /\ found' = seen
          /\ unresolved' = unresolved \cup
               ((intent \ seen) \cap {"vpc", "gateway", "loadgenGroup", "keyPair"})
  /\ UNCHANGED <<ids, intent, cloud, failed>>
  /\ Advance

\* A route table that may exist is created again with the same token, which
\* gives the old one if there is one; it is remembered and not saved yet.
AwsReplayTable ==
  /\ Cleaning(AwsSteps, "replayTable")
  /\ LET possible == "vpc" \in (ids \cup found) \cap cloud
     IN \/ "routeTable" \notin intent \ found /\ Skip
        \/ /\ "routeTable" \in intent \ found /\ possible
           /\ found' = found \cup {"routeTable"}
           /\ cloud' = cloud \cup {"routeTable"}
           /\ UNCHANGED <<record, failed>>
           /\ Calmly
           /\ Advance
        \/ /\ "routeTable" \in intent \ found
           /\ Expect(~possible)
           /\ cloud' \in {cloud} \cup (IF possible THEN {cloud \cup {"routeTable"}} ELSE {})
           /\ unresolved' = unresolved \cup {"routeTable"}
           /\ UNCHANGED <<ids, intent, pass>>
           /\ Advance

\* The same for the volume, whose identity is saved at once.
AwsReplayVolume ==
  /\ Cleaning(AwsSteps, "replayVolume")
  /\ \/ "volume" \notin intent /\ Skip
     \/ /\ "volume" \in intent \cap found
        /\ unresolved' = unresolved \ {"volume"}
        /\ UNCHANGED <<ids, intent, cloud, pass>>
        /\ Calmly
        /\ Advance
     \/ /\ "volume" \in intent \ found
        /\ cloud' = cloud \cup {"volume"}
        /\ ids' = ids \cup {"volume"}
        /\ intent' = intent \ {"volume"}
        /\ unresolved' = unresolved \ {"volume"}
        /\ UNCHANGED pass
        /\ Calmly
        /\ Advance
     \/ /\ "volume" \in intent \ found
        /\ cloud' \in {cloud, cloud \cup {"volume"}}
        /\ unresolved' = unresolved \cup {"volume"}
        /\ UNCHANGED <<ids, intent, pass>>
        /\ Fault
        /\ Advance

\* Nothing is recovered that does not hang on the VPC of the run.
AwsFoundFits ==
  found \cap AwsChildren # {} \/ ("gateway" \in found /\ "attachment" \in cloud)
    => "vpc" \in ids \cup found

AwsRecover ==
  /\ Cleaning(AwsSteps, "recover")
  /\ \/ /\ AwsFoundFits
        /\ ids' = ids \cup found
        /\ intent' = intent \ found
        /\ unresolved' = unresolved \ found
        /\ UNCHANGED <<cloud, pass>>
        /\ Calmly
        /\ Advance
     \/ /\ ~AwsFoundFits
        /\ Calmly
        /\ Raise
        /\ UNCHANGED <<record, cloud, pass>>

\* Launches without an answer are looked for by their token.  A load generator
\* is taken over only when its whole launch contract is on record.
AwsLaunches ==
  /\ Cleaning(AwsSteps, "launches")
  /\ LET there == intent \cap AwsInstances \cap cloud
     IN \E seen \in SUBSET there :
          LET whole == "loadgen" \in seen => {"vpc", "subnet", "loadgenGroup"} \subseteq ids
              taken == IF whole THEN seen ELSE seen \ {"loadgen"}
          IN /\ Expect(seen = there)
             /\ ids' = ids \cup taken
             /\ intent' = intent \ taken
             /\ found' = seen
             /\ IF whole THEN Advance ELSE Raise
  /\ UNCHANGED <<unresolved, cloud, failed>>

\* _verify_cleanup_ownership, for the described resources in shown
AwsConsistent(shown) ==
  /\ "association" \in ids => "routeTable" \in ids
  /\ (shown \cap AwsInstances) \ found # {} => {"vpc", "subnet"} \subseteq ids
  /\ shown \cap AwsChildren # {} => "vpc" \in ids
  /\ "gateway" \in shown /\ "attachment" \in cloud => "vpc" \in ids
  /\ "routeTable" \in shown /\ "association" \in cloud => "subnet" \in ids

\* A terminated instance may still be described for a while, without a network.
AwsVerify ==
  /\ Cleaning(AwsSteps, "verify")
  /\ \/ /\ AwsConsistent(ids \cap cloud)
        /\ ids' = ids \cup (IF {"routeTable", "subnet"} \subseteq ids
                            THEN {"association"} \cap cloud ELSE {})
        /\ found' = {}
        /\ UNCHANGED <<intent, unresolved, cloud, failed>>
        /\ Calmly
        /\ Advance
     \/ /\ Expect(~AwsConsistent(ids \cap cloud))
        /\ ~AwsConsistent(ids \cap cloud) \/ (ids \cap AwsInstances) \ cloud # {}
        /\ Raise
        /\ UNCHANGED <<record, cloud, pass>>

AwsDelete(r) ==
  /\ Cleaning(AwsSteps, r)
  /\ IF r \in ids THEN Delete(r, AwsHolds, AwsCarries, {r}) ELSE Skip

\* An instance that ages out while its end is awaited is gone as well.
AwsTerminate == \E r \in AwsInstances : AwsDelete(r)

AwsDeleteParts ==
  \E r \in {"volume", "keyPair", "association", "gateway"} \cup AwsChildren : AwsDelete(r)

\* The gateway leaves the VPC; it is not deleted in this pass when that fails.
AwsDetach ==
  /\ Cleaning(AwsSteps, "detach")
  /\ IF {"gateway", "vpc"} \subseteq ids
     THEN \/ /\ ~Held("attachment", AwsHolds)
             /\ cloud' = cloud \ {"attachment"}
             /\ UNCHANGED <<record, pass>>
             /\ Calmly
             /\ Advance
          \/ /\ Refused("attachment", AwsHolds) \/ Errs("attachment", AwsHolds, {})
             /\ at' = at + 2
             /\ UNCHANGED <<provider, plan, phase>>
     ELSE Skip

\* The pass remembers that the VPC is gone.
AwsDeleteVpc ==
  /\ Cleaning(AwsSteps, "vpc")
  /\ IF "vpc" \in ids
     THEN \/ /\ ~Held("vpc", AwsHolds)
             /\ cloud' = Without("vpc", AwsCarries)
             /\ Forget({"vpc"})
             /\ found' = {"vpc"}
             /\ UNCHANGED failed
             /\ Calmly
             /\ Advance
          \/ /\ Refused("vpc", AwsHolds) \/ Errs("vpc", AwsHolds, AwsCarries)
             /\ Advance
     ELSE Skip

\* Mistake: closes the contracts and keeps what they left unresolved.
AwsCloseContractsOnly ==
  /\ Cleaning(AwsSteps, "closeContracts")
  /\ IF "vpc" \in found
     THEN /\ intent' = intent \ {"routeTable", "loadgenGroup"}
          /\ UNCHANGED <<ids, unresolved, cloud, pass>>
          /\ Calmly
          /\ Advance
     ELSE Skip

\* With the VPC gone, what could only exist inside it is ruled out.
AwsCloseContracts ==
  /\ Cleaning(AwsSteps, "closeContracts")
  /\ IF "vpc" \in found
     THEN /\ intent' = intent \ {"routeTable", "loadgenGroup"}
          /\ unresolved' = unresolved \ ({"routeTable", "loadgenGroup"} \cap intent)
          /\ UNCHANGED <<ids, cloud, pass>>
          /\ Calmly
          /\ Advance
     ELSE Skip

\* Mistake: forgets to look at what is unresolved.
AwsFinishUnresolved ==
  /\ Cleaning(AwsSteps, "end")
  /\ Finish(~failed)

AwsFinish ==
  /\ Cleaning(AwsSteps, "end")
  /\ Finish(~failed /\ unresolved = {})

AwsCleanup ==
  \/ AwsLookup \/ AwsReplayTable \/ AwsReplayVolume \/ AwsRecover
  \/ AwsLaunches \/ AwsVerify
  \/ AwsTerminate \/ AwsDeleteParts
  \/ AwsDetach \/ AwsDeleteVpc \/ AwsCloseContracts \/ AwsFinish

AwsNext ==
  /\ provider = "aws" /\ UNCHANGED foreign
  /\ AwsProvision \/ AwsCleanup
===============================================================================
