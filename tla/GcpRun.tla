-------------------------------- MODULE GcpRun --------------------------------
(***************************************************************************)
(* A compact run on GCP (app/providers/gcp.py): provision and              *)
(* destroy_resources.                                                      *)
(*                                                                         *)
(* Every name and request ID is saved before the create, and a create with *)
(* an unknown outcome is repeated with its request ID.  Instances cannot be*)
(* repeated, their SSH keys are not saved; they are ruled out by the       *)
(* absence of the network.  A boot disk comes with its instance and goes   *)
(* with it, but can also be left behind by a launch.                       *)
(***************************************************************************)
EXTENDS CompactCloud

GcpOrder ==
  <<"network", "subnet", "sshFirewall", "iperfFirewall", "webFirewall",
    "dataDisk", "runner", "loadgen", "peer">>

GcpWanted ==
  {"network", "subnet", "sshFirewall", "runner"}
    \cup (IF "volume" \in plan THEN {"dataDisk"} ELSE {})
    \cup (IF "peer" \in plan THEN {"iperfFirewall", "peer"} ELSE {})
    \cup (IF "loadgen" \in plan THEN {"webFirewall", "loadgen"} ELSE {})

GcpInstances == {"runner", "loadgen", "peer"}
GcpBoots == {"runnerBoot", "loadgenBoot", "peerBoot"}
GcpFirewalls == {"sshFirewall", "iperfFirewall", "webFirewall"}

\* The boot disk of an instance.
GcpBootOf(r) ==
  CASE r = "runner" -> {"runnerBoot"} [] r = "loadgen" -> {"loadgenBoot"}
    [] r = "peer" -> {"peerBoot"} [] OTHER -> {}

\* Resources whose create can be repeated, in this order.
GcpReplayed == {"network", "subnet", "dataDisk"} \cup GcpFirewalls

GcpAttached == {<<"runner", "runnerBoot">>, <<"loadgen", "loadgenBoot">>,
                <<"peer", "peerBoot">>}

GcpHolds ==
  (({"subnet"} \cup GcpFirewalls) \X {"network"})
    \cup (GcpInstances \X {"subnet"})
    \cup GcpAttached \cup {<<"runner", "dataDisk">>}

\* Boot disks are deleted with their instance.
GcpCarries == {<<pair[2], pair[1]>> : pair \in GcpAttached}

-------------------------------------------------------------------------------
(* provision                                                               *)

\* _create_named_resource.  An answer "already exists" is followed up and ends
\* like a success; a failed operation leaves nothing, like a rejection.
GcpCreate(r, parts, effects) ==
  /\ Provisioning(GcpOrder, r) /\ r \in GcpWanted
  /\ Accept(parts, parts) \/ Reject({}) \/ Lose(parts, effects)

GcpCreateNetwork ==
  \E r \in {"network", "subnet"} \cup GcpFirewalls : GcpCreate(r, {r}, {{}, {r}})

GcpCreateDataDisk == GcpCreate("dataDisk", {"dataDisk"}, {{}, {"dataDisk"}})

\* A launch that fails may leave its boot disk.
GcpLaunch ==
  \E r \in GcpInstances :
    LET parts == {r} \cup GcpBootOf(r)
    IN GcpCreate(r, parts, {{}, parts, GcpBootOf(r)})

\* The identity of the boot disk is captured after that of its instance.
GcpCaptureFails ==
  \E r \in GcpInstances \cap GcpWanted :
    /\ Provisioning(GcpOrder, r)
    /\ cloud' = cloud \cup {r} \cup GcpBootOf(r)
    /\ ids' = ids \cup {r}
    /\ intent' = intent \cup GcpBootOf(r)
    /\ UNCHANGED <<unresolved, pass>>
    /\ Calmly
    /\ Raise

GcpProvision ==
  \/ GcpCreateNetwork \/ GcpCreateDataDisk \/ GcpLaunch \/ GcpCaptureFails
  \/ Omit(GcpOrder, GcpWanted)

-------------------------------------------------------------------------------
(* destroy_resources                                                       *)

GcpSteps ==
  <<<<"all", "survey">>,
    <<"replay", "network">>, <<"replay", "subnet">>, <<"replay", "sshFirewall">>,
    <<"replay", "iperfFirewall">>, <<"replay", "webFirewall">>, <<"replay", "dataDisk">>,
    <<"all", "noteLaunches">>,
    <<"delete", "loadgen">>, <<"delete", "peer">>, <<"delete", "runner">>,
    <<"delete", "dataDisk">>, <<"delete", "loadgenBoot">>, <<"delete", "peerBoot">>,
    <<"delete", "runnerBoot">>, <<"delete", "webFirewall">>,
    <<"delete", "iperfFirewall">>, <<"delete", "sshFirewall">>,
    <<"delete", "subnet">>, <<"delete", "network">>,
    <<"all", "closeContracts">>,
    <<"sweep", "loadgenBoot">>, <<"sweep", "peerBoot">>, <<"sweep", "runnerBoot">>,
    <<"all", "end">>>>

\* Mistake: whatever has the name is taken for what was created.
GcpIdentifiedByName(r) == TRUE

\* What has the name of r has its saved identity, and the description and labels
\* of this run.
GcpIdentified(r) == r \notin foreign

\* It is placed and attached as it was created; in particular an instance has
\* exactly its own disks, which go with it.
GcpRelated(r) == r = "runner" => "attachedDisk" \notin foreign

\* _verify_cleanup_resources
GcpVerified(seen) == \A r \in seen : GcpIdentified(r) /\ GcpRelated(r)

\* _get_cleanup_resource, _bounded_cleanup_lookup: a resource with a saved identity
\* is seen if it exists; another may not be visible yet.
GcpLookups == {(cloud \cap ids) \cup seen : seen \in SUBSET (cloud \cap intent)}

\* Whatever is on record is looked at before anything is changed.
GcpSurvey ==
  /\ Cleaning(GcpSteps, <<"all", "survey">>)
  /\ UNCHANGED <<cloud, failed>>
  /\ \/ /\ GcpVerified((ids \cup intent) \cap (cloud \cup foreign))
        /\ \E seen \in GcpLookups :
             /\ Expect(seen = cloud \cap (ids \cup intent))
             /\ found' = seen
             /\ ids' = ids \cup seen
             /\ intent' = intent \ seen
             /\ unresolved' = unresolved \ seen
        /\ Advance
     \/ /\ ~GcpVerified((ids \cup intent) \cap (cloud \cup foreign))
        /\ UNCHANGED <<record, found>>
        /\ Calmly
        /\ Raise

\* _replay_ambiguous_create
GcpReplay(r) ==
  /\ Cleaning(GcpSteps, <<"replay", r>>)
  /\ LET possible == r \in {"network", "dataDisk"} \/ "network" \in ids \cap cloud
     IN \/ r \notin intent /\ Skip
        \/ /\ r \in intent /\ possible /\ GcpIdentified(r)
           /\ cloud' = cloud \cup {r}
           /\ found' = found \cup {r}
           /\ ids' = ids \cup {r}
           /\ intent' = intent \ {r}
           /\ unresolved' = unresolved \ {r}
           /\ UNCHANGED failed
           /\ Calmly
           /\ Advance
        \/ \* the operation fails for certain and nothing of that name exists
           /\ r \in intent \ (cloud \cup foreign) /\ possible
           /\ Forget({r})
           /\ UNCHANGED <<cloud, pass>>
           /\ Fault
           /\ Advance
        \/ /\ r \in intent
           /\ Expect(~possible \/ r \in foreign)
           /\ cloud' \in {cloud} \cup
                (IF possible /\ r \notin foreign THEN {cloud \cup {r}} ELSE {})
           /\ unresolved' = unresolved \cup {r}
           /\ UNCHANGED <<ids, intent, pass>>
           /\ Advance

GcpNoteLaunches ==
  /\ Cleaning(GcpSteps, <<"all", "noteLaunches">>)
  /\ unresolved' = unresolved \cup (intent \cap GcpInstances)
  /\ UNCHANGED <<ids, intent, cloud, pass>>
  /\ Calmly
  /\ Advance

\* Mistake: a resource with an identity that is not seen is left on record.
GcpDeleteSeen(r) ==
  /\ Cleaning(GcpSteps, <<"delete", r>>)
  /\ UNCHANGED foreign
  /\ IF r \in ids \cap found
     THEN Delete(r, GcpHolds, GcpCarries, {r})
     ELSE Skip

\* What is not what it was is left alone, and its record is kept.
GcpLeft(r) ==
  /\ failed' = TRUE
  /\ UNCHANGED <<record, cloud, foreign, found>>
  /\ Calmly

\* A deletion goes by the name alone.
GcpTaken(r) == foreign \ ({r} \cup IF r = "runner" THEN {"attachedDisk"} ELSE {})

\* Only a resource that the survey has seen is deleted, and only after it was read
\* and verified once more.  One with an identity that was not seen is gone.
GcpDelete(r) ==
  /\ Cleaning(GcpSteps, <<"delete", r>>)
  /\ Advance
  /\ LET proof == IF r = "network" THEN {"networkGone"} ELSE {}
         there == r \in found \cap (cloud \cup foreign)
     IN \/ r \notin ids /\ UNCHANGED <<record, cloud, foreign, pass>> /\ Calmly
        \/ /\ r \in ids
           /\ there => GcpVerified({r}) /\ ~Held(r, GcpHolds)
           /\ cloud' = Without(r, GcpCarries)
           /\ foreign' = IF there THEN GcpTaken(r) ELSE foreign
           /\ ids' = (ids \ {r}) \cup proof
           /\ unresolved' = unresolved \ {r}
           /\ UNCHANGED <<intent, pass>>
           /\ Calmly
        \/ r \in ids /\ there /\ ~GcpVerified({r}) /\ GcpLeft(r)
        \/ /\ r \in ids \cap cloud /\ there /\ GcpVerified({r})
           /\ UNCHANGED foreign
           /\ Refused(r, GcpHolds) \/ Errs(r, GcpHolds, GcpCarries)

\* Mistake: closes the contracts of the boot disks together with their instances.
GcpCloseAllContracts ==
  /\ Cleaning(GcpSteps, <<"all", "closeContracts">>)
  /\ IF "networkGone" \in ids
     THEN /\ Forget(({"subnet"} \cup GcpInstances \cup GcpFirewalls \cup GcpBoots) \ found)
          /\ UNCHANGED <<cloud, pass>>
          /\ Calmly
          /\ Advance
     ELSE Skip

\* What lives in the network cannot exist without it.
GcpCloseContracts ==
  /\ Cleaning(GcpSteps, <<"all", "closeContracts">>)
  /\ IF "networkGone" \in ids
     THEN /\ Forget(({"subnet"} \cup GcpInstances \cup GcpFirewalls) \ found)
          /\ UNCHANGED <<cloud, pass>>
          /\ Calmly
          /\ Advance
     ELSE Skip

\* Boot disks that were left behind: with all instances gone, a repeated look
\* at the exact name decides whether there is one.
GcpSweep(r) ==
  /\ Cleaning(GcpSteps, <<"sweep", r>>)
  /\ IF "networkGone" \in ids /\ r \in ids \cup intent
     THEN IF GcpVerified({r})
          THEN UNCHANGED foreign /\ Delete(r, GcpHolds, GcpCarries, {r})
          ELSE GcpLeft(r) /\ Advance
     ELSE UNCHANGED foreign /\ Skip

GcpFinish ==
  /\ Cleaning(GcpSteps, <<"all", "end">>)
  /\ Finish(~failed /\ unresolved = {} /\ ids \subseteq Facts /\ intent = {})

GcpCleanup ==
  \/ /\ UNCHANGED foreign
     /\ \/ GcpSurvey \/ GcpNoteLaunches \/ GcpCloseContracts \/ GcpFinish
        \/ \E r \in GcpReplayed : GcpReplay(r)
  \/ \E r \in GcpReplayed \cup GcpInstances \cup GcpBoots : GcpDelete(r)
  \/ \E r \in GcpBoots : GcpSweep(r)

GcpNext ==
  /\ provider = "gcp"
  /\ (GcpProvision /\ UNCHANGED foreign) \/ GcpCleanup

\* Somebody takes a name that is on record, or attaches a disk to an instance.
GcpOthers ==
  /\ provider = "gcp"
  /\ \/ \E r \in GcpReplayed \cup GcpInstances \cup GcpBoots :
          Replace(r, GcpHolds, GcpCarries)
     \/ "runner" \in cloud /\ Intrude({"attachedDisk"}) /\ UNCHANGED cloud
===============================================================================
