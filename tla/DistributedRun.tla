----------------------------- MODULE DistributedRun -----------------------------
(***************************************************************************)
(* A distributed run with any of the four providers: the plan is saved     *)
(* first, resources are created one by one, provisioning may be asked for  *)
(* again, load may run, and cleanup is repeated until the run is destroyed.*)
(***************************************************************************)
EXTENDS AwsGraph, OciGraph, GcpGraph, AzureGraph

CONSTANT Providers   \* the providers that runs can ask for

ASSUME ProvidersKnown == Providers \subseteq {"aws", "gcp", "azure", "oci"}
ASSUME MaxFaultsNat == MaxFaults \in Nat

\* What the plan on record speaks of.
Keys == DOMAIN status

Init == provider \in Providers /\ Begin

Graph == AwsGraphNext \/ OciGraphNext \/ GcpGraphNext \/ AzureGraphNext

Next ==
  \/ Graph
  \/ Cease \/ Measure \/ Resume(Providers)
  \/ BeginCleanup \/ Abort
  \/ AwsReconcileRejection
  \/ Restart \/ Damage \/ Intrude \/ Leave \/ Drop

Spec == Init /\ [][Next]_vars

\* A pass that was begun goes on, provisioning ends, after a pass that failed
\* somebody asks for another one, and OCI forgets what has ended.
FairSpec ==
  /\ Spec
  /\ WF_vars(Graph /\ phase = "cleanup")
  /\ WF_vars(Cease)
  /\ WF_vars(BeginCleanup)
  /\ WF_vars(Drop)

-------------------------------------------------------------------------------
(* What the properties speak of.                                           *)

\* What leads from the plan to a resource: its own entry, or that of its
\* instance; on Azure also that of the group, until it is cleared, and on GCP the
\* name of a boot disk.  What a record led to that was truncated is out of the
\* program's hands.
Traced ==
  LET entered == {r \in Keys : status[r] \notin {"planned", "deleted"}}
      all == UNION {{r} \cup BootOf(r) : r \in Keys}
  IN IF contract = "truncated" THEN cloud
     ELSE CASE provider = "azure" /\ "group" \in entered -> all
            [] provider = "gcp" -> entered \cup (Keys \cap GcpGraphBoots)
            [] OTHER -> UNION {{r} \cup BootOf(r) : r \in entered}

\* Asked for, without an identity, and not there: it cannot be told from a
\* create that is still on its way.
Unanswerable ==
  IF provider = "azure" THEN {}
  ELSE {r \in Keys \ (known \cup cloud) : status[r] \in Unanswered}

\* A record of which the program can be sure.
Readable == contract \notin {"empty", "truncated", "damaged"}

\* GCP: a boot disk is left that is no longer on record, since its instance could
\* not be created; it is found by its name, and not deleted.
Forgotten == provider = "gcp" /\ \E b \in GcpGraphBoots \cap cloud : status[b] = "planned"

\* OCI: the load generator has ended in an earlier pass, load was started, and
\* the record of the instance is still shown.
EndedInView ==
  provider = "oci" /\ journal /\ retained # {} /\ status["loadgen"] = "deleting"

-------------------------------------------------------------------------------
(* Properties.                                                             *)

TypeOK ==
  /\ provider \in Providers
  /\ phase \in Phase
  /\ \A r \in Keys : status[r] \in Status
  /\ contract \in Contract
  /\ known \subseteq Keys
  /\ faults \in 0..MaxFaults
  /\ stranger \in Strange
  /\ {journal, traffic, failed, calm} \subseteq BOOLEAN

\* A tombstone is never written over something that exists, with its boot
\* disk, and a destroyed run has left nothing, although an empty record may be
\* one that was truncated.
TombstonesAreTrue ==
  /\ \A r \in Keys : status[r] = "deleted" => cloud \cap ({r} \cup BootOf(r)) = {}
  /\ phase = "destroyed" => cloud = {}

\* Nothing is created a second time, whatever answers were lost, whatever
\* lookups did not show and however often provisioning is asked for.
CreatedOnce == twice = {}

\* A pass deletes nothing while something foreign is attached anywhere in the
\* graph, while it is open whether a create took effect, or on the authority of
\* a record that does not fit together.
AllIsKnownBeforeAnyDeletion ==
  [][phase = "cleanup" /\ cloud' # cloud =>
       /\ stranger = "none" /\ Readable
       /\ provider # "azure" => \A r \in Keys \ known : status[r] \notin Unanswered]_vars

\* Load does not run on while the system under it is taken apart, nor after a
\* pass that was refused, without a failure, for anything that is wrong with the
\* rest of the graph.  What is damaged or changed itself is not touched: the
\* record, the load generator, and on Azure its group.
TrafficStopsFirst ==
  [][phase = "cleanup" =>
       /\ cloud' # cloud => ~traffic'
       /\ phase' = "idle" /\ calm' /\ Readable /\ stranger \notin Guards => ~traffic']_vars

\* A pass without a failure of the environment destroys the run, whatever
\* earlier passes have left, except for what is known to refuse it.
CalmPassFinishes ==
  [][phase = "cleanup" /\ phase' = "idle" /\ calm' =>
       stranger # "none" \/ ~Readable \/ Forgotten \/ Unanswerable # {} \/ EndedInView]_vars

C == INSTANCE Custody WITH
       exists <- cloud, traced <- Traced, finished <- phase = "destroyed"

\* The graphs implement Custody.
ImplementsCustody == C!Spec

\* Under failures that come to an end, repeated passes destroy the run unless
\* something foreign stays, a create remains unanswered, a boot disk was
\* forgotten, or the record is not to be trusted.
CleanupConverges ==
  <>[](stranger = "none" /\ Readable /\ ~Forgotten /\ Unanswerable = {}) =>
    <>(phase = "destroyed")

\* "test_delete_response_loss_resumes_without_losing_inventory"
\* (tests/test_oci_deathstarbench_lifecycle.py:712): a pass that was cut short
\* can be taken up by the next one, also while ended instances are shown.
DeletionResumes ==
  [][phase = "cleanup" /\ phase' = "idle" /\ calm' =>
       stranger # "none" \/ ~Readable \/ Unanswerable # {}]_vars
===============================================================================
