------------------------------ MODULE CompactRun ------------------------------
(***************************************************************************)
(* A compact run with any of the four providers: provision and             *)
(* destroy_resources of app/main.py choose among them by the plan.         *)
(***************************************************************************)
EXTENDS AwsRun, GcpRun, AzureRun, OciRun

CONSTANT Providers   \* the providers that runs can ask for

ASSUME ProvidersKnown == Providers \subseteq {"aws", "gcp", "azure", "oci"}
ASSUME MaxFaultsNat == MaxFaults \in Nat

Init == Start(Providers)

Provider == AwsNext \/ GcpNext \/ AzureNext \/ OciNext

Next == Provider \/ Cease \/ BeginCleanup \/ Abort \/ GcpOthers \/ AzureOthers \/ Leave

Spec == Init /\ [][Next]_vars

\* A pass that was begun goes on, provisioning ends, and after a pass that
\* failed somebody asks for another one.
FairSpec ==
  /\ Spec
  /\ WF_vars(Provider /\ phase = "cleanup")
  /\ WF_vars(Cease)
  /\ WF_vars(BeginCleanup)

-------------------------------------------------------------------------------
(* What leads to a resource from the record.                               *)

\* What the rest of a run hangs on.
Root == CASE provider = "aws" -> "vpc" [] provider = "gcp" -> "network"
          [] provider = "azure" -> "group" [] provider = "oci" -> "vcn"

\* What can outlive the root, and must be on record itself.
Independent ==
  CASE provider = "aws" -> {"vpc", "gateway", "keyPair", "volume"}
    [] provider = "gcp" -> {"network", "dataDisk"} \cup GcpBoots
    [] provider = "azure" -> {"group"}
    [] provider = "oci" -> {"vcn", "volume"}

\* A known root leads to all that hangs on it.
Traced ==
  LET known == ids \cup intent
  IN known \cup (IF Root \in cloud \cap known THEN cloud \ Independent ELSE {})

\* OCI: its answer was lost and nothing tells of it.
Untraced == IF provider = "oci" THEN {"vcn", "volume"} \ ids ELSE {}

\* Runs that no later pass can bring to an end.  AWS: an association outlives
\* the record of its table.  Azure: the server died between the save of the
\* settings and that of the name of the group.  OCI: something that is not on
\* record is in the way.
Stuck ==
  \/ "association" \in ids /\ "routeTable" \notin ids
  \/ "context" \in ids /\ "group" \notin ids \cup intent
  \/ provider = "oci" /\ ~(cloud \subseteq ids \cup {"route", "peerRoute", "attachment"})

-------------------------------------------------------------------------------
(* Properties.                                                             *)

TypeOK ==
  /\ provider \in Providers
  /\ plan \in Plans
  /\ phase \in Phase
  /\ at \in 1..(Len(GcpSteps) + 1)
  /\ ids \cap intent = {}
  /\ unresolved \subseteq intent
  /\ faults \in 0..MaxFaults
  /\ {failed, calm} \subseteq BOOLEAN

\* A run is destroyed only when nothing of it is left, whatever creates lost
\* their answers, lookups saw too little, deletions failed halfway and passes
\* were cut short.  (On OCI: nothing but what was never on record.)
DestroyedMeansGone == phase = "destroyed" => cloud \subseteq Untraced

\* Whatever exists can be found from the record at any time: it is on record
\* itself, or hangs on a root that exists and is on record.
EverythingIsTraced == cloud \subseteq Traced \cup Untraced

\* A pass without a failure of the environment destroys the run, whatever
\* earlier passes and provisioning have left: deletions come in an order the
\* cloud accepts.  Exceptions are a create that could not be ruled out, others, and
\* Stuck.
CalmPassFinishes ==
  [][phase = "cleanup" /\ phase' = "idle" /\ calm' =>
       unresolved # {} \/ foreign # {} \/ Stuck]_vars

\* A pass takes nothing away from others, who may take a name that is on record
\* after its resource was deleted by hand, put something into the group, or attach
\* a disk that would go with its instance: also while the pass is under way.
OthersAreSpared == [][phase = "cleanup" => foreign \subseteq foreign']_vars

C == INSTANCE Custody WITH
       exists <- cloud \ Untraced, traced <- Traced, finished <- phase = "destroyed"

\* The providers implement Custody.
ImplementsCustody == C!Spec

\* Under failures that come to an end, repeated passes destroy the run unless
\* it remains unresolved or Stuck, or something of others remains in the way.
CleanupConverges ==
  <>[](unresolved = {} /\ ~Stuck /\ foreign = {}) => <>(phase = "destroyed")

\* "No explicit associations means a prior disassociate request likely
\* succeeded before its local manifest update; the later NotFound-safe delete
\* remains idempotent." (src/app/providers/aws.py:2718): a pass that failed can
\* be repeated until it succeeds.
CleanupIsIdempotent == <>[](unresolved = {} /\ foreign = {}) => <>(phase = "destroyed")
===============================================================================
