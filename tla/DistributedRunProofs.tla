-------------------------- MODULE DistributedRunProofs --------------------------
(***************************************************************************)
(* TLAPS proofs about DistributedRun, for any providers and any number of  *)
(* failures.  The argument: what exists is always covered by an entry of   *)
(* the plan that says so (Custodial), which is what tombstones and the     *)
(* refusal to create twice rest on; and each step of a cleanup pass        *)
(* guarantees something to the steps behind it (PassFits), which is what   *)
(* the order of load, recovery and deletion rests on.                      *)
(***************************************************************************)
EXTENDS DistributedRun, TLAPS

\* The entries that the plan of a provider has, and what they stand for.
KeysOf(p) ==
  CASE p = "aws" -> AwsGraphKeys
    [] p = "oci" -> OciGraphKeys
    [] p = "gcp" -> GcpGraphKeys
    [] p = "azure" -> AzureGraphKeys

PartsOf(p) == UNION {{r} \cup BootOf(r) : r \in KeysOf(p)}

Unplanned == {"unwritten", "empty", "truncated", "preflight"}
Ended == {"planned", "deleted"}

-------------------------------------------------------------------------------
(* The plan and what exists.                                               *)

\* A plan has all entries of its graph or none.
Written ==
  /\ at \in 1..16
  /\ faults \in 0..MaxFaults
  /\ phase \in Phase /\ contract \in Contract
  /\ stranger \in Strange /\ journal \in BOOLEAN /\ traffic \in BOOLEAN
  /\ failed \in BOOLEAN /\ calm \in BOOLEAN
  /\ cloud \subseteq PartsOf(provider)
  /\ IF contract \in Unplanned
     THEN Keys = {} /\ known = {}
     ELSE /\ status \in [KeysOf(provider) -> Status]
          /\ provider # "aws" => \A r \in Keys : status[r] # "create_ambiguous"
          /\ known \subseteq KeysOf(provider)

\* Where a plan can be.  Nothing has been asked for before it is written.
Staged ==
  /\ phase = "provision" => contract = "open" \/ (contract = "unwritten" /\ at = 1)
  /\ phase = "ready" => contract \in {"open", "truncated", "damaged"}
  /\ phase = "cleanup" => contract \notin Unplanned
  /\ contract = "preflight" => phase = "destroyed"
  /\ phase = "destroyed" => contract \notin {"truncated", "damaged", "unwritten"}
  /\ contract \in Unplanned \ {"truncated"} => cloud = {} /\ ~traffic
  /\ phase = "destroyed" => cloud = {}

\* What is not covered by its entry does not exist.  A boot disk of GCP may
\* outlive the entry that announced it.
Covered ==
  /\ provider # "gcp" =>
       \A r \in Keys : status[r] \in Ended => cloud \cap ({r} \cup BootOf(r)) = {}
  /\ provider = "gcp" =>
       \A r \in Keys \ GcpGraphBoots : status[r] \in Ended => r \notin cloud

\* On AWS a boot disk comes and goes with its instance.
Paired ==
  provider = "aws" =>
    \A r \in AwsGraphKeys : cloud \cap BootOf(r) # {} => r \in cloud

\* OCI: before any deletion what has an identity exists.
Identified == provider = "oci" /\ contract = "open" => known \subseteq cloud

\* GCP and Azure write tombstones for everything at once.
Cleared ==
  /\ provider \in {"gcp", "azure"}
  /\ contract = "deleted" \/ \E r \in Keys : status[r] = "deleted"
  => cloud = {} /\ contract # "open"

\* Azure: nothing exists outside the group.
Grouped ==
  provider = "azure" =>
    /\ cloud # {} => "group" \in cloud
    /\ phase = "provision" /\ at >= 2 => "group" \in cloud

Custodial ==
  /\ provider \in {"aws", "oci", "gcp", "azure"} \cap Providers
  /\ Written /\ Staged /\ Covered /\ Paired /\ Identified /\ Cleared /\ Grouped
  /\ twice = {}

-------------------------------------------------------------------------------
(* What a pass knows.                                                      *)

\* The load generator exists, and OCI knows its identity.
Generating ==
  /\ "loadgen" \in cloud
  /\ provider = "oci" /\ contract # "truncated" => "loadgen" \in known

LoadgenPlace ==
  CASE provider = "aws" -> 9 [] provider = "oci" -> 8
    [] provider = "gcp" -> 7 [] provider = "azure" -> 9

\* Load is sent by a load generator that exists, and is on record.
Loaded ==
  /\ phase = "provision" /\ at > LoadgenPlace => Generating
  /\ phase = "ready" => Generating
  /\ traffic => Generating /\ (journal \/ contract = "truncated")
  /\ contract = "deleted" => ~traffic

\* The steps after which the record is accepted, the load has stopped, no
\* create is open, and nothing foreign is attached.
LoadedAt == IF provider = "gcp" THEN 3 ELSE 2
QuietAt == IF provider \in {"gcp", "azure"} THEN 4 ELSE 3
KnownAt == IF provider = "gcp" THEN 5 ELSE 4
OwnAt == IF provider = "aws" THEN 4 ELSE 5
LastDelete ==
  CASE provider = "aws" -> 11 [] provider = "oci" -> 13
    [] provider = "gcp" -> 13 [] provider = "azure" -> 5

AllAnswered == \A r \in Keys \ known : status[r] \notin Unanswered

PassFits ==
  phase = "cleanup" =>
    /\ at >= LoadedAt => contract # "damaged"
    /\ at >= QuietAt => ~traffic \/ (provider = "azure" /\ ~calm /\ at <= 5)
    /\ provider # "azure" /\ at \in KnownAt..LastDelete => AllAnswered
    /\ at \in OwnAt..LastDelete => stranger = "none" \/ cloud = {}
    /\ provider = "oci" /\ at >= 5 => contract # "open"
    /\ provider = "gcp" /\ at = 15 => contract = "deleted"
    /\ provider = "azure" /\ at >= 6 => cloud = {}
    /\ provider = "azure" /\ at = 7 => contract = "deleted"

IInv == Custodial /\ Loaded /\ PassFits

-------------------------------------------------------------------------------
(* The graphs.                                                             *)

LEMMA OciKeys ==
  OciGraphKeys = {"vcn", "gateway", "route", "subnet", "group", "volume",
                  "database", "loadgen", "attachment"}
BY DEF OciGraphKeys, OciGraphOrder

LEMMA GcpKeys ==
  GcpGraphKeys = {"network", "subnet", "router", "firewall", "disk", "database",
                  "loadgen", "databaseBoot", "loadgenBoot"}
BY DEF GcpGraphKeys, GcpGraphOrder, GcpGraphBoots

LEMMA AzureKeys ==
  AzureGraphKeys = {"group", "nsg", "network", "natAddress", "nat", "subnet",
                    "disk", "database", "loadgen"}
BY DEF AzureGraphKeys, AzureGraphOrder

\* Where provisioning stands when it comes to a resource.
LEMMA AwsPlaces ==
  ASSUME at \in 1..16, NEW r \in AwsGraphKeys, Provisioning(AwsGraphOrder, r)
  PROVE  /\ phase = "provision" /\ contract = "open"
         /\ at \in 1..9 /\ (at = 9 <=> r = "loadgen")
BY DEF AwsGraphKeys, AwsGraphOrder, Provisioning

LEMMA OciPlaces ==
  ASSUME at \in 1..16, NEW r \in OciGraphKeys, Provisioning(OciGraphOrder, r)
  PROVE  /\ phase = "provision" /\ contract = "open"
         /\ at \in 1..9 /\ (at = 8 <=> r = "loadgen")
BY OciKeys DEF OciGraphOrder, Provisioning

LEMMA GcpPlaces ==
  ASSUME at \in 1..16, NEW r \in GcpGraphKeys, Provisioning(GcpGraphOrder, r)
  PROVE  /\ phase = "provision" /\ contract = "open"
         /\ at \in 1..7 /\ (at = 7 <=> r = "loadgen")
         /\ r \notin GcpGraphBoots
BY GcpKeys DEF GcpGraphOrder, Provisioning, GcpGraphBoots

LEMMA AzurePlaces ==
  ASSUME at \in 1..16, NEW r \in AzureGraphKeys, Provisioning(AzureGraphOrder, r)
  PROVE  /\ phase = "provision" /\ contract = "open"
         /\ at \in 1..9 /\ (at = 9 <=> r = "loadgen") /\ (at = 1 <=> r = "group")
BY AzureKeys DEF AzureGraphOrder, Provisioning

\* Where a pass stands at each of its steps.
LEMMA AwsSteps ==
  ASSUME at \in 1..16, NEW s, Cleaning(AwsGraphSteps, s)
  PROVE  /\ phase = "cleanup" /\ at \in 1..12
         /\ s = "load" => at = 1
         /\ s = "quiesce" => at = 2
         /\ s = "recover" => at = 3
         /\ s \in AwsGraphKeys => at \in 4..11
         /\ s = "end" => at = 12
BY DEF AwsGraphKeys, AwsGraphSteps, Cleaning

LEMMA OciSteps ==
  ASSUME at \in 1..16, NEW s, Cleaning(OciGraphSteps, s)
  PROVE  /\ phase = "cleanup" /\ at \in 1..15
         /\ s = "load" => at = 1
         /\ s = "quiesce" => at = 2
         /\ s = "recover" => at = 3
         /\ s = "verify" => at = 4
         /\ s \in OciGraphKeys => at \in 5..13
         /\ s = "end" => at = 14
         /\ s = "attest" => at = 15
BY OciKeys DEF OciGraphSteps, Cleaning

LEMMA GcpSteps ==
  ASSUME at \in 1..16, NEW s, Cleaning(GcpGraphSteps, s)
  PROVE  /\ phase = "cleanup" /\ at \in 1..15
         /\ s = "marker" => at = 1
         /\ s = "load" => at = 2
         /\ s = "quiesce" => at = 3
         /\ s = "survey" => at = 4
         /\ s \in GcpGraphKeys => at \in 5..13
         /\ s = "sweep" => at = 14
         /\ s = "end" => at = 15
BY GcpKeys DEF GcpGraphSteps, Cleaning

LEMMA AzureSteps ==
  ASSUME at \in 1..16, NEW s, Cleaning(AzureGraphSteps, s)
  PROVE  /\ phase = "cleanup" /\ at \in 1..7
         /\ s = "load" => at = 1
         /\ s = "find" => at = 2
         /\ s = "deallocate" => at = 3
         /\ s = "inventory" => at = 4
         /\ s = "delete" => at = 5
         /\ s = "clear" => at = 6
         /\ s = "end" => at = 7
BY DEF AzureGraphSteps, Cleaning

-------------------------------------------------------------------------------
(* Steps that change neither the plan nor what exists.                     *)

LEMMA MoveKeeps ==
  ASSUME Custodial, Loaded, UNCHANGED <<provider, plan, cloud, twice, journal>>,
         phase \in {"provision", "cleanup"},
         phase' = "idle" \/ (phase = "cleanup" /\ phase' = "cleanup"),
         at' \in 1..16, faults' \in 0..MaxFaults,
         stranger' \in Strange, failed' \in BOOLEAN, calm' \in BOOLEAN,
         traffic' \in BOOLEAN, traffic' => traffic
  PROVE  Custodial' /\ Loaded'
<1> USE DEF Custodial, plan
<1>1. Written'
  BY DEF Written, Keys, Phase
<1>2. Staged'
  BY DEF Staged
<1>3. Covered' /\ Paired' /\ Identified' /\ Cleared' /\ Grouped'
  BY DEF Covered, Paired, Identified, Cleared, Grouped, Keys
<1>4. Loaded'
  BY DEF Loaded, Generating
<1>5. QED
  BY <1>1, <1>2, <1>3, <1>4

LEMMA FaultBound ==
  ASSUME Custodial, Fault
  PROVE  faults' \in 0..MaxFaults /\ calm' \in BOOLEAN /\ ~calm'
<1>1. faults \in 0..MaxFaults
  BY DEF Custodial, Written
<1>2. faults' \in 0..MaxFaults
  BY <1>1, MaxFaultsNat DEF Fault
<1>3. calm' = FALSE
  BY DEF Fault
<1>4. calm' \in BOOLEAN
  BY <1>3, Zenon
<1>5. QED
  BY <1>2, <1>3, <1>4

LEMMA RefuseKeeps ==
  ASSUME IInv, phase \in {"provision", "cleanup"}, Refuse
  PROVE  IInv'
<1>1. Custodial' /\ Loaded'
  BY MoveKeeps
     DEF IInv, Custodial, Written, Refuse, Raise, plan, world, load, pass, Calmly, env
<1>2. QED
  BY <1>1 DEF IInv, Refuse, Raise, PassFits

LEMMA AbortKeeps ==
  ASSUME IInv, Abort
  PROVE  IInv'
<1>1. faults' \in 0..MaxFaults /\ calm' \in BOOLEAN
  BY FaultBound DEF Abort, IInv
<1>2. Custodial' /\ Loaded'
  BY <1>1, MoveKeeps
     DEF IInv, Custodial, Written, Abort, Raise, plan, world, load, pass
<1>3. QED
  BY <1>2 DEF IInv, Abort, Raise, PassFits

LEMMA CompleteKeeps ==
  ASSUME IInv, NEW order, Complete(order), Len(order) + 1 > LoadgenPlace
  PROVE  IInv'
<1> USE DEF IInv, Complete, plan, world, load, pass, env
<1>1. contract = "open" /\ LoadgenPlace \in Nat
  BY DEF Custodial, Written, Staged, LoadgenPlace
<1>2. Custodial'
  BY <1>1
     DEF Custodial, Written, Staged, Covered, Paired, Identified, Cleared, Grouped,
         Keys, Phase
<1>3. Loaded'
  BY DEF Loaded, Generating
<1>4. QED
  BY <1>2, <1>3 DEF PassFits

LEMMA SkipKeeps ==
  ASSUME IInv, phase = "cleanup", at \in 1..15, Skip
  PROVE  Custodial' /\ Loaded'
BY MoveKeeps
   DEF IInv, Custodial, Written, Skip, Advance, plan, world, load, pass, Calmly, env

LEMMA StopKeeps ==
  ASSUME IInv, phase = "cleanup", at \in 1..15, Stop
  PROVE  /\ Custodial' /\ Loaded'
         /\ \/ ~traffic' /\ Calmly /\ Advance
            \/ phase' = "idle" /\ ~calm'
<1>1. traffic \in BOOLEAN
  BY DEF IInv, Custodial, Written
<1>2. CASE traffic' = FALSE /\ Calmly /\ Advance
  <2>1. traffic' \in BOOLEAN
    BY <1>2, Zenon
  <2>2. Custodial' /\ Loaded'
    BY <1>2, <2>1, MoveKeeps
       DEF IInv, Custodial, Written, Stop, Advance, plan, world, pass, Calmly, env
  <2>3. QED
    BY <1>2, <2>2
<1>3. CASE UNCHANGED traffic /\ Fault /\ Raise
  <2>1. faults' \in 0..MaxFaults /\ calm' \in BOOLEAN /\ ~calm'
    BY <1>3, FaultBound DEF IInv
  <2>2. Custodial' /\ Loaded'
    BY <1>1, <1>3, <2>1, MoveKeeps
       DEF IInv, Custodial, Written, Stop, Raise, plan, world, pass
  <2>3. QED
    BY <1>3, <2>1, <2>2 DEF Raise
<1>4. QED
  BY <1>2, <1>3 DEF Stop

\* What ends a pass or the provisioning leaves nothing to know.
LEMMA NoPass ==
  ASSUME Custodial', Loaded', phase' # "cleanup"
  PROVE  IInv'
BY DEF IInv, PassFits

-------------------------------------------------------------------------------
(* Steps that create.                                                      *)

\* No part belongs to two entries, except that on GCP boot disks have their own.
LEMMA PartsApart ==
  ASSUME provider \in {"aws", "oci", "azure"},
         NEW r \in KeysOf(provider), NEW q \in KeysOf(provider), r # q
  PROVE  ({r} \cup BootOf(r)) \cap ({q} \cup BootOf(q)) = {}
<1>1. CASE provider = "aws"
  BY <1>1 DEF KeysOf, AwsGraphKeys, BootOf
<1>2. CASE provider = "oci"
  BY <1>2, OciKeys DEF KeysOf, BootOf
<1>3. CASE provider = "azure"
  BY <1>3, AzureKeys DEF KeysOf, BootOf
<1>4. QED
  BY <1>1, <1>2, <1>3

LEMMA OwnPlan ==
  ASSUME Custodial, contract \notin Unplanned
  PROVE  Keys = KeysOf(provider) /\ status \in [KeysOf(provider) -> Status]
BY DEF Custodial, Written, Keys

\* A create of r, outside GCP: it took effect, in whole or (Azure) in part, or it
\* did not, its entry says that it was asked for unless that is certain, and
\* provisioning goes on only with what exists.
Creates(r, s, made) ==
  /\ provider \in {"aws", "oci", "azure"}
  /\ phase = "provision" /\ contract = "open"
  /\ r \in KeysOf(provider) /\ s \in Status
  /\ status' = [status EXCEPT ![r] = s]
  /\ s \in Ended => s = "planned" /\ status[r] = "planned" /\ made = {}
  /\ provider # "aws" => s # "create_ambiguous"
  /\ cloud' = cloud \cup made
  /\ made \in {{}, {r} \cup BootOf(r)} \/ (provider = "azure" /\ made = BootOf(r))
  /\ known' \in {known, known \cup {r}}
  /\ provider = "oci" => known' = known \/ r \in cloud'
  /\ provider = "azure" => r = "group" \/ "group" \in cloud
  /\ \/ phase' = "idle" /\ at' = 1
     \/ /\ phase' = "provision" /\ at' = at + 1 /\ at \in 1..15
        /\ r \in cloud' /\ (provider = "oci" => r \in known')
        /\ at = LoadgenPlace => r = "loadgen"
        /\ provider = "azure" /\ at = 1 => r = "group"
  /\ UNCHANGED <<provider, contract, load, stranger, failed, env>>
  /\ twice' = {}

LEMMA CreateKeeps ==
  ASSUME Custodial, Loaded, NEW r, NEW s, NEW made, Creates(r, s, made)
  PROVE  IInv'
<1> USE DEF Creates, load, env, Custodial
<1>1. Keys = KeysOf(provider) /\ status \in [KeysOf(provider) -> Status]
  BY OwnPlan DEF Unplanned
<1>2. Keys' = KeysOf(provider)
  BY <1>1 DEF Keys
<1>3. made \subseteq {r} \cup BootOf(r)
  OBVIOUS
<1>4. at' \in 1..16 /\ phase' \in {"idle", "provision"} /\ phase' \in Phase
  BY DEF Written, Phase
<1>5. Written'
  <2>1. cloud' \subseteq PartsOf(provider)
    BY <1>3 DEF Written, PartsOf
  <2>2. status' \in [KeysOf(provider) -> Status]
    BY <1>1
  <2>3. provider # "aws" => \A q \in Keys' : status'[q] # "create_ambiguous"
    BY <1>1, <1>2 DEF Written, Unplanned
  <2>4. known' \subseteq KeysOf(provider)
    BY DEF Written, Unplanned
  <2>5. contract \notin Unplanned
    BY DEF Unplanned
  <2>6. QED
    BY <1>4, <2>1, <2>2, <2>3, <2>4, <2>5 DEF Written
<1>6. Staged'
  BY <1>4 DEF Staged, Unplanned
<1>7. Covered'
  <2>1. ASSUME NEW q \in KeysOf(provider), status'[q] \in Ended
        PROVE  cloud' \cap ({q} \cup BootOf(q)) = {}
    <3>1. CASE q = r
      BY <1>1, <2>1, <3>1 DEF Covered, Ended
    <3>2. CASE q # r
      <4>1. status[q] \in Ended
        BY <1>1, <2>1, <3>2
      <4>2. ({r} \cup BootOf(r)) \cap ({q} \cup BootOf(q)) = {}
        BY <3>2, PartsApart
      <4>3. cloud \cap ({q} \cup BootOf(q)) = {}
        BY <1>1, <4>1 DEF Covered
      <4>4. QED
        BY <1>3, <4>2, <4>3
    <3>3. QED
      BY <3>1, <3>2
  <2>2. QED
    BY <1>2, <2>1 DEF Covered
<1>8. Paired'
  <2>1. ASSUME provider = "aws", NEW q \in AwsGraphKeys, cloud' \cap BootOf(q) # {},
               q \notin cloud'
        PROVE  FALSE
    <3>1. KeysOf(provider) = AwsGraphKeys
      BY <2>1 DEF KeysOf
    <3>2. cloud \cap BootOf(q) = {}
      BY <2>1 DEF Paired
    <3>3. made = {r} \cup BootOf(r) /\ q # r
      BY <2>1, <3>2
    <3>4. QED
      BY <2>1, <3>1, <3>2, <3>3, PartsApart
  <2>2. QED
    BY <2>1 DEF Paired
<1>9. Identified'
  BY DEF Identified
<1>10. Cleared'
  <2>1. ASSUME provider = "azure" PROVE \A q \in Keys' : status'[q] # "deleted"
    BY <1>1, <1>2, <2>1 DEF Cleared, Ended
  <2>2. QED
    BY <2>1 DEF Cleared
<1>11. Grouped'
  BY <1>3 DEF Grouped, BootOf
<1>12. Loaded'
  BY <1>4 DEF Loaded, Generating, LoadgenPlace
<1>13. QED
  BY <1>4, <1>5, <1>6, <1>7, <1>8, <1>9, <1>10, <1>11, <1>12, NoPass

LEMMA ContractKeeps ==
  ASSUME IInv, SaveContract(KeysOf(provider))
  PROVE  IInv'
<1> USE DEF IInv, Custodial, SaveContract, world, load, pass, env
<1>1. at = 1 /\ cloud = {} /\ ~traffic
  BY DEF Staged, Unplanned
<1>2. status' \in [KeysOf(provider) -> Status] /\ Keys' = KeysOf(provider)
  BY DEF Status, Keys
<1>3. \A r \in Keys' : status'[r] = "planned"
  BY DEF Keys
<1>4. Written'
  BY <1>2, <1>3 DEF Written, Unplanned, Contract
<1>5. Staged'
  BY DEF Staged, Unplanned
<1>6. Covered' /\ Paired' /\ Grouped'
  BY <1>1 DEF Covered, Paired, Grouped
<1>7. Identified'
  BY DEF Identified, Written, Unplanned
<1>8. Cleared'
  BY <1>3 DEF Cleared
<1>9. Loaded'
  BY <1>1 DEF Loaded, LoadgenPlace
<1>10. QED
  BY <1>4, <1>5, <1>6, <1>7, <1>8, <1>9, NoPass

-------------------------------------------------------------------------------
(* Steps that delete.                                                      *)

LEMMA LoadKeeps ==
  ASSUME IInv, NEW steps, LoadContract(steps), at = LoadedAt - 1
  PROVE  IInv'
<1>1. phase = "cleanup" /\ at \in 1..2
  BY DEF LoadContract, Cleaning, LoadedAt
<1>2. CASE contract = "damaged"
  BY <1>1, <1>2, RefuseKeeps DEF LoadContract
<1>3. CASE contract # "damaged"
  <2>1. Skip
    BY <1>3 DEF LoadContract
  <2>2. Custodial' /\ Loaded'
    BY <1>1, <2>1, SkipKeeps
  <2>3. PassFits'
    BY <1>1, <1>3, <2>1
       DEF IInv, PassFits, Skip, Advance, plan, LoadedAt, QuietAt, KnownAt, OwnAt
  <2>4. QED
    BY <2>2, <2>3 DEF IInv
<1>4. QED
  BY <1>2, <1>3

LEMMA RemoveTraffic ==
  ASSUME NEW parts, Remove(parts), traffic \in BOOLEAN
  PROVE  /\ traffic' \in BOOLEAN
         /\ traffic' => traffic /\ "loadgen" \notin parts
         /\ cloud' = cloud \ parts
         /\ UNCHANGED <<twice, stranger, journal>>
BY DEF Remove

\* A deletion of r on AWS or OCI, in whole or (OCI) without its boot disk: a
\* tombstone is written only when nothing is left.
Deletes(r, s, parts) ==
  /\ provider \in {"aws", "oci"}
  /\ phase = "cleanup" /\ at \in KnownAt..LastDelete /\ at \in OwnAt..LastDelete
  /\ r \in KeysOf(provider) /\ s \in Status
  /\ status' = [status EXCEPT ![r] = s]
  /\ s \in Ended => cloud' \cap ({r} \cup BootOf(r)) = {}
  /\ s \in Unanswered => s = status[r]
  /\ cloud' = cloud \ parts
  /\ \/ parts \in {{}, {r} \cup BootOf(r)}
     \/ provider = "oci" /\ parts = {r}
  /\ traffic' \in BOOLEAN
  /\ traffic' => traffic /\ "loadgen" \notin parts
  /\ \/ phase' = "idle" /\ at' = 1
     \/ phase' = phase /\ at' = at + 1
  /\ UNCHANGED <<provider, known, contract, twice, stranger, journal, failed>>
  /\ faults' \in 0..MaxFaults /\ calm' \in BOOLEAN

LEMMA DeleteKeeps ==
  ASSUME IInv, NEW r, NEW s, NEW parts, Deletes(r, s, parts)
  PROVE  IInv'
<1> USE DEF IInv, Custodial, Deletes
<1>1. contract \notin Unplanned /\ contract # "damaged"
  BY DEF Staged, PassFits, LoadedAt, KnownAt
<1>2. /\ Keys = KeysOf(provider) /\ status \in [KeysOf(provider) -> Status]
      /\ Keys' = KeysOf(provider)
  BY <1>1, OwnPlan DEF Keys
<1>3. at \in 4..13 /\ phase' \in Phase
  BY DEF KnownAt, LastDelete, Phase
<1>4. Written'
  <2>1. status' \in [KeysOf(provider) -> Status]
    BY <1>2
  <2>2. provider # "aws" => \A q \in Keys' : status'[q] # "create_ambiguous"
    BY <1>1, <1>2 DEF Written, Unanswered
  <2>3. QED
    BY <1>1, <1>2, <1>3, <2>1, <2>2 DEF Written
<1>5. Staged'
  BY <1>1 DEF Staged
<1>6. Covered'
  <2>1. ASSUME NEW q \in KeysOf(provider), status'[q] \in Ended
        PROVE  cloud' \cap ({q} \cup BootOf(q)) = {}
    BY <1>2, <2>1 DEF Covered
  <2>2. QED
    BY <1>2, <2>1 DEF Covered
<1>7. Paired'
  <2>1. ASSUME provider = "aws", NEW q \in AwsGraphKeys, cloud' \cap BootOf(q) # {},
               q \notin cloud'
        PROVE  FALSE
    <3>1. KeysOf(provider) = AwsGraphKeys
      BY <2>1 DEF KeysOf
    <3>2. q \in cloud
      BY <2>1 DEF Paired
    <3>3. parts = {r} \cup BootOf(r) /\ q \in parts
      BY <2>1, <3>2
    <3>4. q = r
      BY <2>1, <3>1, <3>3, PartsApart
    <3>5. QED
      BY <2>1, <3>3, <3>4
  <2>2. QED
    BY <2>1 DEF Paired
<1>8. Identified'
  BY <1>3 DEF Identified, PassFits, OwnAt
<1>9. Cleared' /\ Grouped'
  BY DEF Cleared, Grouped
<1>10. Loaded'
  <2>1. phase' \notin {"provision", "ready"}
    OBVIOUS
  <2>2. traffic' => Generating'
    BY DEF Loaded, Generating
  <2>3. QED
    BY <2>1, <2>2 DEF Loaded
<1>11. PassFits'
  <2>1. ~traffic' /\ (stranger' = "none" \/ cloud' = {})
    BY <1>3 DEF PassFits, QuietAt
  <2>2. AllAnswered'
    BY <1>2, <1>3 DEF PassFits, AllAnswered
  <2>3. provider = "oci" => contract # "open"
    BY DEF PassFits, OwnAt
  <2>4. QED
    BY <1>1, <2>1, <2>2, <2>3 DEF PassFits
<1>12. QED
  BY <1>4, <1>5, <1>6, <1>7, <1>8, <1>9, <1>10, <1>11

\* The load generator is stopped, or need not be.
LEMMA QuietKeeps ==
  ASSUME IInv, phase = "cleanup", at = LoadedAt, contract # "damaged", ~traffic, Skip
  PROVE  IInv'
<1>1. at \in 2..3
  BY DEF LoadedAt
<1>2. Custodial' /\ Loaded'
  BY <1>1, SkipKeeps
<1>3. PassFits'
  BY <1>1 DEF PassFits, Skip, Advance, plan, load, LoadedAt, QuietAt, KnownAt, OwnAt
<1>4. QED
  BY <1>2, <1>3 DEF IInv

LEMMA StoppedKeeps ==
  ASSUME IInv, phase = "cleanup", at = LoadedAt, contract # "damaged", Stop
  PROVE  IInv'
<1>1. at \in 2..3
  BY DEF LoadedAt
<1>2. /\ Custodial' /\ Loaded'
      /\ \/ ~traffic' /\ Calmly /\ Advance
         \/ phase' = "idle" /\ ~calm'
  BY <1>1, StopKeeps
<1>3. CASE phase' = "idle"
  BY <1>2, <1>3, NoPass
<1>4. CASE ~traffic' /\ Advance
  <2>1. /\ at' = at + 1 /\ at' < KnownAt /\ at' < OwnAt /\ at' < 5
        /\ UNCHANGED <<provider, contract>>
    BY <1>4 DEF Stop, Advance, plan, LoadedAt, KnownAt, OwnAt
  <2>2. PassFits'
    BY <1>1, <1>4, <2>1 DEF PassFits, KnownAt, OwnAt, LastDelete
  <2>3. QED
    BY <1>2, <2>2 DEF IInv
<1>5. QED
  BY <1>2, <1>3, <1>4

LEMMA StopExactKeeps ==
  ASSUME IInv, phase = "cleanup", at = LoadedAt, contract # "damaged", StopExact
  PROVE  IInv'
BY StoppedKeeps, RefuseKeeps DEF StopExact

LEMMA FinishKeeps ==
  ASSUME IInv, phase = "cleanup", contract # "damaged", cloud = {}, Finish,
         UNCHANGED plan
  PROVE  IInv'
<1> USE DEF IInv, Custodial, Finish, plan, world, load, pass, env
<1>1. contract \notin Unplanned /\ contract # "damaged"
  BY DEF Staged, PassFits
<1>2. Written' /\ Staged'
  BY <1>1 DEF Written, Staged, Keys, Phase, Unplanned
<1>3. Covered' /\ Paired' /\ Identified' /\ Cleared' /\ Grouped'
  BY DEF Covered, Paired, Identified, Cleared, Grouped, Keys
<1>4. Loaded'
  BY DEF Loaded, Generating
<1>5. QED
  BY <1>2, <1>3, <1>4, NoPass

-------------------------------------------------------------------------------
(* AWS.                                                                    *)

LEMMA AwsEnsureKeeps ==
  ASSUME IInv, provider = "aws", AwsEnsure
  PROVE  IInv'
<1> PICK r \in AwsGraphKeys, seen \in AwsViews :
      /\ Provisioning(AwsGraphOrder, r)
      /\ \/ status[r] = "deleted" /\ Refuse
         \/ status[r] # "deleted" /\ r \in seen /\ AwsAdopt(r)
         \/ /\ r \notin seen /\ (r \in known \/ status[r] # "planned")
            /\ Refuse
         \/ r \notin seen \cup known /\ status[r] = "planned" /\ AwsDispatch(r)
  BY DEF AwsEnsure
<1>1. /\ phase = "provision" /\ contract = "open"
      /\ at \in 1..9 /\ (at = 9 => r = "loadgen")
  BY AwsPlaces DEF IInv, Custodial, Written
<1>2. /\ r \in KeysOf(provider) /\ KeysOf(provider) = AwsGraphKeys
      /\ LoadgenPlace = 9
  BY DEF KeysOf, LoadgenPlace
<1>3. CASE Refuse
  BY <1>1, <1>3, RefuseKeeps
<1>4. CASE AwsAdopt(r) /\ r \in seen
  <2>1. r \in cloud /\ twice = {}
    BY <1>4 DEF AwsViews, IInv, Custodial
  <2>2. "running" \in Status \ Ended
    BY DEF Status, Ended
  <2>3. /\ cloud' = cloud \cup {} /\ {} \in {{}, {r} \cup BootOf(r)}
        /\ twice' = {} /\ phase' = "provision" /\ at' = at + 1
        /\ UNCHANGED <<provider, contract, load, stranger, failed, env>>
    BY <1>1, <1>4, <2>1 DEF AwsAdopt, Advance, world, pass, Calmly
  <2>4. /\ status' = [status EXCEPT ![r] = "running"]
        /\ known' \in {known, known \cup {r}}
    BY <1>4 DEF AwsAdopt
  <2>5. Creates(r, "running", {})
    BY <1>1, <1>2, <2>1, <2>2, <2>3, <2>4 DEF Creates
  <2>6. QED
    BY <2>5, CreateKeeps DEF IInv
<1>5. CASE r \notin seen \cup known /\ status[r] = "planned" /\ AwsDispatch(r)
  <2> DEFINE parts == {r} \cup BootOf(r)
  <2>1. cloud \cap parts = {} /\ twice = {}
    BY <1>1, <1>2, <1>5, OwnPlan DEF IInv, Custodial, Covered, Ended, Unplanned
  <2>2. {"running", "creating", "create_ambiguous"} \subseteq Status \ Ended
        /\ "planned" \in Status
    BY DEF Status, Ended
  <2>3. PICK s \in Status, made \in {{}, parts} :
           /\ status' = [status EXCEPT ![r] = s]
           /\ s \in Ended => s = "planned" /\ made = {}
           /\ cloud' = cloud \cup made
           /\ known' \in {known, known \cup {r}}
           /\ \/ phase' = "idle" /\ at' = 1
              \/ phase' = phase /\ at' = at + 1 /\ r \in made
    <3> USE <2>2 DEF Make, Advance, Raise, world
    <3>1. CASE /\ Make(parts) /\ status' = [status EXCEPT ![r] = "running"]
               /\ known' = known \cup {r} /\ Advance
      <4>1. cloud' = cloud \cup parts /\ r \in parts
        BY <3>1
      <4>2. QED
        BY <3>1, <4>1
    <3>2. CASE /\ status' = [status EXCEPT ![r] = "planned"]
               /\ UNCHANGED <<known, world>> /\ Raise
      <4>1. cloud' = cloud \cup {}
        BY <3>2
      <4>2. QED
        BY <3>2, <4>1
    <3>3. CASE /\ status' \in {[status EXCEPT ![r] = s] : s \in Unanswered}
               /\ Make(parts) \/ UNCHANGED world
               /\ known' \in {known, known \cup {r}} /\ Raise
      <4>1. \E made \in {{}, parts} : cloud' = cloud \cup made
        BY <3>3
      <4>2. PICK s \in Unanswered : status' = [status EXCEPT ![r] = s]
        BY <3>3
      <4>3. s \in Status \ Ended
        BY DEF Unanswered
      <4>4. QED
        BY <3>3, <4>1, <4>2, <4>3
    <3>4. QED
      BY <1>5, <3>1, <3>2, <3>3 DEF AwsDispatch
  <2>4. /\ UNCHANGED <<provider, contract, load, stranger, failed, env>>
        /\ twice' = {}
    BY <1>5, <2>1 DEF AwsDispatch, Make, Advance, Raise, world, pass, Calmly
  <2>5. Creates(r, s, made)
    BY <1>1, <1>2, <1>5, <2>3, <2>4 DEF Creates
  <2>6. QED
    BY <2>5, CreateKeeps DEF IInv
<1>6. QED
  BY <1>3, <1>4, <1>5

LEMMA AwsAuditPlaces ==
  ASSUME at \in 1..16, Provisioning(AwsGraphOrder, "audit")
  PROVE  phase = "provision" /\ contract = "open" /\ at \in {7, 10}
BY DEF AwsGraphOrder, Provisioning

\* A recovery that goes on has explained everything: what it did not see is on
\* record as never asked for, as leaving, or as gone.
LEMMA AwsReconcileKeeps ==
  ASSUME IInv, provider = "aws", contract \notin Unplanned, AwsReconcileAll,
         \/ phase = "provision" /\ contract = "open" /\ at \in {7, 10}
         \/ phase = "cleanup" /\ at \in 1..15
  PROVE  /\ Custodial' /\ Loaded'
         /\ \/ phase' = "idle"
            \/ /\ AllAnswered' /\ stranger' = "none" /\ at' = at + 1
               /\ UNCHANGED <<phase, contract, traffic>>
<1> USE DEF IInv, Custodial, plan, world, load, pass
<1>1. /\ Keys = AwsGraphKeys /\ KeysOf(provider) = AwsGraphKeys
      /\ status \in [AwsGraphKeys -> Status]
  BY OwnPlan DEF KeysOf
<1> PICK seen \in AwsViews :
      LET bad == AwsUnexplained(seen)
          done == {r \in AwsGraphKeys : \A b \in bad : AwsPlace(r) < AwsPlace(b)}
      IN /\ status' = [r \in AwsGraphKeys |->
                         IF r \in done THEN AwsRecovered(r, seen) ELSE status[r]]
         /\ known' = known \cup (done \cap seen)
         /\ UNCHANGED <<contract, world, load, pass>>
         /\ Expect(seen = cloud \cap AwsGraphKeys)
         /\ IF bad = {} /\ AwsVerified THEN Advance ELSE Raise
  BY DEF AwsReconcileAll
<1> DEFINE bad == AwsUnexplained(seen)
           done == {r \in AwsGraphKeys : \A b \in bad : AwsPlace(r) < AwsPlace(b)}
<1>2. \A r \in AwsGraphKeys :
         status'[r] = IF r \in done THEN AwsRecovered(r, seen) ELSE status[r]
  OBVIOUS
<1>3. \A r \in AwsGraphKeys : AwsRecovered(r, seen) \in Status
  BY <1>1 DEF AwsRecovered, Status
<1>4. status' \in [AwsGraphKeys -> Status] /\ Keys' = AwsGraphKeys
  BY <1>1, <1>3 DEF Keys
<1>5. faults' \in 0..MaxFaults /\ calm' \in BOOLEAN
  BY FaultBound DEF Expect, Calmly, env, Written
<1>6. /\ at' \in 1..16 /\ phase' \in {phase, "idle"} /\ provider' = provider
      /\ phase' # "idle" => at' = at + 1
  BY DEF Advance, Raise
<1>7. Written'
  BY <1>1, <1>4, <1>5, <1>6 DEF Written, Phase
<1>8. Staged'
  BY <1>6 DEF Staged, Unplanned
<1>9. Covered'
  <2>1. ASSUME NEW q \in AwsGraphKeys, status'[q] \in Ended
        PROVE  cloud \cap ({q} \cup BootOf(q)) = {}
    <3>1. CASE status[q] \in Ended
      BY <1>1, <3>1 DEF Covered
    <3>2. CASE status[q] \notin Ended
      <4>1. AwsRecovered(q, seen) \in Ended
        BY <1>2, <2>1, <3>2
      <4>2. q \notin seen /\ q \in known
        BY <3>2, <4>1 DEF AwsRecovered, Leaving, Ended
      <4>3. q \notin cloud
        BY <4>2 DEF AwsViews
      <4>4. QED
        BY <4>3 DEF Paired
    <3>3. QED
      BY <3>1, <3>2
  <2>2. QED
    BY <1>4, <1>6, <2>1 DEF Covered
<1>10. Paired' /\ Identified' /\ Cleared' /\ Grouped'
  BY <1>6 DEF Paired, Identified, Cleared, Grouped
<1>11. Loaded'
  BY <1>6 DEF Loaded, Generating, LoadgenPlace
<1>12. ASSUME bad = {} /\ AwsVerified, Advance
       PROVE  AllAnswered' /\ stranger' = "none"
  <2>1. done = AwsGraphKeys
    BY <1>12
  <2>2. ASSUME NEW q \in AwsGraphKeys \ known' PROVE status'[q] \notin Unanswered
    <3>1. q \notin seen
      BY <2>1, <2>2
    <3>2. status[q] \notin Unanswered
      BY <1>12, <3>1 DEF AwsUnexplained
    <3>3. QED
      BY <1>2, <2>1, <3>1, <3>2 DEF AwsRecovered, Unanswered
  <2>3. AllAnswered'
    BY <1>4, <2>2 DEF AllAnswered
  <2>4. QED
    BY <1>12, <2>3 DEF AwsVerified
<1>13. QED
  BY <1>7, <1>8, <1>9, <1>10, <1>11, <1>12 DEF Advance, Raise

LEMMA AwsQuiesceKeeps ==
  ASSUME IInv, provider = "aws", AwsQuiesce
  PROVE  IInv'
<1>1. phase = "cleanup" /\ at = 2
  BY AwsSteps DEF AwsQuiesce, IInv, Custodial, Written
<1> USE DEF LoadedAt
<1>2. contract \notin Unplanned /\ contract # "damaged"
  BY <1>1 DEF IInv, Custodial, Staged, PassFits, LoadedAt
<1>3. Skip \/ StopExact
  BY DEF AwsQuiesce
<1>4. CASE StopExact
  BY <1>1, <1>2, <1>4, StopExactKeeps
<1>5. CASE Skip /\ ~StopExact
  <2>1. ~(journal /\ status["loadgen"] \notin Ended /\ "loadgen" \in cloud)
    BY <1>5 DEF AwsQuiesce, Ended
  <2>2. "loadgen" \in Keys
    BY <1>2, OwnPlan DEF IInv, KeysOf, AwsGraphKeys
  <2>3. ~traffic
    BY <1>2, <2>1, <2>2 DEF IInv, Custodial, Loaded, Generating, Covered, Unplanned
  <2>4. QED
    BY <1>1, <1>2, <1>5, <2>3, QuietKeeps
<1>6. QED
  BY <1>3, <1>4, <1>5

LEMMA AwsRecoverKeeps ==
  ASSUME IInv, provider = "aws", AwsAudit \/ AwsRecoverGraph
  PROVE  IInv'
<1>1. \/ AwsAudit /\ phase = "provision" /\ contract = "open" /\ at \in {7, 10}
      \/ AwsRecoverGraph /\ phase = "cleanup" /\ at = 3
  BY AwsAuditPlaces, AwsSteps DEF AwsAudit, AwsRecoverGraph, IInv, Custodial, Written
<1>2. contract \notin Unplanned /\ (phase = "cleanup" => contract # "damaged" /\ ~traffic)
  BY <1>1 DEF IInv, Custodial, Staged, PassFits, LoadedAt, QuietAt, Unplanned
<1>3. /\ Custodial' /\ Loaded'
      /\ \/ phase' = "idle"
         \/ /\ AllAnswered' /\ stranger' = "none" /\ at' = at + 1
            /\ UNCHANGED <<phase, contract, traffic>>
  BY <1>1, <1>2, AwsReconcileKeeps DEF AwsAudit, AwsRecoverGraph
<1>4. provider' = provider
  BY DEF AwsAudit, AwsRecoverGraph, AwsReconcileAll, Advance, Raise
<1>5. PassFits'
  BY <1>1, <1>2, <1>3, <1>4 DEF PassFits
<1>6. QED
  BY <1>3, <1>5 DEF IInv

LEMMA AwsDeleteKeeps ==
  ASSUME IInv, provider = "aws", AwsGraphDelete
  PROVE  IInv'
<1> USE DEF world, load, pass, Calmly, env, Raise, Advance
<1> PICK r \in AwsGraphKeys : AwsGraphDelete!(r)
  BY DEF AwsGraphDelete
<1> DEFINE parts == {r} \cup BootOf(r)
           s0 == IF status[r] = "planned" THEN "deleted" ELSE status[r]
<1>1. /\ phase = "cleanup" /\ at \in 4..11
      /\ at \in KnownAt..LastDelete /\ at \in OwnAt..LastDelete
  BY AwsSteps DEF IInv, Custodial, Written, KnownAt, OwnAt, LastDelete
<1>2. /\ KeysOf(provider) = AwsGraphKeys /\ Keys = AwsGraphKeys
      /\ status \in [AwsGraphKeys -> Status]
  BY <1>1, OwnPlan DEF KeysOf, IInv, Custodial, Staged
<1>3. /\ traffic \in BOOLEAN /\ calm \in BOOLEAN /\ faults \in 0..MaxFaults
      /\ UNCHANGED <<known, contract, failed, provider>>
  BY DEF IInv, Custodial, Written
<1>4. CASE /\ r \notin cloud
           /\ status' = [status EXCEPT ![r] = IF @ = "planned" THEN "deleted" ELSE @]
           /\ UNCHANGED <<world, load>> /\ Calmly /\ Advance
  <2>1. s0 \in Status /\ (s0 \in Unanswered => s0 = status[r])
    BY <1>2 DEF Status, Unanswered
  <2>2. s0 \in Ended => cloud \cap parts = {}
    BY <1>2, <1>4 DEF IInv, Custodial, Covered, Paired, Ended
  <2>3. status' = [status EXCEPT ![r] = s0]
    BY <1>4
  <2>4. Deletes(r, s0, {})
    BY <1>1, <1>2, <1>3, <1>4, <2>1, <2>2, <2>3 DEF Deletes
  <2>5. QED
    BY <2>4, DeleteKeeps
<1>5. ASSUME NEW s \in {"deleted", "deleting", "delete_ambiguous"},
             status' = [status EXCEPT ![r] = s],
             (phase' = "idle" /\ at' = 1) \/ Advance,
             Remove(parts), Calmly \/ Fault
      PROVE  IInv'
  <2>1. s \in Status /\ s \notin Unanswered
    BY DEF Status, Unanswered
  <2>2. /\ traffic' \in BOOLEAN
        /\ traffic' => traffic /\ "loadgen" \notin parts
        /\ cloud' = cloud \ parts
        /\ UNCHANGED <<twice, stranger, journal>>
    BY <1>3, <1>5, RemoveTraffic
  <2>3. faults' \in 0..MaxFaults /\ calm' \in BOOLEAN
    BY <1>3, <1>5, FaultBound DEF IInv
  <2>4. Deletes(r, s, parts)
    BY <1>1, <1>2, <1>3, <1>5, <2>1, <2>2, <2>3 DEF Deletes
  <2>5. QED
    BY <2>4, DeleteKeeps
<1>6. ASSUME NEW s \in Leaving, status' = [status EXCEPT ![r] = s], Raise,
             UNCHANGED <<world, load>>, Calmly \/ Fault
      PROVE  IInv'
  <2>1. s \in Status /\ s \notin Unanswered /\ s \notin Ended
    BY DEF Status, Unanswered, Leaving, Ended
  <2>2. faults' \in 0..MaxFaults /\ calm' \in BOOLEAN
    BY <1>3, <1>6, FaultBound DEF IInv
  <2>3. Deletes(r, s, {})
    BY <1>1, <1>2, <1>3, <1>6, <2>1, <2>2 DEF Deletes
  <2>4. QED
    BY <2>3, DeleteKeeps
<1>7. QED
  BY <1>4, <1>5, <1>6 DEF Leaving

LEMMA AwsFinishKeeps ==
  ASSUME IInv, provider = "aws", AwsGraphFinish
  PROVE  IInv'
<1>1. phase = "cleanup" /\ at = 12
  BY AwsSteps DEF AwsGraphFinish, IInv, Custodial, Written
<1>2. CASE \A r \in AwsGraphKeys : status[r] = "deleted"
  <2>1. Keys = AwsGraphKeys /\ KeysOf(provider) = AwsGraphKeys
    BY <1>1, OwnPlan DEF IInv, Custodial, Staged, KeysOf
  <2>2. \A r \in AwsGraphKeys : cloud \cap ({r} \cup BootOf(r)) = {}
    BY <1>2, <2>1 DEF IInv, Custodial, Covered, Ended
  <2>3. cloud \subseteq UNION {{r} \cup BootOf(r) : r \in AwsGraphKeys}
    BY <2>1 DEF IInv, Custodial, Written, PartsOf
  <2>4. cloud = {}
    BY <2>2, <2>3
  <2>5. contract # "damaged"
    BY <1>1 DEF IInv, PassFits, LoadedAt
  <2>6. QED
    BY <1>1, <1>2, <2>4, <2>5, FinishKeeps DEF AwsGraphFinish
<1>3. CASE ~(\A r \in AwsGraphKeys : status[r] = "deleted")
  BY <1>1, <1>3, RefuseKeeps DEF AwsGraphFinish
<1>4. QED
  BY <1>2, <1>3

\* A rejected launch is closed as gone only when it is known not to exist.
LEMMA AwsRejectionKeeps ==
  ASSUME IInv, AwsReconcileRejection
  PROVE  IInv'
<1> USE DEF IInv, Custodial, AwsReconcileRejection, world, load, pass, env
<1>1. provider = "aws" /\ contract \notin Unplanned /\ phase = "idle"
  BY DEF Unplanned
<1>2. /\ Keys = AwsGraphKeys /\ KeysOf(provider) = AwsGraphKeys
      /\ status \in [AwsGraphKeys -> Status]
  BY <1>1, OwnPlan DEF KeysOf
<1> PICK r \in {"database", "loadgen"} :
      r \notin cloud /\ status' = [status EXCEPT ![r] = "deleted"]
  OBVIOUS
<1>3. r \in AwsGraphKeys /\ "deleted" \in Status
  BY DEF AwsGraphKeys, Status
<1>4. status' \in [AwsGraphKeys -> Status] /\ Keys' = AwsGraphKeys
  BY <1>2, <1>3 DEF Keys
<1>5. Written' /\ Staged'
  BY <1>1, <1>2, <1>4 DEF Written, Staged
<1>6. Covered'
  <2>1. cloud \cap ({r} \cup BootOf(r)) = {}
    BY <1>1, <1>3 DEF Paired
  <2>2. ASSUME NEW q \in AwsGraphKeys, status'[q] \in Ended
        PROVE  cloud \cap ({q} \cup BootOf(q)) = {}
    BY <1>1, <1>2, <2>1, <2>2 DEF Covered
  <2>3. QED
    BY <1>1, <1>4, <2>2 DEF Covered
<1>7. Paired' /\ Identified' /\ Cleared' /\ Grouped'
  BY <1>1 DEF Paired, Identified, Cleared, Grouped
<1>8. Loaded'
  BY DEF Loaded, Generating
<1>9. QED
  BY <1>1, <1>5, <1>6, <1>7, <1>8, NoPass

LEMMA AwsKeeps ==
  ASSUME IInv, AwsGraphNext
  PROVE  IInv'
<1>1. provider = "aws" /\ at \in 1..16
  BY DEF AwsGraphNext, IInv, Custodial, Written
<1>2. CASE AwsContract
  BY <1>1, <1>2, ContractKeeps DEF AwsContract, KeysOf
<1>3. CASE AwsEnsure
  BY <1>1, <1>3, AwsEnsureKeeps
<1>4. CASE AwsAudit \/ AwsRecoverGraph
  BY <1>1, <1>4, AwsRecoverKeeps
<1>5. CASE Complete(AwsGraphOrder)
  BY <1>1, <1>5, CompleteKeeps DEF AwsGraphOrder, LoadgenPlace
<1>6. CASE AwsLoadContract
  BY <1>1, <1>6, LoadKeeps, AwsSteps DEF AwsLoadContract, LoadContract, LoadedAt
<1>7. CASE AwsQuiesce
  BY <1>1, <1>7, AwsQuiesceKeeps
<1>8. CASE AwsGraphDelete
  BY <1>1, <1>8, AwsDeleteKeeps
<1>9. CASE AwsGraphFinish
  BY <1>1, <1>9, AwsFinishKeeps
<1>10. QED
  BY <1>2, <1>3, <1>4, <1>5, <1>6, <1>7, <1>8, <1>9 DEF AwsGraphNext

-------------------------------------------------------------------------------
(* OCI.                                                                    *)

LEMMA OciPlan ==
  ASSUME Custodial, provider = "oci", contract \notin Unplanned
  PROVE  /\ Keys = OciGraphKeys /\ KeysOf(provider) = OciGraphKeys
         /\ status \in [OciGraphKeys -> Status]
BY OwnPlan DEF KeysOf

LEMMA OciEnsureKeeps ==
  ASSUME IInv, provider = "oci", OciEnsure
  PROVE  IInv'
<1> USE DEF OciSet, world, Advance, Raise
<1> PICK r \in OciGraphKeys :
      /\ Provisioning(OciGraphOrder, r)
      /\ \/ r \notin known /\ (OciDispatch(r) \/ OciRecoverOne(r))
         \/ r \in known /\ OciSet(r, "running") /\ UNCHANGED <<known, world>> /\ Advance
      /\ UNCHANGED <<contract, load, pass>>
      /\ Calmly
  BY DEF OciEnsure
<1> DEFINE parts == {r} \cup BootOf(r)
<1>1. /\ phase = "provision" /\ contract = "open"
      /\ at \in 1..9 /\ (at = LoadgenPlace => r = "loadgen")
  BY OciPlaces DEF IInv, Custodial, Written, LoadgenPlace
<1>2. r \in KeysOf(provider) /\ twice = {} /\ "planned" \in Status
      /\ {"running", "creating"} \subseteq Status \ Ended
  BY DEF KeysOf, IInv, Custodial, Status, Ended
<1>3. /\ provider' = provider
      /\ UNCHANGED <<contract, load, failed, env>>
  BY DEF OciDispatch, OciRecoverOne, pass, Calmly
<1>4. CASE OciDispatch(r) /\ r \notin known
  <2>1. cloud \cap parts = {} /\ status[r] = "planned"
    BY <1>1, <1>2, <1>4, OciPlan
       DEF OciDispatch, IInv, Custodial, Covered, Ended, Unplanned
  <2>2. PICK s \in Status, made \in {{}, parts} :
           /\ status' = [status EXCEPT ![r] = s] /\ s # "create_ambiguous"
           /\ s \in Ended => s = "planned" /\ made = {}
           /\ cloud' = cloud \cup made /\ twice' = twice \cup (cloud \cap made)
           /\ stranger' = stranger
           /\ known' = known \/ (known' = known \cup {r} /\ r \in made)
           /\ \/ phase' = "idle" /\ at' = 1
              \/ phase' = phase /\ at' = at + 1 /\ r \in made /\ r \in known'
    <3> USE <1>2
    <3>1. ASSUME NEW s \in Status, OciSet(r, s), Make(parts), s \in {"running", "creating"},
                 \/ known' = known \cup {r}
                 \/ UNCHANGED known /\ Raise,
                 Advance \/ Raise
          PROVE  /\ status' = [status EXCEPT ![r] = s] /\ s \notin Ended
                 /\ cloud' = cloud \cup parts /\ twice' = twice \cup (cloud \cap parts)
                 /\ stranger' = stranger /\ r \in parts
      BY <3>1 DEF Make
    <3>2. ASSUME NEW s \in Status, OciSet(r, s), UNCHANGED world
          PROVE  /\ status' = [status EXCEPT ![r] = s]
                 /\ cloud' = cloud \cup {} /\ twice' = twice \cup (cloud \cap {})
                 /\ stranger' = stranger
      BY <3>2
    <3>3. CASE OciSet(r, "running") /\ Make(parts) /\ known' = known \cup {r} /\ Advance
      BY <3>1, <3>3
    <3>4. CASE OciSet(r, "planned") /\ UNCHANGED <<known, world>> /\ Raise
      BY <3>2, <3>4
    <3>5. CASE OciSet(r, "creating") /\ Make(parts) /\ UNCHANGED known /\ Raise
      BY <3>1, <3>5
    <3>6. CASE OciSet(r, "creating") /\ UNCHANGED world /\ UNCHANGED known /\ Raise
      BY <3>2, <3>6
    <3>7. CASE OciSet(r, "creating") /\ Make(parts) /\ known' = known \cup {r} /\ Raise
      BY <3>1, <3>7
    <3>8. QED
      BY <1>4, <3>3, <3>4, <3>5, <3>6, <3>7 DEF OciDispatch
  <2>3. Creates(r, s, made)
    BY <1>1, <1>2, <1>3, <2>1, <2>2 DEF Creates
  <2>4. QED
    BY <2>3, CreateKeeps DEF IInv
<1>5. CASE /\ UNCHANGED world /\ OciSet(r, "running") /\ Advance
           /\ r \in cloud /\ r \in known' /\ known' \in {known, known \cup {r}}
  <2>1. cloud' = cloud \cup {} /\ twice' = {} /\ stranger' = stranger
    BY <1>2, <1>5
  <2>2. status' = [status EXCEPT ![r] = "running"]
    BY <1>5
  <2>3. Creates(r, "running", {})
    BY <1>1, <1>2, <1>3, <1>5, <2>1, <2>2 DEF Creates
  <2>4. QED
    BY <2>3, CreateKeeps DEF IInv
<1>6. CASE UNCHANGED <<status, known>> /\ Raise /\ UNCHANGED world
  BY <1>1, <1>6, RefuseKeeps DEF Refuse, plan
<1>7. CASE r \in known /\ OciSet(r, "running") /\ UNCHANGED <<known, world>> /\ Advance
  <2>1. r \in cloud
    BY <1>1, <1>7 DEF IInv, Custodial, Identified
  <2>2. QED
    BY <1>5, <1>7, <2>1
<1>8. QED
  BY <1>4, <1>5, <1>6, <1>7 DEF OciRecoverOne

LEMMA OciQuiesceKeeps ==
  ASSUME IInv, provider = "oci", OciQuiesce
  PROVE  IInv'
<1>1. phase = "cleanup" /\ at = 2
  BY OciSteps DEF OciQuiesce, IInv, Custodial, Written
<1> USE DEF LoadedAt
<1>2. contract \notin Unplanned /\ contract # "damaged"
  BY <1>1 DEF IInv, Custodial, Staged, PassFits
<1>3. CASE StopExact
  BY <1>1, <1>2, <1>3, StopExactKeeps
<1>4. CASE Refuse
  BY <1>1, <1>4, RefuseKeeps
<1>5. CASE Skip /\ ~StopExact
  <2>1. ~journal \/ status["loadgen"] \in Ended \/ "loadgen" \notin known
        \/ "loadgen" \notin cloud
    BY <1>5 DEF OciQuiesce, Ended
  <2>2. "loadgen" \in Keys
    BY <1>1, <1>2, OciPlan, OciKeys DEF IInv
  <2>3. ~traffic
    BY <1>2, <2>1, <2>2 DEF IInv, Custodial, Loaded, Generating, Covered, Unplanned
  <2>4. QED
    BY <1>1, <1>2, <1>5, <2>3, QuietKeeps
<1>6. QED
  BY <1>3, <1>4, <1>5 DEF OciQuiesce

LEMMA OciAlreadyDeletedKeeps ==
  ASSUME IInv, provider = "oci", OciAlreadyDeleted
  PROVE  IInv'
<1> USE DEF OciAlreadyDeleted, plan, world, load, pass, Calmly, env
<1>1. phase = "cleanup" /\ at' = 15 /\ contract = "deleted" /\ ~traffic
  BY OciSteps DEF OciGraphSteps, IInv, Custodial, Written, Loaded
<1>2. Custodial' /\ Loaded'
  BY <1>1, MoveKeeps DEF IInv, Custodial, Written
<1>3. PassFits'
  BY <1>1 DEF PassFits, LastDelete
<1>4. QED
  BY <1>2, <1>3 DEF IInv

LEMMA OciRecoverKeeps ==
  ASSUME IInv, provider = "oci", OciRecoverGraph
  PROVE  IInv'
<1> USE DEF IInv, Custodial, world, load, pass
<1> PICK seen \in SUBSET (OciUnanswered \cap cloud) :
      /\ known' = known \cup seen
      /\ Expect(seen = OciUnanswered \cap cloud)
      /\ IF seen = OciUnanswered THEN Advance ELSE Raise
  BY DEF OciRecoverGraph
<1>1. /\ phase = "cleanup" /\ at = 3
      /\ UNCHANGED <<status, contract, world, load, pass>>
  BY OciSteps DEF OciRecoverGraph, Written
<1>2. contract \notin Unplanned /\ contract # "damaged" /\ ~traffic
  BY <1>1 DEF Staged, PassFits, LoadedAt, QuietAt
<1>3. /\ Keys = OciGraphKeys /\ KeysOf(provider) = OciGraphKeys
      /\ Keys' = OciGraphKeys
  BY <1>1, <1>2, OciPlan DEF Keys
<1>4. faults' \in 0..MaxFaults /\ calm' \in BOOLEAN
  BY FaultBound DEF Expect, Calmly, env, Written
<1>5. /\ provider' = provider
      /\ \/ phase' = "idle" /\ at' = 1
         \/ phase' = "cleanup" /\ at' = 4 /\ seen = OciUnanswered
  <2>1. CASE seen = OciUnanswered
    BY <1>1, <2>1 DEF Advance
  <2>2. CASE seen # OciUnanswered
    BY <1>1, <2>2 DEF Raise
  <2>3. QED
    BY <2>1, <2>2
<1>6. seen \subseteq OciGraphKeys \cap cloud
  BY DEF OciUnanswered
<1>7. Written' /\ Staged'
  BY <1>1, <1>2, <1>3, <1>4, <1>5, <1>6 DEF Written, Staged, Phase
<1>8. Covered' /\ Paired' /\ Identified' /\ Cleared' /\ Grouped'
  BY <1>1, <1>3, <1>5, <1>6 DEF Covered, Paired, Identified, Cleared, Grouped
<1>9. Loaded'
  BY <1>1, <1>5 DEF Loaded, Generating
<1>10. ASSUME seen = OciUnanswered PROVE AllAnswered'
  BY <1>1, <1>2, <1>3, <1>10 DEF AllAnswered, Unanswered, OciUnanswered, Written
<1>11. PassFits'
  BY <1>1, <1>2, <1>5, <1>10 DEF PassFits, OwnAt
<1>12. QED
  BY <1>1, <1>5, <1>7, <1>8, <1>9, <1>11

LEMMA OciVerifyKeeps ==
  ASSUME IInv, provider = "oci", OciVerify
  PROVE  IInv'
<1> USE DEF IInv, Custodial, OciVerify, world, load, pass, Calmly, env
<1>1. phase = "cleanup" /\ at = 4
  BY OciSteps DEF Written
<1>2. contract \notin Unplanned /\ contract # "damaged" /\ ~traffic
  BY <1>1 DEF Staged, PassFits, LoadedAt, QuietAt
<1>3. CASE contract' = "deleting" /\ Advance /\ OciImplicitOnly
  <2>1. provider' = provider /\ phase' = "cleanup" /\ at' = 5 /\ Keys' = Keys
    BY <1>1, <1>3 DEF Advance, Keys
  <2>2. Written' /\ Staged'
    BY <1>1, <1>2, <1>3, <2>1, OciPlan DEF Written, Staged, Contract, Unplanned
  <2>3. Covered' /\ Paired' /\ Identified' /\ Cleared' /\ Grouped'
    BY <1>3, <2>1 DEF Covered, Paired, Identified, Cleared, Grouped
  <2>4. Loaded'
    BY <1>2, <2>1 DEF Loaded, Generating
  <2>5. AllAnswered' /\ stranger' = "none"
    BY <1>1, <1>3, <2>1 DEF PassFits, AllAnswered, OciImplicitOnly, KnownAt, LastDelete
  <2>6. PassFits'
    BY <1>2, <1>3, <2>1, <2>5 DEF PassFits
  <2>7. QED
    BY <2>1, <2>2, <2>3, <2>4, <2>6
<1>4. CASE UNCHANGED contract /\ Raise
  BY <1>1, <1>4, RefuseKeeps DEF Refuse, plan
<1>5. QED
  BY <1>3, <1>4

LEMMA OciDeleteKeeps ==
  ASSUME IInv, provider = "oci", OciGraphDelete
  PROVE  IInv'
<1> USE DEF world, load, pass, Calmly, env, Raise, Advance, OciSet
<1> PICK r \in OciGraphKeys : OciGraphDelete!(r)
  BY DEF OciGraphDelete
<1> DEFINE parts == {r} \cup BootOf(r)
<1>1. /\ phase = "cleanup" /\ at \in 5..13
      /\ at \in KnownAt..LastDelete /\ at \in OwnAt..LastDelete
  BY OciSteps DEF IInv, Custodial, Written, KnownAt, OwnAt, LastDelete
<1>2. /\ KeysOf(provider) = OciGraphKeys /\ Keys = OciGraphKeys
      /\ status \in [OciGraphKeys -> Status]
  BY <1>1, OciPlan DEF IInv, Custodial, Staged
<1>3. /\ traffic \in BOOLEAN /\ calm \in BOOLEAN /\ faults \in 0..MaxFaults
      /\ UNCHANGED <<known, contract, failed, provider>>
  BY DEF IInv, Custodial, Written
<1>4. CASE status[r] \in Ended /\ UNCHANGED <<status, world, load>> /\ Calmly /\ Advance
  <2>1. status[r] \in Status /\ status' = [status EXCEPT ![r] = status[r]]
    BY <1>2, <1>4
  <2>2. cloud \cap parts = {}
    BY <1>2, <1>4 DEF IInv, Custodial, Covered
  <2>3. Deletes(r, status[r], {})
    BY <1>1, <1>2, <1>3, <1>4, <2>1, <2>2 DEF Deletes
  <2>4. QED
    BY <2>3, DeleteKeeps
<1>5. ASSUME NEW s \in {"deleted", "deleting"}, NEW some \in {parts, {r}},
             s = "deleted" => some = parts,
             OciSet(r, s), (phase' = "idle" /\ at' = 1) \/ Advance,
             Remove(some), Calmly \/ Fault
      PROVE  IInv'
  <2>1. s \in Status /\ s \notin Unanswered /\ (s \in Ended => some = parts)
    BY <1>5 DEF Status, Unanswered, Ended
  <2>2. /\ traffic' \in BOOLEAN
        /\ traffic' => traffic /\ "loadgen" \notin some
        /\ cloud' = cloud \ some
        /\ UNCHANGED <<twice, stranger, journal>>
    BY <1>3, <1>5, RemoveTraffic
  <2>3. faults' \in 0..MaxFaults /\ calm' \in BOOLEAN
    BY <1>3, <1>5, FaultBound DEF IInv
  <2>4. Deletes(r, s, some)
    BY <1>1, <1>2, <1>3, <1>5, <2>1, <2>2, <2>3 DEF Deletes
  <2>5. QED
    BY <2>4, DeleteKeeps
<1>6. ASSUME OciSet(r, "deleting"), Raise, UNCHANGED <<world, load>>, Calmly \/ Fault
      PROVE  IInv'
  <2>1. "deleting" \in Status /\ "deleting" \notin Unanswered /\ "deleting" \notin Ended
    BY DEF Status, Unanswered, Ended
  <2>2. faults' \in 0..MaxFaults /\ calm' \in BOOLEAN
    BY <1>3, <1>6, FaultBound DEF IInv
  <2>3. Deletes(r, "deleting", {})
    BY <1>1, <1>2, <1>3, <1>6, <2>1, <2>2 DEF Deletes
  <2>4. QED
    BY <2>3, DeleteKeeps
<1>7. QED
  BY <1>4, <1>5, <1>6 DEF Ended

LEMMA OciEndKeeps ==
  ASSUME IInv, provider = "oci", OciGraphEnd \/ OciAttest
  PROVE  IInv'
<1>1. CASE OciGraphEnd
  <2> USE <1>1 DEF IInv, Custodial, OciGraphEnd, Advance, world, load, pass, Calmly, env
  <2>1. phase = "cleanup" /\ at = 14
    BY OciSteps DEF Written
  <2>2. contract \notin Unplanned /\ ~traffic
    BY <2>1 DEF Staged, PassFits, QuietAt
  <2>3. Written' /\ Staged'
    BY <2>1, <2>2, OciPlan DEF Written, Staged, Contract, Unplanned, Keys
  <2>4. Covered' /\ Paired' /\ Identified' /\ Cleared' /\ Grouped'
    BY DEF Covered, Paired, Identified, Cleared, Grouped, Keys
  <2>5. Loaded'
    BY <2>1, <2>2 DEF Loaded
  <2>6. PassFits'
    BY <2>1, <2>2 DEF PassFits, LastDelete
  <2>7. QED
    BY <2>3, <2>4, <2>5, <2>6
<1>2. CASE OciAttest
  <2>1. phase = "cleanup" /\ at = 15
    BY <1>2, OciSteps DEF OciAttest, IInv, Custodial, Written
  <2>2. contract # "damaged"
    BY <2>1 DEF IInv, PassFits, LoadedAt
  <2>3. QED
    BY <1>2, <2>1, <2>2, FinishKeeps, RefuseKeeps DEF OciAttest
<1>3. QED
  BY <1>1, <1>2

LEMMA OciKeeps ==
  ASSUME IInv, OciGraphNext
  PROVE  IInv'
<1>1. provider = "oci" /\ at \in 1..16
  BY DEF OciGraphNext, IInv, Custodial, Written
<1>2. CASE OciContract
  BY <1>1, <1>2, ContractKeeps DEF OciContract, KeysOf
<1>3. CASE OciEnsure
  BY <1>1, <1>3, OciEnsureKeeps
<1>4. CASE Complete(OciGraphOrder)
  <2>1. LoadgenPlace = 8 /\ Len(OciGraphOrder) = 9
    BY <1>1 DEF LoadgenPlace, OciGraphOrder
  <2>2. Len(OciGraphOrder) + 1 > LoadgenPlace
    BY <2>1
  <2>3. QED
    BY <1>4, <2>2, CompleteKeeps
<1>5. CASE OciLoadContract
  BY <1>1, <1>5, LoadKeeps, OciSteps DEF OciLoadContract, LoadContract, LoadedAt
<1>6. CASE OciAlreadyDeleted \/ OciQuiesce
  BY <1>1, <1>6, OciAlreadyDeletedKeeps, OciQuiesceKeeps
<1>7. CASE OciRecoverGraph \/ OciVerify
  BY <1>1, <1>7, OciRecoverKeeps, OciVerifyKeeps
<1>8. CASE OciGraphDelete
  BY <1>1, <1>8, OciDeleteKeeps
<1>9. CASE OciGraphEnd \/ OciAttest
  BY <1>1, <1>9, OciEndKeeps
<1>10. QED
  BY <1>2, <1>3, <1>4, <1>5, <1>6, <1>7, <1>8, <1>9 DEF OciGraphNext

-------------------------------------------------------------------------------
(* GCP.                                                                    *)

LEMMA GcpPlan ==
  ASSUME Custodial, provider = "gcp", contract \notin Unplanned
  PROVE  /\ Keys = GcpGraphKeys /\ KeysOf(provider) = GcpGraphKeys
         /\ status \in [GcpGraphKeys -> Status \ {"create_ambiguous"}]
<1>1. /\ Keys = GcpGraphKeys /\ KeysOf(provider) = GcpGraphKeys
      /\ status \in [GcpGraphKeys -> Status]
  BY OwnPlan DEF KeysOf
<1>2. QED
  BY <1>1 DEF Custodial, Written

\* A create of r with its boot disk, which took effect in whole or in part: what
\* exists of the instance is on record as asked for.
GcpAsks(r, made) ==
  /\ r \in GcpGraphKeys \ GcpGraphBoots
  /\ phase = "provision" /\ contract = "open"
  /\ status' \in [GcpGraphKeys -> Status \ {"create_ambiguous", "deleted"}]
  /\ \A q \in GcpGraphKeys \ ({r} \cup BootOf(r)) : status'[q] = status[q]
  /\ cloud' = cloud \cup made /\ made \subseteq {r} \cup BootOf(r)
  /\ status'[r] = "planned" => r \notin cloud'
  /\ \/ phase' = "idle" /\ at' = 1
     \/ /\ phase' = "provision" /\ at' = at + 1 /\ at \in 1..15
        /\ r \in cloud' /\ (at = 7 => r = "loadgen")
  /\ UNCHANGED <<provider, known, contract, twice, stranger, load, failed, env>>

LEMMA GcpAskKeeps ==
  ASSUME IInv, provider = "gcp", NEW r, NEW made, GcpAsks(r, made)
  PROVE  IInv'
<1> USE DEF IInv, Custodial, GcpAsks, load, env
<1>1. /\ Keys = GcpGraphKeys /\ KeysOf(provider) = GcpGraphKeys
      /\ Keys' = GcpGraphKeys /\ contract \notin Unplanned
  BY GcpPlan DEF Keys, Unplanned
<1>2. Written'
  <2>1. cloud' \subseteq PartsOf(provider)
    BY <1>1 DEF Written, PartsOf
  <2>2. /\ status' \in [GcpGraphKeys -> Status]
        /\ \A q \in GcpGraphKeys : status'[q] # "create_ambiguous"
    BY DEF Status
  <2>3. QED
    BY <1>1, <2>1, <2>2 DEF Written, Phase
<1>3. Staged'
  BY <1>1 DEF Staged, Unplanned
<1>4. Covered'
  <2>1. ASSUME NEW q \in GcpGraphKeys \ GcpGraphBoots, status'[q] \in Ended
        PROVE  q \notin cloud'
    <3>1. CASE q = r
      BY <2>1, <3>1 DEF Ended
    <3>2. CASE q # r
      <4>1. q \notin {r} \cup BootOf(r)
        BY <3>2 DEF BootOf, GcpGraphBoots
      <4>2. QED
        BY <1>1, <2>1, <4>1 DEF Covered
    <3>3. QED
      BY <3>1, <3>2
  <2>2. QED
    BY <1>1, <2>1 DEF Covered
<1>5. Paired' /\ Identified' /\ Cleared' /\ Grouped'
  BY <1>1 DEF Paired, Identified, Cleared, Grouped
<1>6. Loaded'
  BY DEF Loaded, Generating, LoadgenPlace, Written
<1>7. QED
  BY <1>2, <1>3, <1>4, <1>5, <1>6, NoPass

LEMMA GcpSet ==
  ASSUME Custodial, provider = "gcp", contract = "open",
         NEW s \in {"planned", "creating", "running"},
         NEW r \in GcpGraphKeys \ GcpGraphBoots, GcpSetAll({r} \cup BootOf(r), s)
  PROVE  /\ status' \in [GcpGraphKeys -> Status \ {"create_ambiguous", "deleted"}]
         /\ \A q \in GcpGraphKeys \ ({r} \cup BootOf(r)) : status'[q] = status[q]
         /\ status'[r] = s
<1>1. contract \notin Unplanned
  BY DEF Unplanned
<1>2. /\ Keys = GcpGraphKeys
      /\ status \in [GcpGraphKeys -> Status \ {"create_ambiguous"}]
  BY <1>1, GcpPlan
<1>3. \A q \in GcpGraphKeys : status[q] # "deleted"
  BY <1>2 DEF Custodial, Cleared
<1>4. QED
  BY <1>2, <1>3 DEF GcpSetAll, Status

LEMMA GcpInsertAsks ==
  ASSUME IInv, provider = "gcp", NEW r \in GcpGraphKeys, Provisioning(GcpGraphOrder, r),
         GcpGraphInsert(r), UNCHANGED <<known, contract, load, pass>>, Calmly
  PROVE  \E made \in SUBSET ({r} \cup BootOf(r)) : GcpAsks(r, made)
<1> DEFINE parts == {r} \cup BootOf(r)
<1>1. /\ phase = "provision" /\ contract = "open" /\ at \in 1..7
      /\ (at = 7 => r = "loadgen") /\ r \in GcpGraphKeys \ GcpGraphBoots
  BY GcpPlaces DEF IInv, Custodial, Written
<1>2. UNCHANGED <<known, contract, load, failed, env>>
  BY DEF pass, Calmly
<1>3. ASSUME NEW s \in {"planned", "creating", "running"}, GcpSetAll(parts, s),
             NEW made \in SUBSET parts, cloud' = cloud \cup made,
             UNCHANGED <<twice, stranger>>,
             s = "planned" => r \notin cloud',
             Raise \/ (Advance /\ r \in cloud')
      PROVE  GcpAsks(r, made)
  <2>1. /\ status' \in [GcpGraphKeys -> Status \ {"create_ambiguous", "deleted"}]
        /\ \A q \in GcpGraphKeys \ parts : status'[q] = status[q]
        /\ status'[r] = s
    BY <1>1, <1>3, GcpSet DEF IInv
  <2>2. QED
    BY <1>1, <1>2, <1>3, <2>1 DEF GcpAsks, Raise, Advance
<1>4. CASE GcpAdopt(r)
  <2>1. cloud' = cloud \cup {} /\ UNCHANGED <<twice, stranger>> /\ r \in cloud'
    BY <1>4 DEF GcpAdopt, world
  <2>2. GcpAsks(r, {})
    BY <1>3, <1>4, <2>1 DEF GcpAdopt
  <2>3. QED
    BY <2>2
<1>5. CASE GcpSetAll(parts, "running") /\ Put(parts) /\ Advance
  <2>1. cloud' = cloud \cup parts /\ UNCHANGED <<twice, stranger>> /\ r \in cloud'
    BY <1>5 DEF Put
  <2>2. GcpAsks(r, parts)
    BY <1>3, <1>5, <2>1
  <2>3. QED
    BY <2>2
<1>6. CASE r \notin cloud /\ GcpSetAll(parts, "planned") /\ UNCHANGED world /\ Raise
  <2>1. cloud' = cloud \cup {} /\ UNCHANGED <<twice, stranger>> /\ r \notin cloud'
    BY <1>6 DEF world
  <2>2. GcpAsks(r, {})
    BY <1>3, <1>6, <2>1
  <2>3. QED
    BY <2>2
<1>7. ASSUME NEW made \in {{}, parts, BootOf(r)}, Put(made),
             GcpSetAll(parts, "creating"), Raise
      PROVE  GcpAsks(r, made)
  BY <1>3, <1>7 DEF Put
<1>8. QED
  BY <1>4, <1>5, <1>6, <1>7 DEF GcpGraphInsert

LEMMA GcpCreateKeeps ==
  ASSUME IInv, provider = "gcp", GcpGraphCreate \/ GcpGraphRouter \/ GcpGraphLaunch
  PROVE  IInv'
<1>1. ASSUME NEW r \in GcpGraphKeys, Provisioning(GcpGraphOrder, r), GcpGraphInsert(r),
             UNCHANGED <<known, contract, load, pass>>, Calmly
      PROVE  IInv'
  BY <1>1, GcpInsertAsks, GcpAskKeeps
<1>2. CASE GcpGraphCreate
  BY <1>1, <1>2 DEF GcpGraphCreate
<1>3. CASE GcpGraphRouter
  <2>1. "router" \in GcpGraphKeys \ GcpGraphBoots /\ BootOf("router") = {}
    BY GcpKeys DEF GcpGraphBoots, BootOf
  <2>2. CASE GcpGraphInsert("router")
    BY <1>1, <1>3, <2>1, <2>2 DEF GcpGraphRouter
  <2>3. CASE GcpSetAll({"router"}, "running") /\ Put({"router"}) /\ Raise
    <3>1. phase = "provision" /\ contract = "open"
      BY <1>3, <2>1, GcpPlaces DEF GcpGraphRouter, IInv, Custodial, Written
    <3>2. {"router"} = {"router"} \cup BootOf("router")
      BY <2>1
    <3>3. /\ status' \in [GcpGraphKeys -> Status \ {"create_ambiguous", "deleted"}]
          /\ \A q \in GcpGraphKeys \ ({"router"} \cup BootOf("router")) :
               status'[q] = status[q]
          /\ status'["router"] = "running"
      BY <2>1, <2>3, <3>1, <3>2, GcpSet DEF IInv
    <3>4. GcpAsks("router", {"router"})
      BY <1>3, <2>1, <2>3, <3>1, <3>3
         DEF GcpAsks, GcpGraphRouter, Put, Raise, pass, Calmly
    <3>5. QED
      BY <3>4, GcpAskKeeps
  <2>4. QED
    BY <1>3, <2>2, <2>3 DEF GcpGraphRouter
<1>4. CASE GcpGraphLaunch
  <2> PICK r \in {"database", "loadgen"} : GcpGraphLaunch!1!(r)
    BY <1>4 DEF GcpGraphLaunch
  <2> DEFINE parts == {r} \cup BootOf(r)
             half(a, b) ==
               status' = [q \in GcpGraphKeys |->
                            IF q = r THEN a ELSE IF q \in BootOf(r) THEN b ELSE status[q]]
  <2>1. r \in GcpGraphKeys \ GcpGraphBoots /\ Provisioning(GcpGraphOrder, r)
    BY GcpKeys DEF GcpGraphBoots
  <2>2. phase = "provision" /\ contract = "open"
    BY <2>1, GcpPlaces DEF IInv, Custodial, Written
  <2>3. CASE GcpGraphInsert(r)
    BY <1>1, <1>4, <2>1, <2>3 DEF GcpGraphLaunch
  <2>4. ASSUME NEW a \in {"planned", "running"}, half(a, "creating"), Raise,
               NEW made \in {{}, parts}, cloud' = cloud \cup made,
               UNCHANGED <<twice, stranger>>, a = "planned" => r \notin cloud'
        PROVE  IInv'
    <3>1. status \in [GcpGraphKeys -> Status \ {"create_ambiguous", "deleted"}]
      <4>1. contract \notin Unplanned
        BY <2>2 DEF Unplanned
      <4>2. Keys = GcpGraphKeys
            /\ status \in [GcpGraphKeys -> Status \ {"create_ambiguous"}]
        BY <4>1, GcpPlan DEF IInv
      <4>3. QED
        BY <2>2, <4>2 DEF IInv, Custodial, Cleared
    <3>2. /\ status' \in [GcpGraphKeys -> Status \ {"create_ambiguous", "deleted"}]
          /\ \A q \in GcpGraphKeys \ parts : status'[q] = status[q]
          /\ status'[r] = a
      BY <2>1, <2>4, <3>1 DEF Status
    <3>3. GcpAsks(r, made)
      BY <1>4, <2>1, <2>2, <2>4, <3>2 DEF GcpAsks, GcpGraphLaunch, Raise, pass, Calmly
    <3>4. QED
      BY <3>3, GcpAskKeeps
  <2>5. CASE half("running", "creating") /\ Put(parts) /\ Raise
    BY <2>4, <2>5 DEF Put
  <2>6. CASE r \notin cloud /\ half("planned", "creating") /\ UNCHANGED world /\ Raise
    <3>1. cloud' = cloud \cup {} /\ UNCHANGED <<twice, stranger>>
      BY <2>6 DEF world
    <3>2. QED
      BY <2>4, <2>6, <3>1
  <2>7. QED
    BY <2>3, <2>5, <2>6
<1>5. QED
  BY <1>2, <1>3, <1>4

\* A deletion on GCP or Azure leaves the plan alone; on Azure the group goes last.
LEMMA ShrinkKeeps ==
  ASSUME Custodial, Loaded, provider \in {"gcp", "azure"}, phase = "cleanup",
         UNCHANGED <<provider, plan, twice, stranger, journal>>,
         cloud' \subseteq cloud,
         provider = "azure" /\ cloud' # {} => "group" \in cloud',
         traffic' \in BOOLEAN, traffic' => traffic /\ "loadgen" \in cloud',
         phase' \in {"idle", "cleanup"}, at' \in 1..16, faults' \in 0..MaxFaults,
         failed' \in BOOLEAN, calm' \in BOOLEAN
  PROVE  Custodial' /\ Loaded'
<1> USE DEF Custodial, plan
<1>1. contract \notin Unplanned
  BY DEF Staged
<1>2. Written' /\ Staged'
  BY <1>1 DEF Written, Staged, Keys, Phase, Unplanned
<1>3. Covered' /\ Paired' /\ Identified' /\ Cleared' /\ Grouped'
  BY DEF Covered, Paired, Identified, Cleared, Grouped, Keys
<1>4. Loaded'
  BY <1>1 DEF Loaded, Generating, Unplanned
<1>5. QED
  BY <1>2, <1>3, <1>4

LEMMA GcpEndKeeps ==
  ASSUME IInv, provider = "gcp", GcpGraphMarker \/ GcpGraphFinish
  PROVE  IInv'
<1>1. \/ GcpGraphMarker /\ phase = "cleanup" /\ at = 1
      \/ GcpGraphFinish /\ phase = "cleanup" /\ at = 15 /\ contract = "deleted"
  BY GcpSteps DEF GcpGraphMarker, GcpGraphFinish, IInv, Custodial, Written, PassFits
<1>2. contract = "deleted" => cloud = {}
  BY DEF IInv, Custodial, Cleared
<1>3. CASE contract = "deleted"
  BY <1>1, <1>2, <1>3, FinishKeeps DEF GcpGraphMarker, GcpGraphFinish
<1>4. CASE contract # "deleted"
  <2>1. Skip /\ at = 1
    BY <1>1, <1>4 DEF GcpGraphMarker
  <2>2. Custodial' /\ Loaded'
    BY <1>1, <2>1, SkipKeeps
  <2>3. at' = 2 /\ provider' = "gcp"
    BY <2>1 DEF Skip, Advance
  <2>4. PassFits'
    BY <2>3 DEF PassFits, LoadedAt, QuietAt, KnownAt, OwnAt
  <2>5. QED
    BY <2>2, <2>4 DEF IInv
<1>5. QED
  BY <1>3, <1>4

LEMMA GcpQuiesceKeeps ==
  ASSUME IInv, provider = "gcp", GcpGraphQuiesce
  PROVE  IInv'
<1>1. phase = "cleanup" /\ at = 3
  BY GcpSteps DEF GcpGraphQuiesce, IInv, Custodial, Written
<1> USE DEF LoadedAt
<1>2. contract \notin Unplanned /\ contract # "damaged"
  BY <1>1 DEF IInv, Custodial, Staged, PassFits
<1>3. CASE journal /\ "loadgen" \in cloud
  BY <1>1, <1>2, <1>3, StopExactKeeps DEF GcpGraphQuiesce
<1>4. CASE ~(journal /\ "loadgen" \in cloud)
  <2>1. ~traffic
    BY <1>2, <1>4 DEF IInv, Loaded, Generating, Unplanned
  <2>2. QED
    BY <1>1, <1>2, <1>4, <2>1, QuietKeeps DEF GcpGraphQuiesce
<1>5. QED
  BY <1>3, <1>4

LEMMA GcpSurveyKeeps ==
  ASSUME IInv, provider = "gcp", GcpGraphSurvey
  PROVE  IInv'
<1> USE DEF IInv, Custodial, world, load
<1> DEFINE named == {r \in GcpGraphKeys : status[r] \in {"creating", "running"}}
<1>1. /\ phase = "cleanup" /\ at = 4
      /\ UNCHANGED <<known, contract, world, load, failed>>
  BY GcpSteps DEF GcpGraphSurvey, Written
<1>2. contract \notin Unplanned /\ contract # "damaged" /\ ~traffic
  BY <1>1 DEF Staged, PassFits, LoadedAt, QuietAt
<1>3. /\ Keys = GcpGraphKeys /\ KeysOf(provider) = GcpGraphKeys
      /\ status \in [GcpGraphKeys -> Status \ {"create_ambiguous"}]
  BY <1>2, GcpPlan
<1> PICK seen \in SUBSET (named \cap cloud) :
      /\ Expect(seen = named \cap cloud)
      /\ IF ~GcpVerified(seen) \/ \E r \in named \ seen : status[r] = "creating"
         THEN UNCHANGED <<status, found>> /\ Raise
         ELSE GcpSetAll(seen, "running") /\ found' = seen /\ Advance
  BY DEF GcpGraphSurvey
<1>4. faults' \in 0..MaxFaults /\ calm' \in BOOLEAN
  BY FaultBound DEF Expect, Calmly, env, Written
<1>5. CASE UNCHANGED <<status, found>> /\ Raise
  <2>1. /\ traffic' \in BOOLEAN /\ failed' \in BOOLEAN /\ stranger' \in Strange
        /\ at' \in 1..16 /\ phase' = "idle"
    BY <1>1, <1>5 DEF Written, Raise
  <2>2. Custodial' /\ Loaded'
    BY <1>1, <1>4, <1>5, <2>1, MoveKeeps DEF Raise, plan
  <2>3. QED
    BY <2>1, <2>2, NoPass
<1>6. CASE /\ GcpVerified(seen) /\ GcpSetAll(seen, "running") /\ Advance
           /\ \A r \in named \ seen : status[r] # "creating"
  <2>1. at' = 5 /\ phase' = "cleanup" /\ provider' = "gcp"
    BY <1>1, <1>6 DEF Advance
  <2>2. /\ Keys' = GcpGraphKeys
        /\ status' \in [GcpGraphKeys -> Status \ {"create_ambiguous"}]
        /\ \A r \in GcpGraphKeys :
             status'[r] = IF r \in seen THEN "running" ELSE status[r]
    BY <1>3, <1>6 DEF GcpSetAll, Keys, Status
  <2>3. Written' /\ Staged'
    BY <1>1, <1>2, <1>3, <1>4, <2>1, <2>2 DEF Written, Staged
  <2>4. Covered' /\ Paired' /\ Identified' /\ Cleared' /\ Grouped'
    BY <1>1, <1>3, <2>1, <2>2 DEF Covered, Paired, Identified, Cleared, Grouped, Ended
  <2>5. Loaded'
    BY <1>1, <1>2, <2>1 DEF Loaded
  <2>6. AllAnswered'
    BY <1>3, <1>6, <2>2 DEF AllAnswered, Unanswered
  <2>7. stranger' = "none"
    BY <1>1, <1>6 DEF GcpVerified
  <2>8. PassFits'
    BY <1>1, <1>2, <2>1, <2>6, <2>7 DEF PassFits
  <2>9. QED
    BY <1>1, <2>1, <2>3, <2>4, <2>5, <2>8
<1>7. QED
  BY <1>5, <1>6

LEMMA GcpDeleteKeeps ==
  ASSUME IInv, provider = "gcp", GcpGraphDelete
  PROVE  IInv'
<1> PICK r \in GcpGraphKeys : GcpGraphDelete!(r)
  BY DEF GcpGraphDelete
<1> DEFINE parts == {r} \cup BootOf(r)
<1>1. phase = "cleanup" /\ at \in 5..13 /\ UNCHANGED <<plan, found>> /\ Advance
  BY GcpSteps DEF IInv, Custodial, Written
<1>2. /\ traffic \in BOOLEAN /\ failed \in BOOLEAN /\ calm \in BOOLEAN
      /\ faults \in 0..MaxFaults
  BY DEF IInv, Custodial, Written
<1>3. contract # "damaged" /\ ~traffic /\ AllAnswered /\ (stranger = "none" \/ cloud = {})
  BY <1>1 DEF IInv, PassFits, LoadedAt, QuietAt, KnownAt, OwnAt, LastDelete
<1>4. failed' \in BOOLEAN /\ faults' \in 0..MaxFaults /\ calm' \in BOOLEAN
  <2>1. failed' = failed \/ failed' = TRUE
    OBVIOUS
  <2>2. failed' \in BOOLEAN
    BY <1>2, <2>1, Zenon
  <2>3. Calmly \/ Fault
    OBVIOUS
  <2>4. faults' \in 0..MaxFaults /\ calm' \in BOOLEAN
    BY <1>2, <2>3, FaultBound DEF Calmly, env, IInv
  <2>5. QED
    BY <2>2, <2>4
<1>5. /\ cloud' \subseteq cloud /\ ~traffic' /\ traffic' \in BOOLEAN
      /\ UNCHANGED <<twice, stranger, journal>>
  <2>1. CASE UNCHANGED <<world, load>>
    BY <1>2, <1>3, <2>1 DEF world, load
  <2>2. CASE Remove(parts)
    BY <1>2, <1>3, <2>2, RemoveTraffic
  <2>3. QED
    BY <2>1, <2>2
<1>6. at' = at + 1 /\ phase' = "cleanup" /\ provider' = "gcp"
  BY <1>1 DEF Advance
<1>7. Custodial' /\ Loaded'
  BY <1>1, <1>4, <1>5, <1>6, ShrinkKeeps DEF IInv
<1>8. AllAnswered'
  BY <1>1, <1>3 DEF AllAnswered, Keys, plan
<1>9. PassFits'
  BY <1>1, <1>3, <1>5, <1>6, <1>8 DEF PassFits, plan
<1>10. QED
  BY <1>7, <1>9 DEF IInv

LEMMA GcpSweepKeeps ==
  ASSUME IInv, provider = "gcp", GcpGraphSweep
  PROVE  IInv'
<1>1. phase = "cleanup" /\ at = 14
  BY GcpSteps DEF GcpGraphSweep, IInv, Custodial, Written
<1>2. CASE Refuse
  BY <1>1, <1>2, RefuseKeeps
<1>3. CASE /\ cloud = {} /\ GcpSetAll(GcpGraphKeys, "deleted") /\ contract' = "deleted"
           /\ UNCHANGED <<known, world, load, pass>> /\ Calmly /\ Advance
  <2> USE DEF IInv, Custodial, world, load, pass, Calmly, env
  <2>1. at' = 15 /\ phase' = "cleanup" /\ provider' = "gcp"
    BY <1>1, <1>3 DEF Advance
  <2>2. contract \notin Unplanned /\ ~traffic
    BY <1>1 DEF Staged, PassFits, QuietAt
  <2>3. KeysOf(provider) = GcpGraphKeys
    BY <2>2, GcpPlan
  <2>4. Keys' = GcpGraphKeys /\ status' \in [GcpGraphKeys -> Status]
        /\ \A r \in GcpGraphKeys : status'[r] = "deleted"
    BY <1>3 DEF GcpSetAll, Keys, Status
  <2>5. Written' /\ Staged'
    BY <1>1, <1>3, <2>1, <2>2, <2>3, <2>4 DEF Written, Staged, Contract, Unplanned
  <2>6. Covered' /\ Paired' /\ Identified' /\ Cleared' /\ Grouped'
    BY <1>3, <2>1 DEF Covered, Paired, Identified, Cleared, Grouped
  <2>7. Loaded'
    BY <1>3, <2>1, <2>2 DEF Loaded
  <2>8. PassFits'
    BY <1>3, <2>1, <2>2 DEF PassFits, LastDelete
  <2>9. QED
    BY <2>1, <1>3, <2>5, <2>6, <2>7, <2>8
<1>4. QED
  BY <1>2, <1>3 DEF GcpGraphSweep

LEMMA GcpKeeps ==
  ASSUME IInv, GcpGraphNext
  PROVE  IInv'
<1>1. provider = "gcp" /\ at \in 1..16
  BY DEF GcpGraphNext, IInv, Custodial, Written
<1>2. CASE GcpContract
  BY <1>1, <1>2, ContractKeeps DEF GcpContract, KeysOf
<1>3. CASE GcpGraphCreate \/ GcpGraphRouter \/ GcpGraphLaunch
  BY <1>1, <1>3, GcpCreateKeeps
<1>4. CASE Complete(GcpGraphOrder)
  <2>1. LoadgenPlace = 7 /\ Len(GcpGraphOrder) = 7
    BY <1>1 DEF LoadgenPlace, GcpGraphOrder
  <2>2. Len(GcpGraphOrder) + 1 > LoadgenPlace
    BY <2>1
  <2>3. QED
    BY <1>4, <2>2, CompleteKeeps
<1>5. CASE GcpGraphMarker \/ GcpGraphFinish
  BY <1>1, <1>5, GcpEndKeeps
<1>6. CASE GcpLoadContract
  BY <1>1, <1>6, LoadKeeps, GcpSteps DEF GcpLoadContract, LoadContract, LoadedAt
<1>7. CASE GcpGraphQuiesce \/ GcpGraphSurvey
  BY <1>1, <1>7, GcpQuiesceKeeps, GcpSurveyKeeps
<1>8. CASE GcpGraphDelete \/ GcpGraphSweep
  BY <1>1, <1>8, GcpDeleteKeeps, GcpSweepKeeps
<1>9. QED
  BY <1>2, <1>3, <1>4, <1>5, <1>6, <1>7, <1>8 DEF GcpGraphNext

-------------------------------------------------------------------------------
(* Azure.                                                                  *)

LEMMA AzurePlan ==
  ASSUME Custodial, provider = "azure", contract \notin Unplanned
  PROVE  /\ Keys = AzureGraphKeys /\ KeysOf(provider) = AzureGraphKeys
         /\ status \in [AzureGraphKeys -> Status]
BY OwnPlan DEF KeysOf

LEMMA AzurePutKeeps ==
  ASSUME IInv, provider = "azure", NEW r \in AzureGraphKeys,
         Provisioning(AzureGraphOrder, r), AzurePut(r)
  PROVE  IInv'
<1> USE DEF Advance, Raise
<1> DEFINE parts == {r} \cup BootOf(r)
<1>1. /\ phase = "provision" /\ contract = "open"
      /\ at \in 1..9 /\ (at = LoadgenPlace => r = "loadgen") /\ (at = 1 <=> r = "group")
  BY AzurePlaces DEF IInv, Custodial, Written, LoadgenPlace
<1>2. r \in KeysOf(provider) /\ twice = {} /\ {"running", "creating"} \subseteq Status \ Ended
      /\ (r = "group" \/ "group" \in cloud)
  BY <1>1 DEF KeysOf, IInv, Custodial, Status, Ended, Grouped
<1>3. UNCHANGED <<provider, known, contract, load, failed, env>>
  BY DEF AzurePut, pass, Calmly
<1>4. CASE status' = [status EXCEPT ![r] = "running"] /\ Put(parts) /\ Advance
  <2>1. cloud' = cloud \cup parts /\ UNCHANGED <<twice, stranger>> /\ r \in cloud'
    BY <1>4 DEF Put
  <2>2. Creates(r, "running", parts)
    BY <1>1, <1>2, <1>3, <1>4, <2>1 DEF Creates
  <2>3. QED
    BY <2>2, CreateKeeps DEF IInv
<1>5. ASSUME NEW made \in {{}, parts, BootOf(r)}, Put(made),
             status' = [status EXCEPT ![r] = "creating"], Raise
      PROVE  IInv'
  <2>1. cloud' = cloud \cup made /\ UNCHANGED <<twice, stranger>>
    BY <1>5 DEF Put
  <2>2. Creates(r, "creating", made)
    BY <1>1, <1>2, <1>3, <1>5, <2>1 DEF Creates
  <2>3. QED
    BY <2>2, CreateKeeps DEF IInv
<1>6. QED
  BY <1>4, <1>5 DEF AzurePut

LEMMA AzureCreateKeeps ==
  ASSUME IInv, provider = "azure",
         AzureGroup \/ AzureChild \/ AzureSubnet \/ AzureDataDisk \/ AzureLaunch
  PROVE  IInv'
<1>1. PICK r \in {"group", "nsg", "network", "natAddress", "nat", "subnet", "disk",
                  "database", "loadgen"} :
        Provisioning(AzureGraphOrder, r) /\ AzurePut(r)
  BY DEF AzureGroup, AzureChild, AzureSubnet, AzureDataDisk, AzureLaunch, AzureNodes
<1>2. QED
  BY <1>1, AzureKeys, AzurePutKeeps

LEMMA AzureFindKeeps ==
  ASSUME IInv, provider = "azure", AzureFind \/ AzureGraphFinish
  PROVE  IInv'
<1>1. \/ AzureFind /\ phase = "cleanup" /\ at = 2
      \/ AzureGraphFinish /\ phase = "cleanup" /\ at = 7 /\ contract = "deleted"
  BY AzureSteps DEF AzureFind, AzureGraphFinish, IInv, Custodial, Written, PassFits
<1>2. contract = "deleted" => cloud = {}
  BY DEF IInv, Custodial, Cleared
<1>3. CASE contract = "deleted"
  BY <1>1, <1>2, <1>3, FinishKeeps DEF AzureFind, AzureGraphFinish
<1>4. CASE AzureFind /\ Refuse
  BY <1>1, <1>4, RefuseKeeps
<1>5. CASE contract # "deleted" /\ ~Refuse
  <2>1. Skip /\ at = 2
    BY <1>1, <1>5 DEF AzureFind
  <2>2. Custodial' /\ Loaded'
    BY <1>1, <2>1, SkipKeeps
  <2>3. at' = 3 /\ provider' = "azure" /\ contract' = contract /\ contract # "damaged"
    BY <1>1, <2>1 DEF Skip, Advance, plan, IInv, PassFits, LoadedAt
  <2>4. PassFits'
    BY <2>3 DEF PassFits, QuietAt, OwnAt
  <2>5. QED
    BY <2>2, <2>4 DEF IInv
<1>6. QED
  BY <1>1, <1>3, <1>4, <1>5

\* The load has stopped, or the pass is marked by the failure to stop it.
LEMMA AzureDeallocateKeeps ==
  ASSUME IInv, provider = "azure", AzureDeallocate
  PROVE  IInv'
<1> USE DEF plan, world, pass
<1>1. phase = "cleanup" /\ at = 3
  BY AzureSteps DEF AzureDeallocate, IInv, Custodial, Written
<1>2. contract \notin Unplanned /\ contract # "damaged"
  BY <1>1 DEF IInv, Custodial, Staged, PassFits, LoadedAt
<1>3. CASE Refuse
  BY <1>1, <1>3, RefuseKeeps
<1>4. ASSUME ~Refuse
      PROVE  Custodial' /\ Loaded' /\ (~traffic' \/ ~calm') /\ Advance /\ UNCHANGED plan
  <2>1. CASE /\ UNCHANGED <<plan, world, journal, pass>> /\ Advance
             /\ traffic' = FALSE /\ Calmly
    <3>1. traffic' \in BOOLEAN /\ calm' \in BOOLEAN /\ faults' \in 0..MaxFaults
      <4>1. traffic' \in BOOLEAN
        BY <2>1, Zenon
      <4>2. QED
        BY <2>1, <4>1 DEF Calmly, env, IInv, Custodial, Written
    <3>2. QED
      BY <1>1, <2>1, <3>1, MoveKeeps DEF Advance, IInv, Custodial, Written
  <2>2. CASE /\ UNCHANGED <<plan, world, journal, pass>> /\ Advance
             /\ UNCHANGED traffic /\ Fault
    <3>1. calm' \in BOOLEAN /\ faults' \in 0..MaxFaults /\ ~calm'
      BY <2>2, FaultBound DEF IInv
    <3>2. QED
      BY <1>1, <2>2, <3>1, MoveKeeps DEF Advance, IInv, Custodial, Written
  <2>3. CASE ~(journal /\ "loadgen" \in cloud) /\ Skip
    <3>1. ~traffic
      BY <1>2, <2>3 DEF IInv, Loaded, Generating, Unplanned
    <3>2. Custodial' /\ Loaded'
      BY <1>1, <2>3, SkipKeeps
    <3>3. QED
      BY <2>3, <3>1, <3>2 DEF Skip, load
  <2>4. QED
    BY <1>4, <2>1, <2>2, <2>3 DEF AzureDeallocate
<1>5. ASSUME ~Refuse PROVE PassFits'
  BY <1>1, <1>2, <1>4, <1>5 DEF PassFits, Advance, OwnAt
<1>6. QED
  BY <1>3, <1>4, <1>5 DEF IInv

\* What is not of this run is seen as long as the group exists.
LEMMA AzureInventoryKeeps ==
  ASSUME IInv, provider = "azure", AzureGraphInventory
  PROVE  IInv'
<1> DEFINE members == cloud \cup IF stranger # "none" THEN {"foreign"} ELSE {}
<1>1. phase = "cleanup" /\ at = 4
  BY AzureSteps DEF AzureGraphInventory, IInv, Custodial, Written
<1>2. CASE Refuse
  BY <1>1, <1>2, RefuseKeeps
<1>3. CASE Skip /\ ~("group" \in cloud /\ ~(members \subseteq AzureAllowed))
  <2>1. Custodial' /\ Loaded'
    BY <1>1, <1>3, SkipKeeps
  <2>2. "foreign" \notin AzureAllowed
    BY AzureKeys DEF AzureAllowed, BootOf
  <2>3. stranger = "none" \/ cloud = {}
    BY <1>3, <2>2 DEF IInv, Custodial, Grouped
  <2>4. /\ at' = 5 /\ UNCHANGED <<provider, contract, traffic, calm, stranger, cloud>>
        /\ contract # "damaged" /\ (~traffic \/ ~calm)
    BY <1>1, <1>3
       DEF Skip, Advance, plan, world, load, Calmly, env, IInv, PassFits, LoadedAt, QuietAt
  <2>5. PassFits'
    BY <2>3, <2>4 DEF PassFits
  <2>6. QED
    BY <2>1, <2>5 DEF IInv
<1>4. QED
  BY <1>2, <1>3 DEF AzureGraphInventory

LEMMA AzureDeleteKeeps ==
  ASSUME IInv, provider = "azure", AzureGraphDelete
  PROVE  IInv'
<1>1. phase = "cleanup" /\ at = 5 /\ UNCHANGED <<plan, pass>>
  BY AzureSteps DEF AzureGraphDelete, IInv, Custodial, Written
<1>2. /\ traffic \in BOOLEAN /\ failed' \in BOOLEAN /\ calm \in BOOLEAN
      /\ faults \in 0..MaxFaults /\ contract # "damaged"
      /\ (traffic => "loadgen" \in cloud) /\ (cloud # {} => "group" \in cloud)
  BY <1>1
     DEF IInv, Custodial, Written, Loaded, Generating, Grouped, PassFits, LoadedAt, pass
<1>3. CASE Remove(cloud) /\ Calmly /\ Advance
  <2>1. /\ traffic' \in BOOLEAN /\ ~traffic' /\ cloud' = {}
        /\ UNCHANGED <<twice, stranger, journal>>
    BY <1>2, <1>3, RemoveTraffic
  <2>2. at' = 6 /\ phase' = "cleanup" /\ provider' = provider
    BY <1>1, <1>3 DEF Advance
  <2>3. faults' \in 0..MaxFaults /\ calm' \in BOOLEAN
    BY <1>2, <1>3 DEF Calmly, env
  <2>4. Custodial' /\ Loaded'
    BY <1>1, <1>2, <2>1, <2>2, <2>3, ShrinkKeeps DEF IInv
  <2>5. PassFits'
    BY <1>1, <1>2, <2>1, <2>2 DEF PassFits, plan, LastDelete
  <2>6. QED
    BY <2>4, <2>5 DEF IInv
<1>4. CASE /\ "group" \in cloud /\ Fault /\ Raise
           /\ \/ UNCHANGED <<world, load>>
              \/ \E left \in {{}, {"group"}} : Remove(cloud \ left)
  <2>1. faults' \in 0..MaxFaults /\ calm' \in BOOLEAN
    BY <1>4, FaultBound DEF IInv
  <2>2. phase' = "idle" /\ at' = 1 /\ provider' = provider
    BY <1>4 DEF Raise
  <2>3. CASE UNCHANGED <<world, load>>
    BY <1>1, <1>2, <2>1, <2>2, <2>3, ShrinkKeeps, NoPass DEF IInv, world, load
  <2>4. ASSUME NEW left \in {{}, {"group"}}, Remove(cloud \ left) PROVE IInv'
    <3>1. /\ traffic' \in BOOLEAN /\ ~traffic' /\ cloud' = cloud \cap left
          /\ UNCHANGED <<twice, stranger, journal>>
      BY <1>2, <2>4, RemoveTraffic
    <3>2. QED
      BY <1>1, <1>2, <1>4, <2>1, <2>2, <3>1, ShrinkKeeps, NoPass DEF IInv
  <2>5. QED
    BY <1>4, <2>3, <2>4
<1>5. QED
  BY <1>3, <1>4 DEF AzureGraphDelete

LEMMA AzureClearKeeps ==
  ASSUME IInv, provider = "azure", AzureGraphClear
  PROVE  IInv'
<1> USE DEF IInv, Custodial, AzureGraphClear, world, load, pass, Calmly, env
<1>1. phase = "cleanup" /\ at = 6
  BY AzureSteps DEF Written
<1>2. at' = 7 /\ phase' = "cleanup" /\ provider' = "azure"
  BY <1>1 DEF Advance
<1>3. contract \notin Unplanned /\ ~traffic /\ cloud = {}
  BY <1>1 DEF Staged, PassFits, QuietAt
<1>4. KeysOf(provider) = AzureGraphKeys
  BY <1>3, AzurePlan
<1>5. Keys' = AzureGraphKeys /\ status' \in [AzureGraphKeys -> Status]
      /\ \A r \in AzureGraphKeys : status'[r] = "deleted"
  BY DEF Keys, Status
<1>6. Written' /\ Staged'
  BY <1>1, <1>2, <1>3, <1>4, <1>5 DEF Written, Staged, Contract, Unplanned
<1>7. Covered' /\ Paired' /\ Identified' /\ Cleared' /\ Grouped'
  BY <1>2, <1>3 DEF Covered, Paired, Identified, Cleared, Grouped
<1>8. Loaded'
  BY <1>2, <1>3 DEF Loaded
<1>9. PassFits'
  BY <1>2, <1>3 DEF PassFits, LastDelete
<1>10. QED
  BY <1>2, <1>6, <1>7, <1>8, <1>9

LEMMA AzureKeeps ==
  ASSUME IInv, AzureGraphNext
  PROVE  IInv'
<1>1. provider = "azure" /\ at \in 1..16
  BY DEF AzureGraphNext, IInv, Custodial, Written
<1>2. CASE AzureContract
  BY <1>1, <1>2, ContractKeeps DEF AzureContract, KeysOf
<1>3. CASE AzureGroup \/ AzureChild \/ AzureSubnet \/ AzureDataDisk \/ AzureLaunch
  BY <1>1, <1>3, AzureCreateKeeps
<1>4. CASE Complete(AzureGraphOrder)
  <2>1. LoadgenPlace = 9 /\ Len(AzureGraphOrder) = 9
    BY <1>1 DEF LoadgenPlace, AzureGraphOrder
  <2>2. Len(AzureGraphOrder) + 1 > LoadgenPlace
    BY <2>1
  <2>3. QED
    BY <1>4, <2>2, CompleteKeeps
<1>5. CASE AzureLoadContract
  BY <1>1, <1>5, LoadKeeps, AzureSteps DEF AzureLoadContract, LoadContract, LoadedAt
<1>6. CASE AzureFind \/ AzureGraphFinish
  BY <1>1, <1>6, AzureFindKeeps
<1>7. CASE AzureDeallocate \/ AzureGraphInventory
  BY <1>1, <1>7, AzureDeallocateKeeps, AzureInventoryKeeps
<1>8. CASE AzureGraphDelete \/ AzureGraphClear
  BY <1>1, <1>8, AzureDeleteKeeps, AzureClearKeeps
<1>9. QED
  BY <1>2, <1>3, <1>4, <1>5, <1>6, <1>7, <1>8 DEF AzureGraphNext

-------------------------------------------------------------------------------
(* What the graphs have in common.                                         *)

\* The plan, what exists and the place do not change.
Aside ==
  /\ UNCHANGED <<provider, phase, at, plan, cloud, twice, traffic>>
  /\ (journal => journal') /\ journal' \in BOOLEAN
  /\ stranger' \in Strange /\ (phase = "cleanup" => stranger' = stranger)
  /\ failed' = failed /\ calm' = calm
  /\ faults' \in 0..MaxFaults

LEMMA AsideKeeps ==
  ASSUME IInv, Aside
  PROVE  IInv'
<1> USE DEF IInv, Custodial, Aside, plan
<1>1. Written' /\ Staged'
  BY DEF Written, Staged, Keys
<1>2. Covered' /\ Paired' /\ Identified' /\ Cleared' /\ Grouped'
  BY DEF Covered, Paired, Identified, Cleared, Grouped, Keys
<1>3. Loaded'
  BY DEF Loaded, Generating, LoadgenPlace
<1>4. AllAnswered => AllAnswered'
  BY DEF AllAnswered, Keys
<1>5. PassFits'
  BY <1>4 DEF PassFits, LoadedAt, QuietAt, KnownAt, OwnAt, LastDelete
<1>6. QED
  BY <1>1, <1>2, <1>3, <1>5

LEMMA OthersKeep ==
  ASSUME IInv, Intrude \/ Leave \/ Drop \/ UNCHANGED vars
  PROVE  IInv'
<1>1. /\ faults \in 0..MaxFaults /\ journal \in BOOLEAN /\ stranger \in Strange
      /\ (faults < MaxFaults => faults + 1 \in 0..MaxFaults)
  BY MaxFaultsNat DEF IInv, Custodial, Written
<1>2. CASE Intrude
  <2>1. stranger' \in Strange
    BY <1>2 DEF Intrude, Guards, Strange
  <2>2. Aside
    BY <1>1, <1>2, <2>1 DEF Intrude, Aside, load, pass
  <2>3. QED
    BY <2>2, AsideKeeps
<1>3. CASE Leave
  <2>1. stranger' \in Strange
    BY <1>3 DEF Leave, Strange
  <2>2. Aside
    BY <1>1, <1>3, <2>1 DEF Leave, Aside, load, pass, env
  <2>3. QED
    BY <2>2, AsideKeeps
<1>4. CASE Drop
  <2>1. Aside
    BY <1>1, <1>4 DEF Drop, Aside, load, pass, env
  <2>2. QED
    BY <2>1, AsideKeeps
<1>5. CASE UNCHANGED vars
  <2>1. Aside
    BY <1>1, <1>5 DEF vars, Aside, world, load, pass, env
  <2>2. QED
    BY <2>1, AsideKeeps
<1>6. QED
  BY <1>2, <1>3, <1>4, <1>5

LEMMA MeasureKeeps ==
  ASSUME IInv, Measure
  PROVE  IInv'
<1> USE DEF IInv, Custodial, Measure, plan, world, pass, env
<1>1. journal' \in BOOLEAN /\ journal'
  BY Zenon DEF Measure
<1>2. contract \in {"open", "truncated", "damaged"} /\ Generating
  BY DEF Staged, Loaded
<1>3. Written' /\ Staged'
  BY <1>1, <1>2 DEF Written, Staged, Keys, Unplanned
<1>4. Covered' /\ Paired' /\ Identified' /\ Cleared' /\ Grouped'
  BY DEF Covered, Paired, Identified, Cleared, Grouped, Keys
<1>5. Loaded'
  BY <1>1, <1>2 DEF Loaded, Generating
<1>6. QED
  BY <1>3, <1>4, <1>5, NoPass

LEMMA ResumeKeeps ==
  ASSUME IInv, Resume(Providers)
  PROVE  IInv'
<1> USE DEF IInv, Custodial, Resume, plan, world, load, pass
<1>1. faults' \in 0..MaxFaults
  BY MaxFaultsNat DEF Written
<1>2. Written' /\ Staged'
  BY <1>1 DEF Written, Staged, Keys, Phase, Unplanned
<1>3. Covered' /\ Paired' /\ Identified' /\ Cleared' /\ Grouped'
  BY DEF Covered, Paired, Identified, Cleared, Grouped, Keys
<1>4. Loaded'
  BY DEF Loaded, Generating, LoadgenPlace
<1>5. QED
  BY <1>2, <1>3, <1>4, NoPass

LEMMA RestartKeeps ==
  ASSUME IInv, Restart
  PROVE  IInv'
<1> USE DEF IInv, Custodial, Restart, world, load, pass, env
<1>1. Written' /\ Staged'
  BY DEF Written, Staged, Keys, Contract, Unplanned
<1>2. Covered' /\ Paired' /\ Identified' /\ Cleared' /\ Grouped'
  BY DEF Covered, Paired, Identified, Cleared, Grouped, Keys
<1>3. Loaded'
  BY DEF Loaded, Generating
<1>4. QED
  BY <1>1, <1>2, <1>3, NoPass

LEMMA DamageKeeps ==
  ASSUME IInv, Damage
  PROVE  IInv'
<1> USE DEF IInv, Custodial, Damage, world, pass
<1>1. faults' \in 0..MaxFaults
  BY MaxFaultsNat DEF Written
<1>2. contract \notin Unplanned /\ contract \in {"open", "deleting", "deleted"}
  BY DEF Unplanned
<1>3. CASE contract' = "truncated" /\ status' = <<>> /\ known' = {} /\ journal' = FALSE
  <2>1. Keys' = {} /\ journal' \in BOOLEAN
    <3>1. journal' \in BOOLEAN
      BY <1>3, Zenon
    <3>2. QED
      BY <1>3, <3>1 DEF Keys
  <2>2. Written' /\ Staged'
    BY <1>1, <1>2, <1>3, <2>1 DEF Written, Staged, Contract, Unplanned
  <2>3. Covered' /\ Paired' /\ Identified' /\ Cleared' /\ Grouped'
    BY <1>3, <2>1 DEF Covered, Paired, Identified, Cleared, Grouped
  <2>4. Loaded'
    BY <1>3 DEF Loaded, Generating
  <2>5. QED
    BY <2>2, <2>3, <2>4, NoPass
<1>4. CASE contract' = "damaged" /\ UNCHANGED <<status, known, journal>>
  <2>1. Written' /\ Staged'
    BY <1>1, <1>2, <1>4 DEF Written, Staged, Contract, Unplanned, Keys
  <2>2. Covered' /\ Paired' /\ Identified' /\ Cleared' /\ Grouped'
    BY <1>4 DEF Covered, Paired, Identified, Cleared, Grouped, Keys
  <2>3. Loaded'
    BY <1>2, <1>4 DEF Loaded, Generating
  <2>4. QED
    BY <2>1, <2>2, <2>3, NoPass
<1>5. QED
  BY <1>3, <1>4 DEF Damage

LEMMA BeginKeeps ==
  ASSUME IInv, BeginCleanup
  PROVE  IInv'
<1> USE DEF IInv, Custodial, BeginCleanup, Attested, world, load
<1>1. failed' \in BOOLEAN /\ calm' \in BOOLEAN
  BY Zenon DEF BeginCleanup
<1>2. CASE contract = "unwritten" /\ phase' = "destroyed" /\ contract' = "preflight"
  <2>1. Written' /\ Staged'
    BY <1>1, <1>2 DEF Written, Staged, Keys, Contract, Unplanned, Phase
  <2>2. Covered' /\ Paired' /\ Identified' /\ Cleared' /\ Grouped'
    BY <1>2 DEF Covered, Paired, Identified, Cleared, Grouped, Keys
  <2>3. Loaded'
    BY <1>2 DEF Loaded, Generating
  <2>4. QED
    BY <1>2, <2>1, <2>2, <2>3, NoPass
<1>3. CASE contract \in {"empty", "truncated"} /\ phase' = "idle" /\ UNCHANGED contract
  <2>1. Written' /\ Staged'
    BY <1>1, <1>3 DEF Written, Staged, Keys, Phase
  <2>2. Covered' /\ Paired' /\ Identified' /\ Cleared' /\ Grouped'
    BY <1>3 DEF Covered, Paired, Identified, Cleared, Grouped, Keys
  <2>3. Loaded'
    BY <1>3 DEF Loaded, Generating
  <2>4. QED
    BY <1>3, <2>1, <2>2, <2>3, NoPass
<1>4. CASE /\ contract \notin {"unwritten", "empty", "truncated"}
           /\ phase' = "cleanup" /\ UNCHANGED contract
  <2>1. contract \notin Unplanned
    BY <1>4 DEF Staged, Unplanned
  <2>2. Written' /\ Staged'
    BY <1>1, <1>4, <2>1 DEF Written, Staged, Keys, Phase
  <2>3. Covered' /\ Paired' /\ Identified' /\ Cleared' /\ Grouped'
    BY <1>4 DEF Covered, Paired, Identified, Cleared, Grouped, Keys
  <2>4. Loaded'
    BY <1>4 DEF Loaded, Generating
  <2>5. PassFits'
    BY DEF PassFits, LoadedAt, QuietAt, KnownAt, OwnAt
  <2>6. QED
    BY <2>2, <2>3, <2>4, <2>5
<1>5. QED
  BY <1>2, <1>3, <1>4

-------------------------------------------------------------------------------
(* The invariant.                                                          *)

LEMMA InitIInv == Init => IInv
<1> SUFFICES ASSUME Init PROVE IInv
  OBVIOUS
<1> USE DEF Init, Begin
<1>1. /\ provider \in {"aws", "oci", "gcp", "azure"} \cap Providers
      /\ at = 1 /\ phase = "provision" /\ contract = "unwritten"
      /\ cloud = {} /\ twice = {} /\ known = {} /\ Keys = {} /\ ~traffic
  BY ProvidersKnown DEF Keys
<1>2. /\ journal \in BOOLEAN /\ traffic \in BOOLEAN
      /\ failed \in BOOLEAN /\ calm \in BOOLEAN
  BY Zenon
<1>3. Written /\ Staged
  BY <1>1, <1>2, MaxFaultsNat DEF Written, Strange, Staged, Phase, Contract, Unplanned
<1>4. Covered /\ Paired /\ Identified /\ Cleared /\ Grouped
  BY <1>1 DEF Covered, Paired, Identified, Cleared, Grouped
<1>5. Loaded /\ PassFits
  BY <1>1 DEF Loaded, PassFits, LoadgenPlace
<1>6. QED
  BY <1>1, <1>3, <1>4, <1>5 DEF IInv, Custodial

LEMMA StepIInv == IInv /\ [Next]_vars => IInv'
<1> SUFFICES ASSUME IInv, [Next]_vars PROVE IInv'
  OBVIOUS
<1>1. CASE Graph
  BY <1>1, AwsKeeps, OciKeeps, GcpKeeps, AzureKeeps DEF Graph
<1>2. CASE Cease
  BY <1>2, RefuseKeeps DEF Cease
<1>3. CASE Abort
  BY <1>3, AbortKeeps
<1>4. CASE AwsReconcileRejection
  BY <1>4, AwsRejectionKeeps
<1>5. CASE Intrude \/ Leave \/ Drop \/ UNCHANGED vars
  BY <1>5, OthersKeep
<1>6. QED
  BY <1>1, <1>2, <1>3, <1>4, <1>5, MeasureKeeps, ResumeKeeps, BeginKeeps,
     RestartKeeps, DamageKeeps
     DEF Next

\* The invariant of all runs: what exists is covered by the plan, load has a
\* generator on record, and a pass knows what its earlier steps have settled.
THEOREM Inductive == Spec => []IInv
<1>1. QED
  BY InitIInv, StepIInv, PTL DEF Spec

-------------------------------------------------------------------------------
(* What follows from it.                                                   *)

\* TypeOK: the state of a run has the types that the module gives it.
THEOREM DistributedTypeCorrect == Spec => []TypeOK
<1>1. IInv => TypeOK
  <2> SUFFICES ASSUME IInv PROVE TypeOK
    OBVIOUS
  <2> USE DEF IInv, Custodial
  <2>1. (\A r \in Keys : status[r] \in Status) /\ known \subseteq Keys
    BY OwnPlan DEF Written
  <2>2. QED
    BY <2>1 DEF TypeOK, Written
<1>2. QED
  BY <1>1, Inductive, PTL

\* TombstonesAreTrue: with any provider, whatever fails and however often
\* provisioning and cleanup are asked for, what is recorded as deleted does not
\* exist, and a destroyed run has left nothing.
THEOREM TombstonesHold == Spec => []TombstonesAreTrue
<1>1. IInv => TombstonesAreTrue
  <2> SUFFICES ASSUME IInv PROVE TombstonesAreTrue
    OBVIOUS
  <2> USE DEF IInv, Custodial
  <2>1. ASSUME NEW r \in Keys, status[r] = "deleted"
        PROVE  cloud \cap ({r} \cup BootOf(r)) = {}
    <3>1. CASE provider = "gcp"
      BY <2>1, <3>1 DEF Cleared
    <3>2. CASE provider # "gcp"
      BY <2>1, <3>2 DEF Covered, Ended
    <3>3. QED
      BY <3>1, <3>2
  <2>2. QED
    BY <2>1 DEF TombstonesAreTrue, Staged
<1>2. QED
  BY <1>1, Inductive, PTL

\* CreatedOnce: a create whose answer was lost is never sent for what exists.
THEOREM NothingIsCreatedTwice == Spec => []CreatedOnce
<1>1. IInv => CreatedOnce
  BY DEF IInv, Custodial, CreatedOnce
<1>2. QED
  BY <1>1, Inductive, PTL

-------------------------------------------------------------------------------
(* What a step does to what exists.                                        *)

Deleting == AwsGraphDelete \/ OciGraphDelete \/ GcpGraphDelete \/ AzureGraphDelete

Grows == /\ phase = "provision" /\ phase' \in {"provision", "ready", "idle"}
         /\ cloud \subseteq cloud'

Shrinks == /\ phase = "cleanup" /\ phase' \in {"cleanup", "idle"}
           /\ at \in KnownAt..LastDelete /\ at \in OwnAt..LastDelete
           /\ cloud' \subseteq cloud
           /\ traffic' => traffic
           /\ provider = "azure" /\ cloud' # cloud => ~traffic'

Rests == /\ cloud' = cloud
         /\ phase = "destroyed" => phase' = "destroyed"
         /\ phase = "cleanup" => (traffic' => traffic)

LEMMA ProvisioningGrows ==
  ASSUME phase = "provision", phase' \in {"provision", "ready", "idle"},
         \/ \E parts : Make(parts) \/ Put(parts)
         \/ UNCHANGED cloud \/ UNCHANGED world
  PROVE  Grows
BY DEF Grows, Make, Put, world

LEMMA DeletingShrinks ==
  ASSUME IInv, phase = "cleanup", phase' \in {"cleanup", "idle"},
         at \in KnownAt..LastDelete, at \in OwnAt..LastDelete,
         \/ \E parts : /\ Remove(parts)
                       /\ provider = "azure" => "loadgen" \in parts \cup ({"loadgen"} \ cloud)
         \/ UNCHANGED <<world, load>>
  PROVE  Shrinks
<1>1. traffic \in BOOLEAN /\ (traffic => "loadgen" \in cloud)
  BY DEF IInv, Custodial, Written, Loaded, Generating
<1>2. CASE UNCHANGED <<world, load>>
  BY <1>2 DEF Shrinks, world, load
<1>3. ASSUME NEW parts, Remove(parts),
             provider = "azure" => "loadgen" \in parts \cup ({"loadgen"} \ cloud)
      PROVE  Shrinks
  BY <1>1, <1>3, RemoveTraffic DEF Shrinks
<1>4. QED
  BY <1>2, <1>3

LEMMA CommonRests ==
  ASSUME \/ Skip \/ Refuse
         \/ (Finish /\ UNCHANGED plan) \/ Stop \/ StopExact
         \/ \E keys : SaveContract(keys)
         \/ \E order : Complete(order),
         phase # "destroyed"
  PROVE  Rests
<1>1. CASE Stop
  BY <1>1 DEF Stop, Rests, world
<1>2. CASE Skip \/ Refuse \/ (Finish /\ UNCHANGED plan)
  BY <1>2 DEF Skip, Refuse, Finish, Rests, world, load
<1>3. CASE (\E keys : SaveContract(keys)) \/ (\E order : Complete(order))
  BY <1>3 DEF SaveContract, Complete, Rests, world, load
<1>4. QED
  BY <1>1, <1>2, <1>3 DEF StopExact

LEMMA AwsStepKind ==
  ASSUME IInv, AwsGraphNext
  PROVE  Grows \/ (Shrinks /\ AwsGraphDelete) \/ Rests
<1> USE DEF Advance, Raise
<1>1. provider = "aws" /\ at \in 1..16
  BY DEF AwsGraphNext, IInv, Custodial, Written
<1>2. CASE AwsContract \/ Complete(AwsGraphOrder)
  BY <1>2, CommonRests DEF AwsContract, SaveContract, Complete
<1>3. CASE AwsEnsure
  <2> PICK r \in AwsGraphKeys :
        /\ Provisioning(AwsGraphOrder, r)
        /\ Refuse \/ AwsAdopt(r) \/ AwsDispatch(r)
    BY <1>3 DEF AwsEnsure
  <2>1. phase = "provision"
    BY DEF Provisioning
  <2>2. QED
    BY <2>1, ProvisioningGrows DEF Refuse, AwsAdopt, AwsDispatch
<1>4. CASE AwsAudit \/ AwsRecoverGraph
  BY <1>4 DEF AwsAudit, AwsRecoverGraph, AwsReconcileAll, Provisioning, Cleaning, Rests,
              world, load
<1>5. CASE AwsLoadContract \/ AwsQuiesce \/ AwsGraphFinish
  BY <1>5, CommonRests
     DEF AwsLoadContract, LoadContract, AwsQuiesce, AwsGraphFinish, Cleaning
<1>6. CASE AwsGraphDelete
  <2> PICK r \in AwsGraphKeys : AwsGraphDelete!(r)
    BY <1>6 DEF AwsGraphDelete
  <2>1. phase = "cleanup" /\ at \in 4..11
    BY <1>1, AwsSteps
  <2>2. QED
    BY <1>1, <1>6, <2>1, DeletingShrinks DEF KnownAt, OwnAt, LastDelete
<1>7. QED
  BY <1>2, <1>3, <1>4, <1>5, <1>6 DEF AwsGraphNext

LEMMA OciStepKind ==
  ASSUME IInv, OciGraphNext
  PROVE  Grows \/ (Shrinks /\ OciGraphDelete) \/ Rests
<1> USE DEF Advance, Raise
<1>1. provider = "oci" /\ at \in 1..16
  BY DEF OciGraphNext, IInv, Custodial, Written
<1>2. CASE OciContract \/ Complete(OciGraphOrder)
  BY <1>2, CommonRests DEF OciContract, SaveContract, Complete
<1>3. CASE OciEnsure
  <2> PICK r \in OciGraphKeys :
        /\ Provisioning(OciGraphOrder, r)
        /\ OciDispatch(r) \/ OciRecoverOne(r) \/ (UNCHANGED world /\ Advance)
    BY <1>3 DEF OciEnsure
  <2>1. phase = "provision"
    BY DEF Provisioning
  <2>2. QED
    BY <2>1, ProvisioningGrows DEF OciDispatch, OciRecoverOne
<1>4. CASE OciRecoverGraph \/ OciVerify \/ OciGraphEnd \/ OciAlreadyDeleted
  BY <1>4 DEF OciRecoverGraph, OciVerify, OciGraphEnd, OciAlreadyDeleted, Cleaning, Rests,
              world, load
<1>5. CASE OciLoadContract \/ OciQuiesce \/ OciAttest
  BY <1>5, CommonRests
     DEF OciLoadContract, LoadContract, OciQuiesce, OciAttest, Cleaning
<1>6. CASE OciGraphDelete
  <2> PICK r \in OciGraphKeys : OciGraphDelete!(r)
    BY <1>6 DEF OciGraphDelete
  <2>1. phase = "cleanup" /\ at \in 5..13
    BY <1>1, OciSteps
  <2>2. QED
    BY <1>1, <1>6, <2>1, DeletingShrinks DEF KnownAt, OwnAt, LastDelete
<1>7. QED
  BY <1>2, <1>3, <1>4, <1>5, <1>6 DEF OciGraphNext

LEMMA GcpStepKind ==
  ASSUME IInv, GcpGraphNext
  PROVE  Grows \/ (Shrinks /\ GcpGraphDelete) \/ Rests
<1> USE DEF Advance, Raise
<1>1. provider = "gcp" /\ at \in 1..16
  BY DEF GcpGraphNext, IInv, Custodial, Written
<1>2. CASE GcpContract \/ Complete(GcpGraphOrder)
  BY <1>2, CommonRests DEF GcpContract, SaveContract, Complete
<1>3. CASE GcpGraphCreate \/ GcpGraphRouter \/ GcpGraphLaunch
  <2>1. PICK r \in GcpGraphKeys :
          /\ Provisioning(GcpGraphOrder, r)
          /\ \/ GcpGraphInsert(r)
             \/ (\E parts : Put(parts)) /\ Raise
             \/ UNCHANGED world /\ Raise
    <3>1. CASE GcpGraphCreate
      BY <3>1 DEF GcpGraphCreate
    <3>2. CASE GcpGraphRouter
      BY <3>2, GcpKeys DEF GcpGraphRouter
    <3>3. CASE GcpGraphLaunch
      BY <3>3, GcpKeys DEF GcpGraphLaunch
    <3>4. QED
      BY <1>3, <3>1, <3>2, <3>3
  <2>2. phase = "provision"
    BY <2>1 DEF Provisioning
  <2>3. QED
    BY <2>1, <2>2, ProvisioningGrows DEF GcpGraphInsert, GcpAdopt
<1>4. CASE GcpGraphSurvey \/ GcpGraphSweep
  BY <1>4 DEF GcpGraphSurvey, GcpGraphSweep, Refuse, Cleaning, Rests, world, load
<1>5. CASE GcpGraphMarker \/ GcpLoadContract \/ GcpGraphQuiesce \/ GcpGraphFinish
  BY <1>5, CommonRests
     DEF GcpGraphMarker, GcpLoadContract, LoadContract, GcpGraphQuiesce, GcpGraphFinish,
         Cleaning
<1>6. CASE GcpGraphDelete
  <2> PICK r \in GcpGraphKeys : GcpGraphDelete!(r)
    BY <1>6 DEF GcpGraphDelete
  <2>1. phase = "cleanup" /\ at \in 5..13
    BY <1>1, GcpSteps
  <2>2. QED
    BY <1>1, <1>6, <2>1, DeletingShrinks DEF KnownAt, OwnAt, LastDelete
<1>7. QED
  BY <1>2, <1>3, <1>4, <1>5, <1>6 DEF GcpGraphNext

LEMMA AzureStepKind ==
  ASSUME IInv, AzureGraphNext
  PROVE  Grows \/ (Shrinks /\ AzureGraphDelete) \/ Rests
<1> USE DEF Advance, Raise
<1>1. provider = "azure" /\ at \in 1..16
  BY DEF AzureGraphNext, IInv, Custodial, Written
<1>2. CASE AzureContract \/ Complete(AzureGraphOrder)
  BY <1>2, CommonRests DEF AzureContract, SaveContract, Complete
<1>3. CASE AzureGroup \/ AzureChild \/ AzureSubnet \/ AzureDataDisk \/ AzureLaunch
  <2>1. PICK r : Provisioning(AzureGraphOrder, r) /\ AzurePut(r)
    BY <1>3 DEF AzureGroup, AzureChild, AzureSubnet, AzureDataDisk, AzureLaunch
  <2>2. phase = "provision"
    BY <2>1 DEF Provisioning
  <2>3. QED
    BY <2>1, <2>2, ProvisioningGrows DEF AzurePut
<1>4. CASE AzureDeallocate \/ AzureGraphClear
  BY <1>4 DEF AzureDeallocate, AzureGraphClear, Skip, Refuse, Cleaning, Rests, world, load
<1>5. CASE AzureLoadContract \/ AzureFind \/ AzureGraphInventory \/ AzureGraphFinish
  BY <1>5, CommonRests
     DEF AzureLoadContract, LoadContract, AzureFind, AzureGraphInventory, AzureGraphFinish,
         Cleaning
<1>6. CASE AzureGraphDelete
  <2>1. phase = "cleanup" /\ at = 5
    BY <1>1, <1>6, AzureSteps DEF AzureGraphDelete
  <2>2. /\ phase' \in {"cleanup", "idle"}
        /\ \/ \E parts : /\ Remove(parts)
                         /\ "loadgen" \in parts \cup ({"loadgen"} \ cloud)
           \/ UNCHANGED <<world, load>>
    <3>1. CASE Remove(cloud) /\ Advance
      BY <2>1, <3>1
    <3>2. ASSUME NEW left \in {{}, {"group"}}, Remove(cloud \ left), Raise
          PROVE  <2>2
      BY <3>2
    <3>3. CASE UNCHANGED <<world, load>> /\ Raise
      BY <3>3
    <3>4. QED
      BY <1>6, <3>1, <3>2, <3>3 DEF AzureGraphDelete
  <2>3. QED
    BY <1>1, <1>6, <2>1, <2>2, DeletingShrinks DEF KnownAt, OwnAt, LastDelete
<1>7. QED
  BY <1>2, <1>3, <1>4, <1>5, <1>6 DEF AzureGraphNext

LEMMA StepKind ==
  ASSUME IInv, [Next]_vars
  PROVE  Grows \/ Shrinks \/ Rests
<1>1. CASE Graph
  BY <1>1, AwsStepKind, OciStepKind, GcpStepKind, AzureStepKind DEF Graph
<1>2. CASE Cease
  BY <1>2, CommonRests DEF Cease
<1>3. CASE ~Graph /\ ~Cease
  BY <1>3
     DEF Next, Rests, Measure, Resume, BeginCleanup, Abort, AwsReconcileRejection, Restart,
         Damage, Intrude, Leave, Drop, Raise, vars, world, load
<1>4. QED
  BY <1>1, <1>2, <1>3

-------------------------------------------------------------------------------
(* What a step may never do.                                               *)

\* AllIsKnownBeforeAnyDeletion: nothing is deleted while something foreign is
\* attached, a create is open, or the record does not fit together.
THEOREM DeletionIsInformed == Spec => AllIsKnownBeforeAnyDeletion
<1>1. ASSUME IInv, [Next]_vars, phase = "cleanup", cloud' # cloud
      PROVE  /\ stranger = "none" /\ Readable
             /\ provider # "azure" => \A r \in Keys \ known : status[r] \notin Unanswered
  <2>1. Shrinks
    BY <1>1, StepKind DEF Grows, Rests
  <2>2. /\ provider # "azure" => AllAnswered
        /\ stranger = "none" \/ cloud = {}
        /\ contract # "damaged"
    <3>1. /\ at \in 1..16 /\ provider \in {"aws", "oci", "gcp", "azure"}
          /\ at \in KnownAt..LastDelete /\ at \in OwnAt..LastDelete
      BY <1>1, <2>1 DEF IInv, Custodial, Written, Shrinks
    <3>2. at >= LoadedAt
      BY <3>1 DEF LoadedAt, KnownAt, LastDelete
    <3>3. QED
      BY <1>1, <3>1, <3>2 DEF IInv, PassFits
  <2>3. contract \notin {"empty", "truncated"} /\ cloud # {}
    BY <1>1, <2>1 DEF Shrinks, IInv, Custodial, Staged, Unplanned
  <2>4. QED
    BY <2>2, <2>3 DEF AllAnswered, Readable
<1>2. IInv /\ [Next]_vars =>
        [phase = "cleanup" /\ cloud' # cloud =>
           /\ stranger = "none" /\ Readable
           /\ provider # "azure" => \A r \in Keys \ known : status[r] \notin Unanswered]_vars
  BY <1>1
<1>3. QED
  BY <1>2, Inductive, PTL DEF Spec, AllIsKnownBeforeAnyDeletion

\* A step that ends a pass although load is sent has met a failure, in this step
\* or an earlier one, a record that does not fit, or a load generator or a group
\* that is not what was made.
Interrupts == ~calm' \/ contract = "damaged" \/ stranger \in Guards

LEMMA AwsEndIsQuiet ==
  ASSUME IInv, AwsGraphNext, phase = "cleanup", phase' = "idle", traffic
  PROVE  Interrupts
<1>1. provider = "aws" /\ at \in 1..2
  <2>1. provider = "aws" /\ at \in 1..16
    BY DEF AwsGraphNext, IInv, Custodial, Written
  <2>2. QED
    BY <2>1 DEF IInv, PassFits, QuietAt
<1>2. AwsLoadContract \/ AwsQuiesce
  <2>1. ~(AwsContract \/ AwsEnsure \/ AwsAudit \/ Complete(AwsGraphOrder))
    BY DEF AwsContract, SaveContract, AwsEnsure, AwsAudit, Provisioning, Complete
  <2>2. ~(AwsRecoverGraph \/ AwsGraphFinish)
    BY <1>1, AwsSteps DEF AwsRecoverGraph, AwsGraphFinish
  <2>3. ASSUME AwsGraphDelete PROVE FALSE
    <3>1. PICK r \in AwsGraphKeys : Cleaning(AwsGraphSteps, r)
      BY <2>3 DEF AwsGraphDelete
    <3>2. QED
      BY <1>1, <3>1, AwsSteps
  <2>4. QED
    BY <2>1, <2>2, <2>3 DEF AwsGraphNext
<1>3. QED
  BY <1>2
     DEF AwsLoadContract, LoadContract, AwsQuiesce, Skip, StopExact, Stop, Advance, Fault,
         Guards, Interrupts

LEMMA OciEndIsQuiet ==
  ASSUME IInv, OciGraphNext, phase = "cleanup", phase' = "idle", traffic
  PROVE  Interrupts
<1>1. provider = "oci" /\ at \in 1..2 /\ "loadgen" \in cloud
  <2>1. provider = "oci" /\ at \in 1..16 /\ "loadgen" \in cloud
    BY DEF OciGraphNext, IInv, Custodial, Written, Loaded, Generating
  <2>2. QED
    BY <2>1 DEF IInv, PassFits, QuietAt
<1>2. OciLoadContract \/ OciQuiesce \/ OciAlreadyDeleted
  <2>1. ~(OciContract \/ OciEnsure \/ Complete(OciGraphOrder))
    BY DEF OciContract, SaveContract, OciEnsure, Provisioning, Complete
  <2>2. ~(OciRecoverGraph \/ OciVerify \/ OciGraphEnd \/ OciAttest)
    BY <1>1, OciSteps DEF OciRecoverGraph, OciVerify, OciGraphEnd, OciAttest
  <2>3. ASSUME OciGraphDelete PROVE FALSE
    <3>1. PICK r \in OciGraphKeys : Cleaning(OciGraphSteps, r)
      BY <2>3 DEF OciGraphDelete
    <3>2. QED
      BY <1>1, <3>1, OciSteps
  <2>4. QED
    BY <2>1, <2>2, <2>3 DEF OciGraphNext
<1>3. QED
  BY <1>1, <1>2
     DEF OciLoadContract, LoadContract, OciQuiesce, OciAlreadyDeleted, Skip, StopExact,
         Stop, Advance, Fault, Guards, Interrupts

LEMMA GcpEndIsQuiet ==
  ASSUME IInv, GcpGraphNext, phase = "cleanup", phase' = "idle", traffic
  PROVE  Interrupts
<1>1. provider = "gcp" /\ at \in 1..3
  <2>1. provider = "gcp" /\ at \in 1..16
    BY DEF GcpGraphNext, IInv, Custodial, Written
  <2>2. QED
    BY <2>1 DEF IInv, PassFits, QuietAt
<1>2. GcpGraphMarker \/ GcpLoadContract \/ GcpGraphQuiesce
  <2>1. ~(GcpContract \/ GcpGraphCreate \/ GcpGraphRouter \/ GcpGraphLaunch
           \/ Complete(GcpGraphOrder))
    BY DEF GcpContract, SaveContract, GcpGraphCreate, GcpGraphRouter, GcpGraphLaunch,
           Provisioning, Complete
  <2>2. ~(GcpGraphSurvey \/ GcpGraphSweep \/ GcpGraphFinish)
    BY <1>1, GcpSteps DEF GcpGraphSurvey, GcpGraphSweep, GcpGraphFinish
  <2>3. ASSUME GcpGraphDelete PROVE FALSE
    <3>1. PICK r \in GcpGraphKeys : Cleaning(GcpGraphSteps, r)
      BY <2>3 DEF GcpGraphDelete
    <3>2. QED
      BY <1>1, <3>1, GcpSteps
  <2>4. QED
    BY <2>1, <2>2, <2>3 DEF GcpGraphNext
<1>3. QED
  BY <1>2
     DEF GcpGraphMarker, GcpLoadContract, LoadContract, GcpGraphQuiesce, Skip, StopExact,
         Stop, Finish, Advance, Fault, Guards, Interrupts

LEMMA AzureEndIsQuiet ==
  ASSUME IInv, AzureGraphNext, phase = "cleanup", phase' = "idle", traffic
  PROVE  Interrupts
<1>1. provider = "azure" /\ at \in 1..5 /\ (at >= 4 => ~calm)
  BY DEF AzureGraphNext, IInv, Custodial, Written, PassFits, QuietAt
<1>2. AzureLoadContract \/ AzureFind \/ AzureDeallocate \/ AzureGraphInventory
        \/ AzureGraphDelete
  BY <1>1, AzureSteps
     DEF AzureGraphNext, AzureContract, SaveContract, AzureGroup, AzureChild, AzureSubnet,
         AzureDataDisk, AzureLaunch, Provisioning, Complete, AzureGraphClear,
         AzureGraphFinish
<1>3. CASE AzureLoadContract \/ AzureFind \/ AzureDeallocate
  BY <1>1, <1>3
     DEF AzureLoadContract, LoadContract, AzureFind, AzureDeallocate, Skip, Finish, Advance,
         Guards, Interrupts
<1>4. CASE AzureGraphInventory
  <2>1. at = 4 /\ Calmly
    BY <1>1, <1>4, AzureSteps DEF AzureGraphInventory, Skip, Refuse
  <2>2. QED
    BY <1>1, <2>1 DEF Calmly, env, Interrupts
<1>5. CASE AzureGraphDelete
  BY <1>5 DEF AzureGraphDelete, Advance, Fault, Interrupts
<1>6. QED
  BY <1>2, <1>3, <1>4, <1>5

LEMMA CalmEndIsQuiet ==
  ASSUME IInv, [Next]_vars, phase = "cleanup", phase' = "idle", traffic
  PROVE  Interrupts
<1>1. CASE Graph
  BY <1>1, AwsEndIsQuiet, OciEndIsQuiet, GcpEndIsQuiet, AzureEndIsQuiet DEF Graph
<1>2. CASE Abort
  BY <1>2 DEF Abort, Fault, Interrupts
<1>3. CASE ~Graph /\ ~Abort
  BY <1>3
     DEF Next, Cease, Measure, Resume, BeginCleanup, AwsReconcileRejection, Restart, Damage,
         Intrude, Leave, Drop, vars
<1>4. QED
  BY <1>1, <1>2, <1>3

\* TrafficStopsFirst: load does not run on while resources are deleted, nor
\* after a pass that ended without a failure, unless what is damaged or changed is
\* the record, the load generator, or on Azure its group.
THEOREM LoadStopsFirst == Spec => TrafficStopsFirst
<1>1. ASSUME IInv, [Next]_vars, phase = "cleanup", cloud' # cloud
      PROVE  ~traffic'
  <2>1. Shrinks
    BY <1>1, StepKind DEF Grows, Rests
  <2>2. CASE provider = "azure"
    BY <1>1, <2>1, <2>2 DEF Shrinks
  <2>3. CASE provider # "azure"
    <3>1. /\ at \in 1..16 /\ provider \in {"aws", "oci", "gcp"}
          /\ at \in KnownAt..LastDelete
      BY <1>1, <2>1, <2>3 DEF IInv, Custodial, Written, Shrinks
    <3>2. at >= QuietAt
      BY <3>1 DEF QuietAt, KnownAt, LastDelete
    <3>3. ~traffic
      BY <1>1, <2>3, <3>1, <3>2 DEF IInv, PassFits
    <3>4. QED
      BY <2>1, <3>3 DEF Shrinks
  <2>4. QED
    BY <2>2, <2>3
<1>2. ASSUME IInv, [Next]_vars, phase = "cleanup",
             phase' = "idle", calm', Readable, stranger \notin Guards
      PROVE  ~traffic'
  <2>1. traffic' => traffic
    BY <1>2, StepKind DEF Grows, Shrinks, Rests
  <2>2. QED
    BY <1>2, <2>1, CalmEndIsQuiet DEF Interrupts, Readable
<1>3. IInv /\ [Next]_vars =>
        [phase = "cleanup" =>
           /\ cloud' # cloud => ~traffic'
           /\ phase' = "idle" /\ calm' /\ Readable /\ stranger \notin Guards => ~traffic']_vars
  BY <1>1, <1>2
<1>4. QED
  BY <1>3, Inductive, PTL DEF Spec, TrafficStopsFirst

-------------------------------------------------------------------------------
(* The refinement.                                                         *)

\* What exists can be traced from the plan.
LEMMA AllIsTraced ==
  ASSUME IInv
  PROVE  cloud \subseteq Traced
<1> USE DEF IInv, Custodial
<1> DEFINE entered == {r \in Keys : status[r] \notin {"planned", "deleted"}}
           all == UNION {{r} \cup BootOf(r) : r \in Keys}
<1>1. CASE contract = "truncated"
  BY <1>1 DEF Traced
<1>2. CASE contract \in Unplanned \ {"truncated"}
  BY <1>2 DEF Staged
<1>3. CASE contract \notin Unplanned
  <2>1. Keys = KeysOf(provider) /\ cloud \subseteq all
    BY <1>3, OwnPlan DEF Written, PartsOf
  <2>2. CASE provider = "azure" /\ "group" \in entered
    <3>1. Traced = all
      BY <1>3, <2>2 DEF Traced, Unplanned
    <3>2. QED
      BY <2>1, <3>1
  <2>3. CASE provider = "azure" /\ "group" \notin entered
    <3>1. "group" \in Keys
      BY <1>3, <2>3, AzurePlan, AzureKeys
    <3>2. "group" \notin cloud
      BY <2>3, <3>1 DEF Covered, Ended
    <3>3. QED
      BY <2>3, <3>2 DEF Grouped
  <2>4. CASE provider = "gcp"
    <3>1. Traced = entered \cup (Keys \cap GcpGraphBoots)
      BY <1>3, <2>4 DEF Traced, Unplanned
    <3>2. Keys = GcpGraphKeys
      BY <1>3, <2>4, GcpPlan
    <3>3. cloud \subseteq GcpGraphKeys
      BY <2>1, <3>2, GcpKeys DEF BootOf
    <3>4. QED
      BY <2>4, <3>1, <3>2, <3>3 DEF Covered, Ended
  <2>5. CASE provider \in {"aws", "oci"}
    <3>1. Traced = UNION {{r} \cup BootOf(r) : r \in entered}
      BY <1>3, <2>5 DEF Traced, Unplanned
    <3>2. ASSUME NEW q \in cloud PROVE q \in Traced
      <4>1. PICK r \in Keys : q \in {r} \cup BootOf(r)
        BY <2>1
      <4>2. r \in entered
        BY <2>5, <4>1 DEF Covered, Ended
      <4>3. QED
        BY <3>1, <4>1, <4>2
    <3>3. QED
      BY <3>2
  <2>6. QED
    BY <2>2, <2>3, <2>4, <2>5
<1>4. QED
  BY <1>1, <1>2, <1>3

LEMMA InitTraced == Init => C!Init
<1> SUFFICES ASSUME Init PROVE C!Init
  OBVIOUS
<1>1. Keys = {}
  BY DEF Init, Begin, Keys
<1>2. Traced = {}
  <2>1. contract = "unwritten" /\ {r \in Keys : status[r] \notin {"planned", "deleted"}} = {}
    BY <1>1 DEF Init, Begin
  <2>2. UNION {{r} \cup BootOf(r) : r \in {}} = {}
    OBVIOUS
  <2>3. QED
    BY <1>1, <2>1, <2>2 DEF Traced
<1>3. phase # "destroyed" /\ cloud = {}
  BY DEF Init, Begin
<1>4. QED
  BY <1>2, <1>3 DEF C!Init

\* ImplementsCustody: a run with any provider keeps what Custody promises.
\* Nothing ever exists that the saved plan does not lead to, the plan is given
\* up only when nothing is left, and nothing follows the end of a run.
THEOREM GraphsImplementCustody == Spec => ImplementsCustody
<1>1. IInv => cloud \subseteq Traced
  BY AllIsTraced
<1>2. ASSUME IInv, IInv', (cloud \subseteq Traced)', [Next]_vars
      PROVE  [C!Next]_<<cloud, Traced, phase = "destroyed">>
  <2> USE DEF C!Next, C!Create, C!Vanish, C!Finish, C!InSight
  <2>1. Grows \/ Shrinks \/ Rests
    BY <1>2, StepKind
  <2>2. CASE Grows
    BY <1>2, <2>2 DEF Grows
  <2>3. CASE Shrinks
    BY <1>2, <2>3 DEF Shrinks
  <2>4. CASE Rests
    <3>1. phase' = "destroyed" => cloud = {} /\ cloud' = {}
      BY <1>2, <2>4 DEF Rests, IInv, Custodial, Staged
    <3>2. QED
      BY <1>2, <2>4, <3>1 DEF Rests
  <2>5. QED
    BY <2>1, <2>2, <2>3, <2>4
<1>3. QED
  BY <1>1, <1>2, InitTraced, Inductive, PTL DEF Spec, ImplementsCustody, C!Spec
===============================================================================
