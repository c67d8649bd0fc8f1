---------------------------- MODULE CompactRunProofs ----------------------------
(***************************************************************************)
(* TLAPS proofs about CompactRun, for any of the four providers, any plans *)
(* and any number of failures.  The argument: what exists hangs on the     *)
(* root of its run (Stands), for clouds refuse to delete what something    *)
(* else needs; the root, and what can outlive it, is on record as long as  *)
(* it exists (Kept); and each step of a pass guarantees something to the   *)
(* steps behind it (Pass), in the end that nothing is left.                *)
(***************************************************************************)
EXTENDS CompactRun, TLAPS

\* What a step does to what exists and can be traced.
Grows ==
  /\ provider' = provider
  /\ cloud \subseteq cloud' /\ Untraced' \subseteq Untraced
  /\ phase # "destroyed" /\ phase' # "destroyed"

Shrinks ==
  /\ provider' = provider
  /\ cloud' \subseteq cloud /\ Untraced' = Untraced
  /\ phase' = "destroyed" <=> phase = "destroyed"

Ends ==
  /\ provider' = provider
  /\ phase' = "destroyed"
  /\ cloud \subseteq Untraced /\ cloud' = cloud /\ Untraced' = Untraced

StepKind == Grows \/ Shrinks \/ Ends

Typed ==
  /\ provider \in {"aws", "gcp", "azure", "oci"}
  /\ at \in Nat \ {0}
  /\ phase \in Phase

LEMMA NothingUntraced ==
  ASSUME provider # "oci", provider' = provider
  PROVE  Untraced = {} /\ Untraced' = {}
BY DEF Untraced

-------------------------------------------------------------------------------
(* AWS.                                                                    *)

AwsNames ==
  {"vpc", "gateway", "attachment", "subnet", "routeTable", "association",
   "group", "peerGroup", "peerRule", "loadgenGroup", "webRule", "keyPair",
   "volume", "instance", "peer", "loadgen", "mount"}

AwsRoots == {"vpc", "gateway", "keyPair", "volume"}

\* What exists in turn hangs on the VPC, but for AwsRoots.
AwsStands ==
  /\ cloud \subseteq AwsNames
  /\ cloud \cap (AwsChildren \cup {"attachment"}) # {} => "vpc" \in cloud
  /\ cloud \cap (AwsInstances \cup {"association"}) # {} => "subnet" \in cloud
  /\ "peerRule" \in cloud => "peerGroup" \in cloud
  /\ "webRule" \in cloud => "group" \in cloud
  /\ "mount" \in cloud => "instance" \in cloud

AwsKept == cloud \cap AwsRoots \subseteq ids \cup intent

\* What provisioning has made so far.
AwsBuilt ==
  phase = "provision" =>
    /\ at > 1 => "vpc" \in cloud
    /\ at > 4 => "subnet" \in cloud
    /\ at > 7 => "group" \in cloud
    /\ at > 8 /\ "peer" \in plan => "peerGroup" \in cloud
    /\ at > 14 => "instance" \in cloud

\* What may exist without a saved identity is found, or counted as unresolved;
\* and what has one is deleted, or the pass has failed.
AwsPass ==
  phase = "cleanup" =>
    /\ at \in 2..4 => (intent \cap {"vpc", "gateway", "keyPair"}) \ found \subseteq unresolved
    /\ at = 4 => (intent \cap {"volume"}) \ found \subseteq unresolved
    /\ at > 4 => intent \cap AwsRoots \subseteq unresolved
    /\ ~failed =>
         /\ "volume" \in ids => at <= 10
         /\ "keyPair" \in ids => at <= 11
         /\ "gateway" \in ids => at <= 19
         /\ "vpc" \in ids => at <= 20

AwsInv == AwsStands /\ AwsKept /\ AwsBuilt /\ AwsPass

\* The places of the creates.
LEMMA AwsPlaces ==
  ASSUME at \in Nat \ {0}, NEW r, Provisioning(AwsOrder, r)
  PROVE  /\ phase = "provision" /\ at \in 1..17
         /\ at = 1 <=> r = "vpc"
         /\ at = 4 <=> r = "subnet"
         /\ at = 7 <=> r = "group"
         /\ at = 8 <=> r = "peerGroup"
         /\ at = 14 <=> r = "instance"
         /\ r = "association" => at = 6
         /\ r = "peerRule" => at = 9
         /\ r = "webRule" => at = 11
         /\ r = "peer" => at = 15
         /\ r = "loadgen" => at = 16
         /\ r = "mount" => at = 17
<1>1. Len(AwsOrder) = 17
  BY DEF AwsOrder
<1>2. at \in 1..17 /\ AwsOrder[at] = r /\ phase = "provision"
  BY <1>1 DEF Provisioning
<1>3. QED
  BY <1>2 DEF AwsOrder

\* The places of the steps of a pass.
LEMMA AwsPassPlaces ==
  ASSUME at \in Nat \ {0}, NEW s, Cleaning(AwsSteps, s)
  PROVE  /\ phase = "cleanup" /\ at \in 1..22
         /\ at = 1 <=> s = "lookup"
         /\ at = 2 <=> s = "replayTable"
         /\ at = 3 <=> s = "replayVolume"
         /\ at = 4 <=> s = "recover"
         /\ at = 5 <=> s = "launches"
         /\ at = 6 <=> s = "verify"
         /\ at = 10 <=> s = "volume"
         /\ at = 11 <=> s = "keyPair"
         /\ at = 18 <=> s = "detach"
         /\ at = 19 <=> s = "gateway"
         /\ at = 20 <=> s = "vpc"
         /\ at = 21 <=> s = "closeContracts"
         /\ at = 22 <=> s = "end"
<1>1. Len(AwsSteps) = 22
  BY DEF AwsSteps
<1>2. at \in 1..22 /\ AwsSteps[at] = s /\ phase = "cleanup"
  BY <1>1 DEF Cleaning
<1>3. QED
  BY <1>2 DEF AwsSteps

-------------------------------------------------------------------------------
(* Deleting what nothing needs keeps the rest standing.                    *)

LEMMA AwsHoldsFacts ==
  /\ \A x \in AwsChildren \cup {"attachment"} : <<x, "vpc">> \in AwsHolds
  /\ \A x \in AwsInstances : <<x, "subnet">> \in AwsHolds
  /\ <<"instance", "group">> \in AwsHolds
  /\ <<"peerRule", "group">> \in AwsHolds
  /\ <<"mount", "instance">> \in AwsCarries
  /\ <<"association", "subnet">> \in AwsCarries
  /\ <<"peerRule", "peerGroup">> \in AwsCarries
  /\ <<"webRule", "group">> \in AwsCarries
BY DEF AwsHolds, AwsCarries

LEMMA AwsDeletionStands ==
  ASSUME AwsStands, NEW r, ~Held(r, AwsHolds), cloud' = Without(r, AwsCarries)
  PROVE  AwsStands' /\ cloud' \subseteq cloud /\ r \notin cloud'
<1>1. /\ cloud' \subseteq cloud /\ r \notin cloud'
      /\ \A x \in cloud : <<x, r>> \in AwsCarries => x \notin cloud'
  BY DEF Without
<1>2. \A x \in cloud : <<x, r>> \notin AwsHolds
  BY DEF Held
<1>3. \A x \in cloud \ cloud' : x = r \/ <<x, r>> \in AwsCarries
  BY DEF Without
<1>4. \A x : <<x, r>> \in AwsCarries =>
        /\ x \notin {"vpc", "subnet", "peerGroup", "group", "instance"}
  BY DEF AwsCarries
<1>5. /\ \A x \in {"vpc", "subnet", "peerGroup", "group", "instance"} :
             x \in cloud \ cloud' => x = r
  BY <1>3, <1>4
<1>6. cloud' \cap (AwsChildren \cup {"attachment"}) # {} => "vpc" \in cloud'
  BY <1>1, <1>2, <1>5, AwsHoldsFacts DEF AwsStands
<1>7. cloud' \cap (AwsInstances \cup {"association"}) # {} => "subnet" \in cloud'
  BY <1>1, <1>2, <1>5, AwsHoldsFacts DEF AwsStands
<1>8. /\ "peerRule" \in cloud' => "peerGroup" \in cloud'
      /\ "webRule" \in cloud' => "group" \in cloud'
      /\ "mount" \in cloud' => "instance" \in cloud'
  BY <1>1, <1>5, AwsHoldsFacts DEF AwsStands
<1>9. QED
  BY <1>1, <1>6, <1>7, <1>8 DEF AwsStands

\* A deletion that errors may leave everything as it was.
LEMMA AwsRemoves ==
  ASSUME AwsStands, NEW r, Delete(r, AwsHolds, AwsCarries, {r})
  PROVE  /\ AwsStands' /\ cloud' \subseteq cloud
         /\ at' = at + 1 /\ phase' = phase /\ provider' = provider
         /\ \/ r \notin cloud' /\ ids' = ids \ {r} /\ intent' = intent \ {r}
               /\ unresolved' = unresolved \ {r} /\ failed' = failed
            \/ failed' = TRUE /\ ids' = ids /\ intent' = intent /\ unresolved' = unresolved
<1> USE DEF Delete, Advance
<1>1. CASE Deleted(r, AwsHolds, AwsCarries, {r})
  BY <1>1, AwsDeletionStands DEF Deleted, Forget, pass
<1>2. CASE Refused(r, AwsHolds)
  BY <1>2 DEF Refused, record, AwsStands
<1>3. CASE Errs(r, AwsHolds, AwsCarries)
  <2>1. failed' = TRUE /\ ids' = ids /\ intent' = intent /\ unresolved' = unresolved
    BY <1>3 DEF Errs, record
  <2>2. CASE cloud' = cloud
    BY <2>1, <2>2 DEF AwsStands
  <2>3. CASE ~Held(r, AwsHolds) /\ cloud' = Without(r, AwsCarries)
    BY <2>1, <2>3, AwsDeletionStands
  <2>4. QED
    BY <1>3, <2>2, <2>3 DEF Errs
<1>4. QED
  BY <1>1, <1>2, <1>3

-------------------------------------------------------------------------------
(* The steps of a run on AWS.                                              *)

LEMMA AwsWantedNames == AwsWanted \subseteq AwsNames
BY DEF AwsWanted, AwsNames

\* A create adds one resource, whose parent is there, and keeps it on record.
LEMMA AwsCreates ==
  ASSUME Typed, AwsInv, provider = "aws", NEW r, NEW announced,
         r \in AwsRoots => r \in announced, AwsCreate(r, announced)
  PROVE  AwsInv' /\ Typed' /\ Grows
<1>1. r \in AwsWanted /\ r \in AwsNames /\ Provisioning(AwsOrder, r)
  BY AwsWantedNames DEF AwsCreate
<1>2. phase = "provision" /\ at \in 1..17
  BY <1>1, AwsPlaces DEF Typed
<1>3. /\ provider' = provider /\ plan' = plan
      /\ cloud' = cloud \/ cloud' = cloud \cup {r}
      /\ \/ phase' = phase /\ at' = at + 1 /\ cloud' = cloud \cup {r}
         \/ phase' = "idle" /\ at' = 1
      /\ cloud' \cap AwsRoots \subseteq ids' \cup intent'
  <2>1. cloud \cap AwsRoots \subseteq ids \cup intent
    BY DEF AwsInv, AwsKept
  <2>2. CASE Accept({r}, {r} \ AwsLinks)
    BY <2>1, <2>2 DEF Accept, Advance, AwsRoots, AwsLinks
  <2>3. CASE Lose(announced, {{}, {r}})
    BY <2>1, <2>3 DEF Lose, Raise
  <2>4. QED
    BY <2>2, <2>3 DEF AwsCreate
<1>4. AwsStands'
  <2>1. AwsStands /\ AwsBuilt
    BY DEF AwsInv
  <2>2. r \in AwsChildren \cup {"attachment"} => "vpc" \in cloud
    <3>1. r \in AwsChildren \cup {"attachment"} => r # "vpc"
      BY DEF AwsChildren, AwsGroups
    <3>2. QED
      BY <1>1, <1>2, <2>1, <3>1, AwsPlaces DEF AwsBuilt, Typed
  <2>3. r \in AwsInstances \cup {"association"} => "subnet" \in cloud
    BY <1>1, <1>2, <2>1, AwsPlaces DEF AwsBuilt, Typed, AwsInstances
  <2>4. r = "peerRule" => "peerGroup" \in cloud
    <3>1. r = "peerRule" => "peer" \in plan
      BY <1>1 DEF AwsWanted
    <3>2. QED
      BY <1>1, <1>2, <2>1, <3>1, AwsPlaces DEF AwsBuilt, Typed
  <2>5. r = "webRule" => "group" \in cloud
    BY <1>1, <1>2, <2>1, AwsPlaces DEF AwsBuilt, Typed
  <2>6. r = "mount" => "instance" \in cloud
    BY <1>1, <1>2, <2>1, AwsPlaces DEF AwsBuilt, Typed
  <2>7. QED
    BY <1>1, <1>3, <2>1, <2>2, <2>3, <2>4, <2>5, <2>6 DEF AwsStands
<1>5. AwsBuilt'
  <2>1. CASE phase' = "idle"
    BY <2>1 DEF AwsBuilt
  <2>2. CASE phase' = phase /\ at' = at + 1 /\ cloud' = cloud \cup {r}
    BY <1>1, <1>2, <1>3, <2>2, AwsPlaces DEF AwsInv, AwsBuilt, Typed
  <2>3. QED
    BY <1>3, <2>1, <2>2
<1>6. AwsPass' /\ Typed'
  BY <1>2, <1>3 DEF AwsPass, Typed, Phase
<1>7. Grows
  BY <1>2, <1>3, NothingUntraced DEF Grows
<1>8. QED
  BY <1>3, <1>4, <1>5, <1>6, <1>7 DEF AwsInv, AwsKept

\* The parts that are left out are not among those that others hang on, but for
\* the group of a peer.
LEMMA AwsOmits ==
  ASSUME Typed, AwsInv, provider = "aws", Omit(AwsOrder, AwsWanted)
  PROVE  AwsInv' /\ Typed' /\ Grows
<1>1. /\ phase = "provision" /\ phase' = phase /\ provider' = provider /\ plan' = plan
      /\ at' = at + 1 /\ at \in 1..17
      /\ ids' = ids /\ intent' = intent /\ unresolved' = unresolved /\ cloud' = cloud
  BY DEF Omit, Advance, record, Typed, AwsOrder
<1>2. AwsOrder[at] \notin AwsWanted /\ Provisioning(AwsOrder, AwsOrder[at])
  BY DEF Omit, Provisioning
<1>3. /\ at \notin {1, 4, 7, 14}
      /\ at = 8 => "peer" \notin plan
  BY <1>2, AwsPlaces DEF AwsWanted, Typed
<1>4. AwsBuilt'
  BY <1>1, <1>3 DEF AwsInv, AwsBuilt
<1>5. QED
  BY <1>1, <1>4, NothingUntraced DEF AwsInv, AwsStands, AwsKept, AwsPass, Typed, Grows

LEMMA AwsProvisions ==
  ASSUME Typed, AwsInv, provider = "aws", AwsProvision
  PROVE  AwsInv' /\ Typed' /\ Grows
<1>1. CASE AwsCreateNetwork
  BY <1>1, AwsCreates DEF AwsCreateNetwork, AwsFlagged, AwsRoots
<1>2. CASE AwsCreateGroups
  BY <1>2, AwsCreates DEF AwsCreateGroups, AwsGroups, AwsRoots
<1>3. CASE AwsCreateKeyPair \/ AwsCreateVolume \/ AwsLaunch
  BY <1>3, AwsCreates DEF AwsCreateKeyPair, AwsCreateVolume, AwsLaunch
<1>4. CASE AwsAttachVolume
  BY <1>4, AwsCreates DEF AwsAttachVolume, AwsRoots
<1>5. CASE AwsReject
  <2>1. /\ phase = "provision" /\ phase' = "idle" /\ provider' = provider /\ at' = 1
        /\ cloud' = cloud /\ ids' = ids /\ intent \subseteq intent'
    BY <1>5 DEF AwsReject, Reject, Raise, Provisioning
  <2>2. QED
    BY <2>1, NothingUntraced
    DEF AwsInv, AwsStands, AwsKept, AwsBuilt, AwsPass, Typed, Phase, Grows
<1>6. CASE Omit(AwsOrder, AwsWanted)
  BY <1>6, AwsOmits
<1>7. QED
  BY <1>1, <1>2, <1>3, <1>4, <1>5, <1>6 DEF AwsProvision

\* The steps of a pass before its deletions.
LEMMA AwsLooks ==
  ASSUME Typed, AwsInv, provider = "aws",
         AwsLookup \/ AwsReplayTable \/ AwsReplayVolume
  PROVE  AwsInv' /\ Typed' /\ (Grows \/ Shrinks)
<1>1. AwsStands /\ AwsKept /\ AwsPass
  BY DEF AwsInv
<1>2. CASE AwsLookup
  <2>1. /\ phase = "cleanup" /\ at = 1 /\ phase' = phase /\ at' = 2 /\ provider' = provider
        /\ ids' = ids /\ intent' = intent /\ cloud' = cloud /\ failed' = failed
        /\ (intent \cap {"vpc", "gateway", "keyPair"}) \ found' \subseteq unresolved'
    BY <1>2, AwsPassPlaces DEF AwsLookup, Advance, Typed
  <2>2. QED
    BY <1>1, <2>1, NothingUntraced
    DEF AwsInv, AwsStands, AwsKept, AwsBuilt, AwsPass, Typed, Grows
<1>3. CASE AwsReplayTable
  <2>1. /\ phase = "cleanup" /\ at = 2 /\ phase' = phase /\ at' = 3 /\ provider' = provider
        /\ ids' = ids /\ intent' = intent /\ failed' = failed
        /\ found \subseteq found' /\ found' \subseteq found \cup {"routeTable"}
        /\ unresolved \subseteq unresolved'
        /\ \/ cloud' = cloud
           \/ cloud' = cloud \cup {"routeTable"} /\ "vpc" \in cloud
    BY <1>3, AwsPassPlaces DEF AwsReplayTable, Skip, Advance, record, pass, Typed
  <2>2. AwsStands'
    BY <1>1, <2>1 DEF AwsStands, AwsNames, AwsChildren, AwsInstances, AwsGroups
  <2>3. AwsKept'
    BY <1>1, <2>1 DEF AwsKept, AwsRoots
  <2>4. AwsPass'
    BY <1>1, <2>1 DEF AwsPass
  <2>5. QED
    BY <2>1, <2>2, <2>3, <2>4, NothingUntraced DEF AwsInv, AwsBuilt, Typed, Grows
<1>4. CASE AwsReplayVolume
  <2>1. phase = "cleanup" /\ at = 3 /\ phase' = phase /\ at' = 4 /\ provider' = provider
    BY <1>4, AwsPassPlaces DEF AwsReplayVolume, Skip, Advance, Typed
  <2>2. /\ failed' = failed /\ found' = found
        /\ ids' \in {ids, ids \cup {"volume"}}
        /\ cloud' \in {cloud, cloud \cup {"volume"}}
        /\ intent' \in {intent, intent \ {"volume"}}
        /\ unresolved \ {"volume"} \subseteq unresolved'
        /\ "volume" \in intent' => "volume" \in found \cup unresolved'
        /\ "volume" \in intent \/ "volume" \in cloud' \ cloud => "volume" \in ids' \cup intent'
    BY <1>4 DEF AwsReplayVolume, Skip, record, pass
  <2>3. AwsStands'
    BY <1>1, <2>2 DEF AwsStands, AwsNames, AwsChildren, AwsInstances, AwsGroups
  <2>4. AwsKept'
    BY <1>1, <2>2 DEF AwsKept, AwsRoots
  <2>5. AwsPass'
    BY <1>1, <2>1, <2>2 DEF AwsPass
  <2>6. QED
    BY <2>1, <2>2, <2>3, <2>4, <2>5, NothingUntraced DEF AwsInv, AwsBuilt, Typed, Grows
<1>5. QED
  BY <1>2, <1>3, <1>4

\* A step of a pass that ends it by an exception.
LEMMA AwsRaises ==
  ASSUME Typed, AwsInv, provider = "aws", phase = "cleanup", phase' = "idle",
         at' = 1, provider' = provider, cloud' = cloud, AwsKept'
  PROVE  AwsInv' /\ Typed' /\ Shrinks
BY NothingUntraced DEF AwsInv, AwsStands, AwsBuilt, AwsPass, Typed, Phase, Shrinks

LEMMA AwsTakesOver ==
  ASSUME Typed, AwsInv, provider = "aws", AwsRecover \/ AwsLaunches \/ AwsVerify
  PROVE  AwsInv' /\ Typed' /\ Shrinks
<1>1. AwsStands /\ AwsKept /\ AwsPass
  BY DEF AwsInv
<1>2. CASE AwsRecover
  <2>1. phase = "cleanup" /\ at = 4 /\ provider' = provider /\ cloud' = cloud /\ failed' = failed
    BY <1>2, AwsPassPlaces DEF AwsRecover, Advance, Raise, pass, Typed
  <2>2. CASE /\ ids' = ids \cup found /\ intent' = intent \ found
             /\ unresolved' = unresolved \ found /\ Advance
    BY <1>1, <2>1, <2>2, NothingUntraced
    DEF Advance, AwsInv, AwsStands, AwsKept, AwsBuilt, AwsPass, AwsRoots, Typed, Shrinks
  <2>3. CASE Raise /\ UNCHANGED record
    BY <1>1, <2>1, <2>3, AwsRaises DEF Raise, record, AwsKept
  <2>4. QED
    BY <1>2, <2>2, <2>3 DEF AwsRecover
<1>3. CASE AwsLaunches
  <2>1. PICK taken \in SUBSET AwsInstances :
          /\ ids' = ids \cup taken /\ intent' = intent \ taken
          /\ unresolved' = unresolved /\ cloud' = cloud /\ failed' = failed
          /\ Advance \/ Raise
          /\ phase = "cleanup" /\ at = 5
    BY <1>3, AwsPassPlaces DEF AwsLaunches, Typed
  <2>2. AwsRoots \cap taken = {}
    BY DEF AwsRoots, AwsInstances
  <2>3. AwsKept'
    BY <1>1, <2>1 DEF AwsKept
  <2>4. CASE Advance
    BY <1>1, <2>1, <2>2, <2>3, <2>4, NothingUntraced
    DEF Advance, AwsInv, AwsStands, AwsBuilt, AwsPass, AwsRoots, Typed, Shrinks
  <2>5. CASE Raise
    BY <2>1, <2>3, <2>5, AwsRaises DEF Raise
  <2>6. QED
    BY <2>1, <2>4, <2>5
<1>4. CASE AwsVerify
  <2>1. /\ ids' \in {ids, ids \cup {"association"}}
        /\ intent' = intent /\ unresolved' = unresolved /\ cloud' = cloud /\ failed' = failed
        /\ Advance \/ Raise
        /\ phase = "cleanup" /\ at = 6
    BY <1>4, AwsPassPlaces DEF AwsVerify, record, pass, Typed
  <2>2. AwsKept'
    BY <1>1, <2>1 DEF AwsKept
  <2>3. CASE Advance
    BY <1>1, <2>1, <2>2, <2>3, NothingUntraced
    DEF Advance, AwsInv, AwsStands, AwsBuilt, AwsPass, AwsRoots, Typed, Shrinks
  <2>4. CASE Raise
    BY <2>1, <2>2, <2>4, AwsRaises DEF Raise
  <2>5. QED
    BY <2>1, <2>3, <2>4
<1>5. QED
  BY <1>2, <1>3, <1>4

AwsDeletable == AwsInstances \cup {"volume", "keyPair", "association", "gateway"} \cup AwsChildren

\* A deletion either forgets what it deletes, or the pass has failed.
LEMMA AwsDeletes ==
  ASSUME Typed, AwsInv, provider = "aws", NEW r \in AwsDeletable, AwsDelete(r)
  PROVE  AwsInv' /\ Typed' /\ Shrinks
<1>1. AwsStands /\ AwsKept /\ AwsPass
  BY DEF AwsInv
<1>2. Cleaning(AwsSteps, r) /\ phase = "cleanup" /\ at \in 1..22
  BY AwsPassPlaces DEF AwsDelete, Typed
<1>3. at > 6 /\ at < 20 /\ at # 18
  <2>1. r \notin {"lookup", "replayTable", "replayVolume", "recover", "launches",
                  "verify", "detach", "vpc", "closeContracts", "end"}
    BY DEF AwsDeletable, AwsInstances, AwsChildren, AwsGroups
  <2>2. QED
    BY <1>2, <2>1, AwsPassPlaces DEF Typed
<1>4. CASE r \notin ids
  <2>1. /\ at' = at + 1 /\ phase' = phase /\ provider' = provider
        /\ cloud' = cloud /\ ids' = ids /\ intent' = intent /\ unresolved' = unresolved
        /\ failed' = failed /\ found' = found
    BY <1>4 DEF AwsDelete, Skip, Advance, record, pass
  <2>2. AwsPass'
    BY <1>1, <1>2, <1>3, <1>4, <2>1, AwsPassPlaces DEF AwsPass, Typed
  <2>3. QED
    BY <1>1, <1>2, <2>1, <2>2, NothingUntraced
    DEF AwsInv, AwsStands, AwsKept, AwsBuilt, Typed, Shrinks
<1>5. CASE r \in ids
  <2>1. Delete(r, AwsHolds, AwsCarries, {r})
    BY <1>5 DEF AwsDelete
  <2>2. /\ AwsStands' /\ cloud' \subseteq cloud
        /\ at' = at + 1 /\ phase' = phase /\ provider' = provider
        /\ \/ r \notin cloud' /\ ids' = ids \ {r} /\ intent' = intent \ {r}
              /\ unresolved' = unresolved \ {r} /\ failed' = failed
           \/ failed' = TRUE /\ ids' = ids /\ intent' = intent /\ unresolved' = unresolved
    BY <1>1, <2>1, AwsRemoves
  <2>3. AwsKept'
    BY <1>1, <2>2 DEF AwsKept
  <2>4. AwsPass'
    BY <1>1, <1>2, <1>3, <2>2, AwsPassPlaces DEF AwsPass, Typed
  <2>5. QED
    BY <1>2, <2>2, <2>3, <2>4, NothingUntraced DEF AwsInv, AwsBuilt, Typed, Shrinks
<1>6. QED
  BY <1>4, <1>5

\* The gateway leaves the VPC only when no instance is left in it.
LEMMA AwsDetaches ==
  ASSUME Typed, AwsInv, provider = "aws", AwsDetach
  PROVE  AwsInv' /\ Typed' /\ Shrinks
<1>1. AwsStands /\ AwsKept /\ AwsPass
  BY DEF AwsInv
<1>2. phase = "cleanup" /\ at = 18
  BY AwsPassPlaces DEF AwsDetach, Typed
<1>3. /\ phase' = phase /\ provider' = provider
      /\ ids' = ids /\ intent' = intent /\ unresolved' = unresolved
      /\ cloud' \in {cloud, cloud \ {"attachment"}}
      /\ \/ at' = 19 /\ failed' = failed
         \/ at' = 20 /\ failed' = TRUE
  <2> DEFINE fails == Refused("attachment", AwsHolds) \/ Errs("attachment", AwsHolds, {})
  <2>1. CASE Skip
    BY <1>2, <2>1 DEF Skip, Advance, record, pass
  <2>2. CASE /\ cloud' = cloud \ {"attachment"} /\ UNCHANGED <<record, pass>>
             /\ Advance
    BY <1>2, <2>2 DEF Advance, record, pass
  <2>3. CASE fails /\ at' = at + 2 /\ UNCHANGED <<provider, plan, phase>>
    <3>1. Without("attachment", {}) = cloud \ {"attachment"}
      BY DEF Without
    <3>2. at' = 20 /\ phase' = phase /\ provider' = provider
      BY <1>2, <2>3
    <3>3. /\ failed' = TRUE /\ UNCHANGED record
          /\ cloud' \in {cloud, Without("attachment", {})}
      BY <2>3 DEF Refused, Errs
    <3>4. QED
      BY <3>1, <3>2, <3>3 DEF record
  <2>4. QED
    BY <2>1, <2>2, <2>3 DEF AwsDetach
<1>4. AwsStands'
  BY <1>1, <1>3 DEF AwsStands
<1>5. AwsKept'
  BY <1>1, <1>3 DEF AwsKept
<1>6. AwsPass'
  BY <1>1, <1>2, <1>3 DEF AwsPass
<1>7. QED
  BY <1>2, <1>3, <1>4, <1>5, <1>6, NothingUntraced DEF AwsInv, AwsBuilt, Typed, Shrinks

\* The VPC goes last; what could only exist inside it is ruled out with it.
LEMMA AwsCloses ==
  ASSUME Typed, AwsInv, provider = "aws", AwsDeleteVpc \/ AwsCloseContracts
  PROVE  AwsInv' /\ Typed' /\ Shrinks
<1>1. AwsStands /\ AwsKept /\ AwsPass
  BY DEF AwsInv
<1>2. phase = "cleanup" /\ at \in {20, 21}
  BY AwsPassPlaces DEF AwsDeleteVpc, AwsCloseContracts, Typed
<1>3. CASE AwsDeleteVpc
  <2>1. at = 20 /\ at' = 21 /\ phase' = phase /\ provider' = provider
    BY <1>3, AwsPassPlaces DEF AwsDeleteVpc, Skip, Advance, Typed
  <2>2. CASE "vpc" \notin ids
    <3>1. /\ cloud' = cloud /\ ids' = ids /\ intent' = intent
          /\ unresolved' = unresolved /\ failed' = failed
      BY <1>3, <2>2 DEF AwsDeleteVpc, Skip, record, pass
    <3>2. QED
      BY <1>1, <2>1, <2>2, <3>1, <1>2, NothingUntraced
      DEF AwsInv, AwsStands, AwsKept, AwsBuilt, AwsPass, Typed, Shrinks
  <2>3. CASE "vpc" \in ids
    <3>1. CASE ~Held("vpc", AwsHolds) /\ cloud' = Without("vpc", AwsCarries)
               /\ Forget({"vpc"}) /\ UNCHANGED failed
      <4>1. AwsStands' /\ cloud' \subseteq cloud /\ "vpc" \notin cloud'
        BY <1>1, <3>1, AwsDeletionStands
      <4>2. AwsKept' /\ AwsPass'
        BY <1>1, <1>2, <2>1, <3>1, <4>1 DEF Forget, AwsKept, AwsPass
      <4>3. QED
        BY <1>2, <2>1, <4>1, <4>2, NothingUntraced DEF AwsInv, AwsBuilt, Typed, Shrinks
    <3>2. CASE Refused("vpc", AwsHolds) \/ Errs("vpc", AwsHolds, AwsCarries)
      <4>1. /\ failed' = TRUE /\ UNCHANGED record
            /\ cloud' = cloud \/ (~Held("vpc", AwsHolds) /\ cloud' = Without("vpc", AwsCarries))
        BY <3>2 DEF Refused, Errs
      <4>2. AwsStands' /\ cloud' \subseteq cloud
        <5>1. CASE cloud' = cloud
          BY <1>1, <5>1 DEF AwsStands
        <5>2. QED
          BY <1>1, <4>1, <5>1, AwsDeletionStands
      <4>3. AwsKept' /\ AwsPass'
        BY <1>1, <1>2, <2>1, <4>1, <4>2 DEF record, AwsKept, AwsPass
      <4>4. QED
        BY <1>2, <2>1, <4>2, <4>3, NothingUntraced DEF AwsInv, AwsBuilt, Typed, Shrinks
    <3>3. QED
      BY <1>3, <2>3, <3>1, <3>2 DEF AwsDeleteVpc
  <2>4. QED
    BY <2>2, <2>3
<1>4. CASE AwsCloseContracts
  <2>1. at = 21 /\ at' = 22 /\ phase' = phase /\ provider' = provider
    BY <1>4, AwsPassPlaces DEF AwsCloseContracts, Skip, Advance, Typed
  <2>2. /\ ids' = ids /\ cloud' = cloud /\ failed' = failed
        /\ \/ intent' = intent /\ unresolved' = unresolved
           \/ /\ intent' = intent \ {"routeTable", "loadgenGroup"}
              /\ unresolved \ {"routeTable", "loadgenGroup"} \subseteq unresolved'
    BY <1>4 DEF AwsCloseContracts, Skip, record, pass
  <2>3. {"routeTable", "loadgenGroup"} \cap AwsRoots = {}
    BY DEF AwsRoots
  <2>4. AwsStands' /\ AwsKept' /\ AwsPass'
    BY <1>1, <1>2, <2>1, <2>2, <2>3 DEF AwsStands, AwsKept, AwsPass
  <2>5. QED
    BY <1>2, <2>1, <2>2, <2>4, NothingUntraced DEF AwsInv, AwsBuilt, Typed, Shrinks
<1>5. QED
  BY <1>3, <1>4

\* A pass ends the run only when nothing is left of it.
LEMMA AwsFinishes ==
  ASSUME Typed, AwsInv, provider = "aws", AwsFinish
  PROVE  AwsInv' /\ Typed' /\ (Shrinks \/ Ends)
<1>1. AwsStands /\ AwsKept /\ AwsPass
  BY DEF AwsInv
<1>2. phase = "cleanup" /\ at = 22 /\ Finish(~failed /\ unresolved = {})
  BY AwsPassPlaces DEF AwsFinish, Typed
<1>3. provider' = provider /\ cloud' = cloud /\ at' = 1
  BY <1>2 DEF Finish
<1>4. CASE ~failed /\ unresolved = {}
  <2>1. cloud = {}
    <3>1. cloud \cap AwsRoots = {}
      BY <1>1, <1>2, <1>4 DEF AwsKept, AwsPass, AwsRoots
    <3>2. QED
      BY <1>1, <3>1
      DEF AwsStands, AwsRoots, AwsNames, AwsChildren, AwsGroups, AwsInstances
  <2>2. phase' = "destroyed"
    BY <1>2, <1>4 DEF Finish
  <2>3. QED
    BY <1>3, <2>1, <2>2, NothingUntraced
    DEF AwsInv, AwsStands, AwsKept, AwsBuilt, AwsPass, Typed, Phase, Ends
<1>5. CASE ~(~failed /\ unresolved = {})
  <2>1. phase' = "idle" /\ UNCHANGED record
    BY <1>2, <1>5 DEF Finish
  <2>2. AwsKept'
    BY <1>1, <1>3, <2>1 DEF AwsKept, record
  <2>3. QED
    BY <1>2, <1>3, <2>1, <2>2, AwsRaises
<1>6. QED
  BY <1>4, <1>5

LEMMA AwsSteppings ==
  ASSUME Typed, AwsInv, AwsNext
  PROVE  AwsInv' /\ Typed' /\ StepKind
<1> USE DEF StepKind
<1>1. provider = "aws"
  BY DEF AwsNext
<1>2. CASE AwsProvision
  BY <1>1, <1>2, AwsProvisions
<1>3. CASE AwsLookup \/ AwsReplayTable \/ AwsReplayVolume
  BY <1>1, <1>3, AwsLooks
<1>4. CASE AwsRecover \/ AwsLaunches \/ AwsVerify
  BY <1>1, <1>4, AwsTakesOver
<1>5. CASE AwsTerminate \/ AwsDeleteParts
  BY <1>1, <1>5, AwsDeletes DEF AwsTerminate, AwsDeleteParts, AwsDeletable
<1>6. CASE AwsDetach
  BY <1>1, <1>6, AwsDetaches
<1>7. CASE AwsDeleteVpc \/ AwsCloseContracts
  BY <1>1, <1>7, AwsCloses
<1>8. CASE AwsFinish
  BY <1>1, <1>8, AwsFinishes
<1>9. QED
  BY <1>2, <1>3, <1>4, <1>5, <1>6, <1>7, <1>8 DEF AwsNext, AwsCleanup

-------------------------------------------------------------------------------
(* GCP.                                                                    *)

GcpNames == GcpReplayed \cup GcpInstances \cup GcpBoots

GcpRoots == {"network", "dataDisk"} \cup GcpBoots

GcpStands ==
  /\ cloud \subseteq GcpNames
  /\ cloud \cap ({"subnet"} \cup GcpFirewalls) # {} => "network" \in cloud
  /\ cloud \cap GcpInstances # {} => "subnet" \in cloud

GcpKept == cloud \cap GcpRoots \subseteq ids \cup intent

\* The place of the create that saves a resource.
GcpPosition ==
  [network |-> 1, subnet |-> 2, sshFirewall |-> 3, iperfFirewall |-> 4,
   webFirewall |-> 5, dataDisk |-> 6, runner |-> 7, runnerBoot |-> 7,
   loadgen |-> 8, loadgenBoot |-> 8, peer |-> 9, peerBoot |-> 9]

GcpBuilt ==
  phase = "provision" =>
    /\ at > 1 => "network" \in cloud
    /\ at > 2 => "subnet" \in cloud
    /\ intent = {}
    /\ \A x \in ids : x \in GcpNames /\ GcpPosition[x] < at

\* What is announced has no identity yet.
GcpApart == ids \cap intent = {} /\ intent \subseteq GcpNames

\* What has an identity and exists was seen by the survey, or replayed since.
GcpPass == phase = "cleanup" /\ at > 1 => ids \cap cloud \subseteq found

GcpInv == GcpStands /\ GcpKept /\ GcpBuilt /\ GcpApart /\ GcpPass

LEMMA GcpPlaces ==
  ASSUME at \in Nat \ {0}, NEW r, Provisioning(GcpOrder, r)
  PROVE  /\ phase = "provision" /\ at \in 1..9
         /\ at = 1 <=> r = "network"
         /\ at = 2 <=> r = "subnet"
         /\ GcpPosition[r] = at
         /\ \A x \in GcpBootOf(r) : GcpPosition[x] = at
<1>1. Len(GcpOrder) = 9
  BY DEF GcpOrder
<1>2. at \in 1..9 /\ GcpOrder[at] = r /\ phase = "provision"
  BY <1>1 DEF Provisioning
<1>3. QED
  BY <1>2 DEF GcpOrder, GcpPosition, GcpBootOf

LEMMA GcpPositionNat == \A x \in GcpNames : GcpPosition[x] \in Nat
BY DEF GcpPosition, GcpNames, GcpReplayed, GcpFirewalls, GcpInstances, GcpBoots

LEMMA GcpPassPlaces ==
  ASSUME at \in Nat \ {0}, NEW s, Cleaning(GcpSteps, s)
  PROVE  /\ phase = "cleanup"
         /\ at = 1 => s = <<"all", "survey">>
<1>1. GcpSteps[at] = s /\ phase = "cleanup"
  BY DEF Cleaning
<1>2. GcpSteps[1] = <<"all", "survey">>
  BY DEF GcpSteps
<1>3. QED
  BY <1>1, <1>2

LEMMA GcpHoldsFacts ==
  /\ \A x \in {"subnet"} \cup GcpFirewalls : <<x, "network">> \in GcpHolds
  /\ \A x \in GcpInstances : <<x, "subnet">> \in GcpHolds
  /\ \A x, r : <<x, r>> \in GcpCarries => x \in GcpBoots
BY DEF GcpHolds, GcpCarries, GcpAttached, GcpBoots

LEMMA GcpDistinct ==
  /\ GcpBoots \cap ({"network", "subnet"} \cup GcpFirewalls \cup GcpInstances) = {}
  /\ GcpRoots \cap ({"subnet"} \cup GcpFirewalls \cup GcpInstances) = {}
  /\ {"network", "subnet"} \cap (GcpInstances \cup GcpFirewalls) = {}
BY DEF GcpBoots, GcpRoots, GcpFirewalls, GcpInstances

LEMMA GcpDeletionStands ==
  ASSUME GcpStands, NEW r, r \in cloud => ~Held(r, GcpHolds), cloud' = Without(r, GcpCarries)
  PROVE  GcpStands' /\ cloud' \subseteq cloud /\ r \notin cloud'
<1>1. cloud' \subseteq cloud /\ r \notin cloud'
  BY DEF Without
<1>2. r \in cloud => \A x \in cloud : <<x, r>> \notin GcpHolds
  BY DEF Held
<1>3. \A x \in cloud \ cloud' : x = r \/ x \in GcpBoots
  BY GcpHoldsFacts DEF Without
<1>4. \A x \in {"network", "subnet"} : x \in cloud \ cloud' => x = r
  BY <1>3, GcpDistinct
<1>5. QED
  BY <1>1, <1>2, <1>4, GcpHoldsFacts DEF GcpStands

LEMMA GcpRemoves ==
  ASSUME GcpStands, NEW r, Delete(r, GcpHolds, GcpCarries, {r})
  PROVE  /\ GcpStands' /\ cloud' \subseteq cloud
         /\ at' = at + 1 /\ phase' = phase /\ provider' = provider
         /\ found' = found
         /\ \/ r \notin cloud' /\ ids' = ids \ {r} /\ intent' = intent \ {r}
            \/ ids' = ids /\ intent' = intent
<1> USE DEF Delete, Advance
<1>1. CASE Deleted(r, GcpHolds, GcpCarries, {r})
  BY <1>1, GcpDeletionStands DEF Deleted, Forget, pass
<1>2. CASE Refused(r, GcpHolds)
  BY <1>2 DEF Refused, record, GcpStands
<1>3. CASE Errs(r, GcpHolds, GcpCarries)
  <2>1. ids' = ids /\ intent' = intent /\ found' = found
    BY <1>3 DEF Errs, record
  <2>2. CASE cloud' = cloud
    BY <2>1, <2>2 DEF GcpStands
  <2>3. CASE ~Held(r, GcpHolds) /\ cloud' = Without(r, GcpCarries)
    BY <2>1, <2>3, GcpDeletionStands
  <2>4. QED
    BY <1>3, <2>2, <2>3 DEF Errs
<1>4. QED
  BY <1>1, <1>2, <1>3

-------------------------------------------------------------------------------
(* The steps of a run on GCP.                                              *)

LEMMA GcpBootIsBoot == \A r : GcpBootOf(r) \subseteq GcpBoots
BY DEF GcpBootOf, GcpBoots

\* A create adds some of the parts it has announced; what they need is there.
LEMMA GcpCreates ==
  ASSUME Typed, GcpInv, provider = "gcp", NEW r, NEW parts, NEW effects,
         r \in {"network", "subnet", "dataDisk"} \cup GcpFirewalls \cup GcpInstances,
         r \in parts, parts \subseteq {r} \cup GcpBootOf(r),
         effects \subseteq SUBSET parts,
         GcpCreate(r, parts, effects)
  PROVE  GcpInv' /\ Typed' /\ Grows
<1>1. Provisioning(GcpOrder, r)
  BY DEF GcpCreate
<1>2. phase = "provision" /\ at \in 1..9
  BY <1>1, GcpPlaces DEF Typed
<1>3. /\ GcpStands /\ GcpKept /\ GcpBuilt
      /\ intent = {}
      /\ \A x \in ids : x \in GcpNames /\ GcpPosition[x] < at
  BY <1>2 DEF GcpInv, GcpBuilt
<1>4. parts \subseteq GcpNames /\ \A x \in parts : GcpPosition[x] = at
  BY <1>1, GcpPlaces, GcpBootIsBoot DEF GcpNames, GcpReplayed, Typed
<1>5. /\ provider' = provider /\ cloud \subseteq cloud' /\ cloud' \subseteq cloud \cup parts
      /\ \/ /\ phase' = phase /\ at' = at + 1 /\ cloud' = cloud \cup parts
            /\ ids' = ids \cup parts /\ intent' = {}
         \/ /\ phase' = "idle" /\ at' = 1
            /\ ids' = ids /\ intent' \subseteq parts
            /\ cloud' # cloud => intent' = parts
  <2>1. CASE Accept(parts, parts)
    BY <1>3, <2>1 DEF Accept, Advance
  <2>2. CASE Reject({})
    BY <1>3, <2>2 DEF Reject, Raise
  <2>3. CASE Lose(parts, effects)
    <3>1. PICK made \in effects : cloud' = cloud \cup made
      BY <2>3 DEF Lose
    <3>2. made \subseteq parts /\ intent' = parts
      BY <1>3, <2>3, <3>1 DEF Lose
    <3>3. QED
      BY <2>3, <3>1, <3>2 DEF Lose, Raise
  <2>4. QED
    BY <2>1, <2>2, <2>3 DEF GcpCreate
<1>6. GcpStands'
  <2>1. r \in {"subnet"} \cup GcpFirewalls => "network" \in cloud
    <3>1. r \in {"subnet"} \cup GcpFirewalls => r # "network"
      BY DEF GcpFirewalls
    <3>2. QED
      BY <1>1, <1>2, <1>3, <3>1, GcpPlaces DEF GcpBuilt, Typed
  <2>2. r \in GcpInstances => "subnet" \in cloud
    <3>1. r \in GcpInstances => r \notin {"network", "subnet"}
      BY DEF GcpInstances
    <3>2. QED
      BY <1>1, <1>2, <1>3, <3>1, GcpPlaces DEF GcpBuilt, Typed
  <2>3. \A x \in cloud' : x \in cloud \/ x = r \/ x \in GcpBoots
    BY <1>5, GcpBootIsBoot
  <2>4. cloud' \cap ({"subnet"} \cup GcpFirewalls) # {} => "network" \in cloud'
    <3>1. SUFFICES ASSUME NEW x \in cloud', x \in {"subnet"} \cup GcpFirewalls
                   PROVE  "network" \in cloud
      BY <1>5
    <3>2. x \notin GcpBoots
      BY <3>1, GcpDistinct
    <3>3. QED
      BY <1>3, <2>1, <2>3, <3>1, <3>2 DEF GcpStands
  <2>5. cloud' \cap GcpInstances # {} => "subnet" \in cloud'
    <3>1. SUFFICES ASSUME NEW x \in cloud', x \in GcpInstances
                   PROVE  "subnet" \in cloud
      BY <1>5
    <3>2. x \notin GcpBoots
      BY <3>1, GcpDistinct
    <3>3. QED
      BY <1>3, <2>2, <2>3, <3>1, <3>2 DEF GcpStands
  <2>6. QED
    BY <1>3, <1>4, <1>5, <2>4, <2>5 DEF GcpStands
<1>7. GcpKept'
  BY <1>3, <1>5 DEF GcpKept
<1>8. GcpBuilt'
  <2>1. CASE phase' = "idle"
    BY <2>1 DEF GcpBuilt
  <2>2. CASE phase' = phase /\ at' = at + 1 /\ cloud' = cloud \cup parts
             /\ ids' = ids \cup parts /\ intent' = {}
    <3>1. /\ at' > 1 => "network" \in cloud'
          /\ at' > 2 => "subnet" \in cloud'
      BY <1>1, <1>2, <1>3, <2>2, GcpPlaces DEF GcpBuilt, Typed
    <3>2. \A x \in ids' : x \in GcpNames /\ GcpPosition[x] < at'
      <4>1. at < at + 1 /\ \A n \in Nat : n < at => n < at + 1
        BY <1>2
      <4>2. SUFFICES ASSUME NEW x \in ids' PROVE x \in GcpNames /\ GcpPosition[x] < at'
        OBVIOUS
      <4>3. CASE x \in ids
        BY <1>3, <2>2, <4>1, <4>3, GcpPositionNat
      <4>4. CASE x \in parts
        BY <1>4, <2>2, <4>1, <4>4
      <4>5. QED
        BY <2>2, <4>3, <4>4
    <3>3. QED
      BY <2>2, <3>1, <3>2 DEF GcpBuilt
  <2>3. QED
    BY <1>5, <2>1, <2>2
<1>9. GcpApart'
  <2>1. ASSUME NEW x \in parts PROVE x \notin ids
    <3>1. GcpPosition[x] = at /\ ~(at < at)
      BY <1>2, <1>4
    <3>2. QED
      BY <1>3, <3>1
  <2>2. QED
    BY <1>4, <1>5, <2>1 DEF GcpApart
<1>10. GcpPass' /\ Typed'
  BY <1>2, <1>5 DEF GcpPass, Typed, Phase
<1>11. Grows
  BY <1>2, <1>5, NothingUntraced DEF Grows
<1>12. QED
  BY <1>6, <1>7, <1>8, <1>9, <1>10, <1>11 DEF GcpInv

LEMMA GcpCaptures ==
  ASSUME Typed, GcpInv, provider = "gcp", GcpCaptureFails
  PROVE  GcpInv' /\ Typed' /\ Grows
<1>1. PICK r \in GcpInstances :
        /\ Provisioning(GcpOrder, r)
        /\ cloud' = cloud \cup {r} \cup GcpBootOf(r)
        /\ ids' = ids \cup {r}
        /\ intent' = intent \cup GcpBootOf(r)
        /\ Raise
  BY DEF GcpCaptureFails
<1>2. phase = "provision" /\ phase' = "idle" /\ at' = 1 /\ provider' = provider
  BY <1>1, GcpPlaces DEF Typed, Raise
<1>3. /\ at > 2 /\ at \in 1..9
      /\ \A x \in GcpBootOf(r) : GcpPosition[x] = at
  BY <1>1, GcpPlaces DEF Typed, GcpInstances
<1>4. /\ "network" \in cloud /\ "subnet" \in cloud /\ intent = {}
      /\ \A x \in ids : GcpPosition[x] < at
  BY <1>2, <1>3 DEF GcpInv, GcpBuilt
<1>5. GcpStands'
  BY <1>1, <1>4, GcpBootIsBoot DEF GcpInv, GcpStands, GcpNames
<1>6. GcpKept'
  BY <1>1, GcpDistinct DEF GcpInv, GcpKept
<1>7. GcpApart'
  <2>1. r \notin GcpBootOf(r)
    BY <1>1, GcpBootIsBoot, GcpDistinct
  <2>2. GcpBootOf(r) \cap ids = {}
    BY <1>3, <1>4
  <2>3. QED
    BY <1>1, <1>4, <2>1, <2>2, GcpBootIsBoot DEF GcpApart, GcpNames
<1>8. QED
  BY <1>1, <1>2, <1>5, <1>6, <1>7, NothingUntraced
  DEF GcpInv, GcpBuilt, GcpPass, Typed, Phase, Grows

LEMMA GcpOmits ==
  ASSUME Typed, GcpInv, provider = "gcp", Omit(GcpOrder, GcpWanted)
  PROVE  GcpInv' /\ Typed' /\ Grows
<1>1. /\ phase = "provision" /\ phase' = phase /\ provider' = provider
      /\ at' = at + 1 /\ at \in 1..9
      /\ ids' = ids /\ intent' = intent /\ cloud' = cloud
  BY DEF Omit, Advance, record, Typed, GcpOrder
<1>2. at \notin {1, 2}
  <2>1. GcpOrder[at] \notin GcpWanted /\ Provisioning(GcpOrder, GcpOrder[at])
    BY DEF Omit, Provisioning
  <2>2. QED
    BY <2>1, GcpPlaces DEF GcpWanted, Typed
<1>3. GcpBuilt'
  BY <1>1, <1>2, GcpPositionNat DEF GcpInv, GcpBuilt
<1>4. QED
  BY <1>1, <1>3, NothingUntraced
  DEF GcpInv, GcpStands, GcpKept, GcpApart, GcpPass, Typed, Grows

LEMMA GcpProvisions ==
  ASSUME Typed, GcpInv, provider = "gcp", GcpProvision
  PROVE  GcpInv' /\ Typed' /\ Grows
<1>1. CASE GcpCreateNetwork
  BY <1>1, GcpCreates DEF GcpCreateNetwork
<1>2. CASE GcpCreateDataDisk
  BY <1>2, GcpCreates DEF GcpCreateDataDisk
<1>3. CASE GcpLaunch
  BY <1>3, GcpCreates DEF GcpLaunch
<1>4. CASE GcpCaptureFails \/ Omit(GcpOrder, GcpWanted)
  BY <1>4, GcpCaptures, GcpOmits
<1>5. QED
  BY <1>1, <1>2, <1>3, <1>4 DEF GcpProvision

\* A step of a pass that leaves what exists, and what is known of it, fits.
LEMMA GcpKeeps ==
  ASSUME Typed, GcpInv, provider = "gcp", phase = "cleanup", provider' = provider,
         cloud' = cloud, ids \cup intent \subseteq ids' \cup intent', GcpApart',
         \/ phase' = phase /\ at' = at + 1 /\ ids' \cap cloud \subseteq found'
         \/ phase' = "idle" /\ at' = 1
  PROVE  GcpInv' /\ Typed' /\ Shrinks
<1>1. GcpStands' /\ GcpKept'
  BY DEF GcpInv, GcpStands, GcpKept
<1>2. GcpBuilt' /\ GcpPass'
  BY DEF GcpBuilt, GcpPass
<1>3. Typed' /\ Shrinks
  BY NothingUntraced DEF Typed, Phase, Shrinks
<1>4. QED
  BY <1>1, <1>2, <1>3 DEF GcpInv

LEMMA GcpSurveys ==
  ASSUME Typed, GcpInv, provider = "gcp", GcpSurvey
  PROVE  GcpInv' /\ Typed' /\ Shrinks
<1>1. phase = "cleanup" /\ cloud' = cloud /\ GcpApart
  BY DEF GcpSurvey, Cleaning, GcpInv
<1>2. CASE Raise /\ UNCHANGED record
  BY <1>1, <1>2, GcpKeeps DEF Raise, record, GcpApart
<1>3. ASSUME Advance, NEW seen \in GcpLookups,
             found' = seen, ids' = ids \cup seen, intent' = intent \ seen
      PROVE  GcpInv' /\ Typed' /\ Shrinks
  <2>1. cloud \cap ids \subseteq seen
    BY DEF GcpLookups
  <2>2. GcpApart'
    BY <1>1, <1>3 DEF GcpApart
  <2>3. QED
    BY <1>1, <1>3, <2>1, <2>2, GcpKeeps DEF Advance
<1>4. QED
  BY <1>2, <1>3 DEF GcpSurvey

\* A create that is repeated needs the network, unless it stands by itself.
LEMMA GcpReplays ==
  ASSUME Typed, GcpInv, provider = "gcp", NEW r \in GcpReplayed, GcpReplay(r)
  PROVE  GcpInv' /\ Typed' /\ (Grows \/ Shrinks)
<1> DEFINE possible == r \in {"network", "dataDisk"} \/ "network" \in ids \cap cloud
<1>1. phase = "cleanup" /\ at > 1
  BY GcpPassPlaces DEF GcpReplay, Typed
<1>2. phase' = phase /\ at' = at + 1 /\ provider' = provider
  BY DEF GcpReplay, Skip, Advance
<1>3. GcpStands /\ GcpKept /\ GcpApart /\ ids \cap cloud \subseteq found
  BY <1>1 DEF GcpInv, GcpPass
<1>4. Typed' /\ GcpBuilt'
  BY <1>1, <1>2 DEF Typed, GcpBuilt
<1>5. ASSUME cloud' = cloud \cup {r}, possible
      PROVE  GcpStands' /\ Grows
  <2>1. r \in GcpNames
    BY DEF GcpNames
  <2>2. r \notin GcpInstances
    BY DEF GcpReplayed, GcpFirewalls, GcpInstances
  <2>3. r \in {"subnet"} \cup GcpFirewalls => "network" \in cloud
    BY <1>5 DEF GcpFirewalls
  <2>4. QED
    BY <1>1, <1>2, <1>3, <1>5, <2>1, <2>2, <2>3, NothingUntraced DEF GcpStands, Grows
<1>6. CASE Skip
  BY <1>1, <1>2, <1>3, <1>6, GcpKeeps DEF Skip, record, pass, GcpApart
<1>7. CASE /\ r \in intent /\ possible
           /\ cloud' = cloud \cup {r} /\ found' = found \cup {r}
           /\ ids' = ids \cup {r} /\ intent' = intent \ {r}
  BY <1>3, <1>4, <1>5, <1>7 DEF GcpInv, GcpKept, GcpApart, GcpPass
<1>8. CASE r \in intent \ (cloud \cup foreign) /\ Forget({r}) /\ UNCHANGED <<cloud, pass>>
  <2>1. /\ cloud' = cloud /\ r \notin cloud /\ found' = found
        /\ ids' = ids \ {r} /\ intent' = intent \ {r}
    BY <1>8 DEF Forget, pass
  <2>2. GcpStands' /\ GcpKept' /\ GcpApart' /\ GcpPass'
    BY <1>3, <2>1 DEF GcpStands, GcpKept, GcpApart, GcpPass
  <2>3. QED
    BY <1>1, <1>2, <1>4, <2>1, <2>2, NothingUntraced DEF GcpInv, Shrinks
<1>9. CASE /\ r \in intent
           /\ cloud' = cloud \/ (possible /\ cloud' = cloud \cup {r})
           /\ UNCHANGED <<ids, intent, pass>>
  <2>1. ids' = ids /\ intent' = intent /\ found' = found /\ r \notin ids
    BY <1>3, <1>9 DEF pass, GcpApart
  <2>2. CASE cloud' = cloud
    BY <1>1, <1>2, <1>3, <2>1, <2>2, GcpKeeps DEF GcpApart
  <2>3. CASE possible /\ cloud' = cloud \cup {r}
    BY <1>3, <1>4, <1>5, <1>9, <2>1, <2>3 DEF GcpInv, GcpKept, GcpApart, GcpPass
  <2>4. QED
    BY <1>9, <2>2, <2>3
<1>10. QED
  BY <1>6, <1>7, <1>8, <1>9 DEF GcpReplay

\* What the survey has not seen is gone, so a deletion goes by what it saw.
LEMMA GcpDeletes ==
  ASSUME Typed, GcpInv, provider = "gcp", NEW r, GcpDelete(r)
  PROVE  GcpInv' /\ Typed' /\ Shrinks
<1> DEFINE proof == IF r = "network" THEN {"networkGone"} ELSE {}
           there == r \in found \cap (cloud \cup foreign)
<1>1. phase = "cleanup" /\ at > 1
  BY GcpPassPlaces DEF GcpDelete, Typed
<1>2. phase' = phase /\ at' = at + 1 /\ provider' = provider
  BY DEF GcpDelete, Advance
<1>3. GcpStands /\ GcpKept /\ GcpApart /\ ids \cap cloud \subseteq found
  BY <1>1 DEF GcpInv, GcpPass
<1>4. CASE UNCHANGED <<record, cloud, found>>
  BY <1>1, <1>2, <1>3, <1>4, GcpKeeps DEF record, GcpApart
<1>5. CASE /\ r \in ids
           /\ there => GcpVerified({r}) /\ ~Held(r, GcpHolds)
           /\ cloud' = Without(r, GcpCarries)
           /\ ids' = (ids \ {r}) \cup proof
           /\ UNCHANGED <<intent, pass>>
  <2>1. r \in cloud => ~Held(r, GcpHolds)
    BY <1>3, <1>5
  <2>2. GcpStands' /\ cloud' \subseteq cloud /\ r \notin cloud'
    BY <1>3, <1>5, <2>1, GcpDeletionStands
  <2>3. "networkGone" \notin GcpNames
    BY DEF GcpNames, GcpReplayed, GcpFirewalls, GcpInstances, GcpBoots
  <2>4. intent' = intent /\ found' = found /\ proof \subseteq {"networkGone"}
    BY <1>5 DEF pass
  <2>5. GcpKept'
    BY <1>3, <1>5, <2>2, <2>4 DEF GcpKept
  <2>6. GcpApart'
    BY <1>3, <1>5, <2>3, <2>4 DEF GcpApart
  <2>7. GcpPass'
    BY <1>3, <1>5, <2>2, <2>3, <2>4 DEF GcpPass, GcpStands
  <2>8. GcpBuilt' /\ Typed' /\ Shrinks
    BY <1>1, <1>2, <2>2, NothingUntraced DEF GcpBuilt, Typed, Shrinks
  <2>9. QED
    BY <2>2, <2>5, <2>6, <2>7, <2>8 DEF GcpInv
<1>6. CASE Refused(r, GcpHolds)
  BY <1>4, <1>6 DEF Refused
<1>7. CASE r \in ids /\ Errs(r, GcpHolds, GcpCarries)
  <2>1. /\ ids' = ids /\ intent' = intent /\ found' = found
        /\ cloud' = cloud \/ (~Held(r, GcpHolds) /\ cloud' = Without(r, GcpCarries))
    BY <1>7 DEF Errs, record
  <2>2. CASE cloud' = cloud
    BY <1>4, <1>7, <2>2 DEF Errs
  <2>3. CASE ~Held(r, GcpHolds) /\ cloud' = Without(r, GcpCarries)
    <3>1. GcpStands' /\ cloud' \subseteq cloud
      BY <1>3, <2>3, GcpDeletionStands
    <3>2. GcpKept' /\ GcpApart' /\ GcpPass'
      BY <1>3, <2>1, <3>1 DEF GcpKept, GcpApart, GcpPass
    <3>3. GcpBuilt' /\ Typed' /\ Shrinks
      BY <1>1, <1>2, <3>1, NothingUntraced DEF GcpBuilt, Typed, Shrinks
    <3>4. QED
      BY <3>1, <3>2, <3>3 DEF GcpInv
  <2>4. QED
    BY <2>1, <2>2, <2>3
<1>8. CASE GcpLeft(r)
  BY <1>4, <1>8 DEF GcpLeft
<1>9. CASE UNCHANGED <<record, cloud, foreign, pass>>
  BY <1>4, <1>9 DEF pass
<1>10. QED
  BY <1>5, <1>6, <1>7, <1>8, <1>9 DEF GcpDelete

LEMMA GcpSweeps ==
  ASSUME Typed, GcpInv, provider = "gcp", NEW r, GcpSweep(r)
  PROVE  GcpInv' /\ Typed' /\ Shrinks
<1>1. phase = "cleanup" /\ at > 1
  BY GcpPassPlaces DEF GcpSweep, Typed
<1>2. GcpStands /\ GcpKept /\ GcpApart /\ ids \cap cloud \subseteq found
  BY <1>1 DEF GcpInv, GcpPass
<1>3. CASE Advance /\ UNCHANGED <<record, cloud, found>>
  BY <1>1, <1>2, <1>3, GcpKeeps DEF Advance, record, GcpApart
<1>4. CASE Delete(r, GcpHolds, GcpCarries, {r})
  <2>1. /\ GcpStands' /\ cloud' \subseteq cloud
        /\ at' = at + 1 /\ phase' = phase /\ provider' = provider
        /\ found' = found
        /\ \/ r \notin cloud' /\ ids' = ids \ {r} /\ intent' = intent \ {r}
           \/ ids' = ids /\ intent' = intent
    BY <1>2, <1>4, GcpRemoves
  <2>2. GcpKept' /\ GcpApart' /\ GcpPass'
    BY <1>2, <2>1 DEF GcpKept, GcpApart, GcpPass
  <2>3. GcpBuilt' /\ Typed' /\ Shrinks
    BY <1>1, <2>1, NothingUntraced DEF GcpBuilt, Typed, Shrinks
  <2>4. QED
    BY <2>1, <2>2, <2>3 DEF GcpInv
<1>5. CASE GcpLeft(r) /\ Advance
  BY <1>3, <1>5 DEF GcpLeft
<1>6. CASE Skip
  BY <1>3, <1>6 DEF Skip, pass
<1>7. QED
  BY <1>4, <1>5, <1>6 DEF GcpSweep

\* A contract that is closed without looking is of something that needs the network.
LEMMA GcpConcludes ==
  ASSUME Typed, GcpInv, provider = "gcp", GcpNoteLaunches \/ GcpCloseContracts
  PROVE  GcpInv' /\ Typed' /\ Shrinks
<1>1. phase = "cleanup" /\ at > 1
  BY GcpPassPlaces DEF GcpNoteLaunches, GcpCloseContracts, Typed
<1>2. GcpStands /\ GcpKept /\ GcpApart /\ ids \cap cloud \subseteq found
  BY <1>1 DEF GcpInv, GcpPass
<1>3. CASE Advance /\ UNCHANGED <<ids, intent, cloud, found>>
  BY <1>1, <1>2, <1>3, GcpKeeps DEF Advance, GcpApart
<1>4. CASE GcpNoteLaunches
  BY <1>3, <1>4 DEF GcpNoteLaunches, pass
<1>5. CASE Skip
  BY <1>3, <1>5 DEF Skip, record, pass
<1>6. CASE /\ Forget(({"subnet"} \cup GcpInstances \cup GcpFirewalls) \ found)
           /\ UNCHANGED <<cloud, pass>> /\ Advance
  <2>1. /\ ids' \subseteq ids /\ intent' \subseteq intent
        /\ GcpRoots \cap ids \subseteq ids' /\ GcpRoots \cap intent \subseteq intent'
        /\ cloud' = cloud /\ found' = found
    BY <1>6, GcpDistinct DEF Forget, pass
  <2>2. GcpStands' /\ GcpKept' /\ GcpApart' /\ GcpPass'
    BY <1>2, <2>1 DEF GcpStands, GcpKept, GcpApart, GcpPass
  <2>3. GcpBuilt' /\ Typed' /\ Shrinks
    BY <1>1, <1>6, <2>1, NothingUntraced DEF Advance, GcpBuilt, Typed, Shrinks
  <2>4. QED
    BY <2>2, <2>3 DEF GcpInv
<1>7. QED
  BY <1>4, <1>5, <1>6 DEF GcpCloseContracts

LEMMA GcpFinishes ==
  ASSUME Typed, GcpInv, provider = "gcp", GcpFinish
  PROVE  GcpInv' /\ Typed' /\ (Shrinks \/ Ends)
<1> DEFINE done == ~failed /\ unresolved = {} /\ ids \subseteq Facts /\ intent = {}
<1>1. phase = "cleanup" /\ Finish(done)
  BY DEF GcpFinish, Cleaning
<1>2. provider' = provider /\ cloud' = cloud /\ at' = 1
  BY <1>1 DEF Finish
<1>3. GcpStands /\ GcpKept /\ GcpApart
  BY DEF GcpInv
<1>4. CASE done
  <2>1. cloud = {}
    <3>1. Facts \cap GcpRoots = {}
      BY DEF Facts, GcpRoots, GcpBoots
    <3>2. cloud \cap GcpRoots = {}
      BY <1>3, <1>4, <3>1 DEF GcpKept
    <3>3. QED
      BY <1>3, <3>2 DEF GcpStands, GcpRoots, GcpNames, GcpReplayed
  <2>2. phase' = "destroyed" /\ intent' = {}
    BY <1>1, <1>4 DEF Finish
  <2>3. GcpInv'
    BY <1>2, <2>1, <2>2 DEF GcpInv, GcpStands, GcpKept, GcpBuilt, GcpApart, GcpPass
  <2>4. QED
    BY <1>2, <2>1, <2>2, <2>3, NothingUntraced DEF Typed, Phase, Ends
<1>5. CASE ~done
  <2>1. phase' = "idle" /\ UNCHANGED record
    BY <1>1, <1>5 DEF Finish
  <2>2. QED
    BY <1>1, <1>2, <1>3, <2>1, GcpKeeps DEF record, GcpApart
<1>6. QED
  BY <1>4, <1>5

\* What others delete by hand is not needed by anything.
LEMMA GcpOthersFit ==
  ASSUME Typed, GcpInv, provider = "gcp", GcpOthers
  PROVE  GcpInv' /\ Typed' /\ Shrinks
<1>1. /\ phase \in {"idle", "cleanup"}
      /\ provider' = provider /\ phase' = phase /\ at' = at
      /\ ids' = ids /\ intent' = intent /\ found' = found
  BY DEF GcpOthers, Replace, Intrude, record, pass
<1>2. GcpStands' /\ cloud' \subseteq cloud
  <2>1. CASE cloud' = cloud
    BY <2>1 DEF GcpInv, GcpStands
  <2>2. ASSUME NEW r, Replace(r, GcpHolds, GcpCarries)
        PROVE  GcpStands' /\ cloud' \subseteq cloud
    BY <2>2, GcpDeletionStands DEF Replace, GcpInv
  <2>3. QED
    BY <2>1, <2>2 DEF GcpOthers
<1>3. GcpKept' /\ GcpApart' /\ GcpPass' /\ GcpBuilt'
  BY <1>1, <1>2 DEF GcpInv, GcpKept, GcpApart, GcpPass, GcpBuilt
<1>4. QED
  BY <1>1, <1>2, <1>3, NothingUntraced DEF GcpInv, Typed, Shrinks

LEMMA GcpSteppings ==
  ASSUME Typed, GcpInv, GcpNext
  PROVE  GcpInv' /\ Typed' /\ StepKind
<1> USE DEF StepKind
<1>1. provider = "gcp"
  BY DEF GcpNext
<1>2. CASE GcpProvision
  BY <1>1, <1>2, GcpProvisions
<1>3. CASE GcpSurvey \/ GcpFinish
  BY <1>1, <1>3, GcpSurveys, GcpFinishes
<1>4. CASE GcpNoteLaunches \/ GcpCloseContracts
  BY <1>1, <1>4, GcpConcludes
<1>5. ASSUME NEW r \in GcpReplayed, GcpReplay(r)
      PROVE  GcpInv' /\ Typed' /\ StepKind
  BY <1>1, <1>5, GcpReplays
<1>6. ASSUME NEW r, GcpDelete(r) \/ GcpSweep(r)
      PROVE  GcpInv' /\ Typed' /\ StepKind
  BY <1>1, <1>6, GcpDeletes, GcpSweeps
<1>7. QED
  BY <1>2, <1>3, <1>4, <1>5, <1>6 DEF GcpNext, GcpCleanup

-------------------------------------------------------------------------------
(* Azure.                                                                  *)

\* Everything is in the group, which is on record as long as it exists.
AzureStands ==
  /\ cloud # {} => "group" \in cloud
  /\ "group" \in cloud => "group" \in ids \cup intent

AzureBuilt == phase = "provision" /\ at > 2 => "group" \in cloud

\* What others have put in is not on record.
AzureStrangers == foreign \subseteq {"guest", "group"} /\ "guest" \notin ids \cup intent

\* A group that is deleted has only what is the run's, and after it there is
\* nothing left.
AzurePass ==
  phase = "cleanup" =>
    /\ at = 3 /\ found = {} => cloud = {}
    /\ at = 3 /\ found # {} => foreign = {}
    /\ at > 3 => cloud = {}

AzureInv == AzureStands /\ AzureBuilt /\ AzureStrangers /\ AzurePass

LEMMA AzurePlaces ==
  ASSUME at \in Nat \ {0}, NEW r, Provisioning(AzureOrder, r)
  PROVE  /\ phase = "provision"
         /\ at = 1 <=> r = "context"
         /\ at = 2 <=> r = "group"
<1>1. Len(AzureOrder) = 15
  BY DEF AzureOrder
<1>2. at \in 1..15 /\ AzureOrder[at] = r /\ phase = "provision"
  BY <1>1 DEF Provisioning
<1>3. QED
  BY <1>2 DEF AzureOrder

LEMMA AzurePassPlaces ==
  ASSUME at \in Nat \ {0}, NEW s, Cleaning(AzureSteps, s)
  PROVE  /\ phase = "cleanup" /\ at \in 1..5
         /\ s = "anchor" <=> at = 1
         /\ s = "inventory" <=> at = 2
         /\ s = "delete" <=> at = 3
         /\ s = "clear" <=> at = 4
         /\ s = "end" <=> at = 5
BY DEF Cleaning, AzureSteps

LEMMA AzureCreates ==
  ASSUME Typed, AzureInv, provider = "azure", NEW r, NEW parts, NEW effects,
         r \in parts, "guest" \notin parts, r # "context",
         r = "group" => parts = {"group"}, effects \subseteq SUBSET parts,
         AzureCreate(r, parts, effects), foreign' = foreign
  PROVE  AzureInv' /\ Typed' /\ Grows
<1>1. Provisioning(AzureOrder, r)
  BY DEF AzureCreate
<1>2. phase = "provision" /\ at > 1 /\ (at = 2 <=> r = "group")
  BY <1>1, AzurePlaces DEF Typed
<1>3. /\ provider' = provider /\ cloud \subseteq cloud' /\ cloud' \subseteq cloud \cup parts
      /\ \/ phase' = phase /\ at' = at + 1 /\ cloud' = cloud \cup parts
         \/ phase' = "idle" /\ at' = 1
      /\ ids \cup intent \subseteq ids' \cup intent'
      /\ ids' \cup intent' = ids \cup intent \cup parts
  <2>1. CASE Accept(parts, parts)
    BY <2>1 DEF Accept, Advance
  <2>2. CASE Lose(parts, effects)
    <3>1. PICK made \in effects : cloud' = cloud \cup made
      BY <2>2 DEF Lose
    <3>2. QED
      BY <2>2, <3>1 DEF Lose, Raise
  <2>3. QED
    BY <2>1, <2>2 DEF AzureCreate

<1>4. AzureStands'
  <2>1. r # "group" => "group" \in cloud
    BY <1>2 DEF AzureInv, AzureBuilt, Typed
  <2>2. QED
    BY <1>3, <2>1 DEF AzureInv, AzureStands
<1>5. AzureBuilt'
  <2>1. CASE phase' = "idle"
    BY <2>1 DEF AzureBuilt
  <2>2. CASE phase' = phase /\ at' = at + 1 /\ cloud' = cloud \cup parts
    BY <1>2, <2>2 DEF AzureInv, AzureBuilt, Typed
  <2>3. QED
    BY <1>3, <2>1, <2>2
<1>6. AzureStrangers' /\ AzurePass' /\ Typed'
  BY <1>2, <1>3 DEF AzureInv, AzureStrangers, AzurePass, Typed, Phase
<1>7. Grows
  BY <1>2, <1>3, NothingUntraced DEF Grows
<1>8. QED
  BY <1>4, <1>5, <1>6, <1>7 DEF AzureInv

LEMMA AzureProvisions ==
  ASSUME Typed, AzureInv, provider = "azure", AzureProvision, foreign' = foreign
  PROVE  AzureInv' /\ Typed' /\ Grows
<1>1. CASE AzureContext \/ Omit(AzureOrder, AzureWanted)
  <2>1. /\ phase = "provision" /\ phase' = phase /\ at' = at + 1 /\ provider' = provider
        /\ ids' \cup intent' \subseteq ids \cup intent \cup {"context"}
        /\ ids \cup intent \subseteq ids' \cup intent' /\ cloud' = cloud
    BY <1>1 DEF AzureContext, Omit, Provisioning, Advance, record
  <2>2. at # 2
    <3>1. CASE AzureContext
      BY <3>1, AzurePlaces DEF AzureContext, Typed
    <3>2. CASE Omit(AzureOrder, AzureWanted)
      <4>1. AzureOrder[at] \notin AzureWanted /\ Provisioning(AzureOrder, AzureOrder[at])
        BY <3>2 DEF Omit, Provisioning
      <4>2. QED
        BY <4>1, AzurePlaces DEF AzureWanted, Typed
    <3>3. QED
      BY <1>1, <3>1, <3>2
  <2>3. AzureStands' /\ AzureBuilt'
    BY <2>1, <2>2 DEF AzureInv, AzureStands, AzureBuilt, Typed
  <2>4. AzureStrangers' /\ AzurePass' /\ Typed' /\ Grows
    BY <2>1, NothingUntraced
    DEF AzureInv, AzureStrangers, AzurePass, Typed, Grows
  <2>5. QED
    BY <2>3, <2>4 DEF AzureInv
<1>2. CASE AzureEnsureGroup
  BY <1>2, AzureCreates DEF AzureEnsureGroup
<1>3. CASE AzureEnsureChild
  BY <1>3, AzureCreates DEF AzureEnsureChild
<1>4. CASE AzureEnsureSubnet
  BY <1>4, AzureCreates DEF AzureEnsureSubnet
<1>5. CASE AzureCreateVm
  <2>1. PICK r \in {"runner", "loadgen", "peer"} :
          LET parts == {r} \cup AzureDiskOf(r)
          IN AzureCreate(r, parts, {{}, parts, AzureDiskOf(r)})
    BY <1>5 DEF AzureCreateVm
  <2>2. "guest" \notin {r} \cup AzureDiskOf(r)
    BY DEF AzureDiskOf
  <2>3. QED
    BY <2>1, <2>2, AzureCreates
<1>6. QED
  BY <1>1, <1>2, <1>3, <1>4, <1>5 DEF AzureProvision

\* A pass ends by an exception, or goes on to its end when there is nothing.
LEMMA AzureLooks ==
  ASSUME Typed, AzureInv, provider = "azure", AzureAnchor \/ AzureInventory,
         foreign' = foreign
  PROVE  AzureInv' /\ Typed' /\ Shrinks
<1>1. /\ phase = "cleanup" /\ provider' = provider
      /\ cloud' = cloud /\ ids' = ids /\ intent' = intent
      /\ \/ phase' = "idle" /\ at' = 1
         \/ phase' = phase /\ at' \in Nat \ {0}
  BY DEF AzureAnchor, AzureInventory, Skip, Advance, Raise, record, Cleaning, Typed
<1>2. AzureStands' /\ AzureBuilt' /\ AzureStrangers' /\ Typed' /\ Shrinks
  BY <1>1, NothingUntraced
  DEF AzureInv, AzureStands, AzureBuilt, AzureStrangers, Typed, Phase, Shrinks
<1>3. AzurePass'
  <2>1. CASE phase' = "idle"
    BY <2>1 DEF AzurePass
  <2>2. CASE phase' = phase /\ AzureAnchor
    <3>1. at = 1
      BY <2>2, AzurePassPlaces DEF AzureAnchor, Typed
    <3>2. at' = 2 \/ ids \cup intent = {}
      BY <1>1, <2>2, <3>1 DEF AzureAnchor, Skip, Advance, Raise
    <3>3. at' \in {2, 5}
      BY <1>1, <2>2, <3>1 DEF AzureAnchor, Skip, Advance, Raise
    <3>4. ids \cup intent = {} => cloud = {}
      BY DEF AzureInv, AzureStands
    <3>5. QED
      BY <1>1, <3>2, <3>3, <3>4 DEF AzurePass
  <2>3. CASE phase' = phase /\ AzureInventory
    <3>1. at = 2
      BY <2>3, AzurePassPlaces DEF AzureInventory, Typed
    <3>2. /\ at' = 3 /\ found' = {"group"} \cap (cloud \cup foreign)
          /\ found' = {} \/ (AzureGroupIsOurs /\ AzureListsOnlyOwn)
      BY <1>1, <2>3, <3>1 DEF AzureInventory, Advance, Raise
    <3>3. found' = {} => cloud = {}
      BY <3>2 DEF AzureInv, AzureStands
    <3>4. found' # {} => foreign = {}
      BY <3>2 DEF AzureInv, AzureStrangers, AzureGroupIsOurs, AzureListsOnlyOwn
    <3>5. QED
      BY <1>1, <3>2, <3>3, <3>4 DEF AzurePass
  <2>4. QED
    BY <1>1, <2>1, <2>2, <2>3
<1>4. QED
  BY <1>2, <1>3 DEF AzureInv

LEMMA AzureDeletes ==
  ASSUME Typed, AzureInv, provider = "azure", AzureDelete
  PROVE  AzureInv' /\ Typed' /\ Shrinks
<1>1. phase = "cleanup" /\ at = 3
  BY AzurePassPlaces DEF AzureDelete, Typed
<1>2. /\ provider' = provider /\ ids' = ids /\ intent' = intent
      /\ foreign' \subseteq foreign
      /\ \/ phase' = "cleanup" /\ at' = 4 /\ cloud' = {}
         \/ phase' = "idle" /\ at' = 1 /\ cloud' \in {cloud, cloud \cap {"group"}}
  BY <1>1 DEF AzureDelete, Skip, Advance, Raise, record, AzureInv, AzurePass
<1>3. AzureStands' /\ AzureStrangers'
  BY <1>2 DEF AzureInv, AzureStands, AzureStrangers
<1>4. AzureBuilt' /\ AzurePass' /\ Typed'
  BY <1>1, <1>2 DEF AzureBuilt, AzurePass, Typed, Phase
<1>5. Shrinks
  BY <1>1, <1>2, NothingUntraced DEF Shrinks
<1>6. QED
  BY <1>3, <1>4, <1>5 DEF AzureInv

LEMMA AzureConcludes ==
  ASSUME Typed, AzureInv, provider = "azure", AzureClear \/ AzureFinish,
         foreign' = foreign
  PROVE  AzureInv' /\ Typed' /\ (Shrinks \/ Ends)
<1>1. phase = "cleanup" /\ cloud = {} /\ at \in {4, 5}
  <2>1. phase = "cleanup" /\ at \in {4, 5}
    BY AzurePassPlaces DEF AzureClear, AzureFinish, Typed
  <2>2. QED
    BY <2>1 DEF AzureInv, AzurePass
<1>2. /\ provider' = provider /\ cloud' = {} /\ "guest" \notin ids' \cup intent'
      /\ \/ phase' = "cleanup" /\ at' = at + 1
         \/ phase' = "destroyed" /\ at' = 1
  <2>1. "guest" \notin ids \cup intent
    BY DEF AzureInv, AzureStrangers
  <2>2. CASE AzureClear
    BY <1>1, <2>1, <2>2 DEF AzureClear, Forget, Advance
  <2>3. CASE AzureFinish
    BY <1>1, <2>1, <2>3 DEF AzureFinish, Finish
  <2>4. QED
    BY <2>2, <2>3
<1>3. AzureInv'
  BY <1>1, <1>2 DEF AzureInv, AzureStands, AzureBuilt, AzureStrangers, AzurePass
<1>4. QED
  BY <1>1, <1>2, <1>3, NothingUntraced DEF Typed, Phase, Shrinks, Ends

LEMMA AzureOthersFit ==
  ASSUME Typed, AzureInv, provider = "azure", AzureOthers
  PROVE  AzureInv' /\ Typed' /\ Shrinks
<1>1. /\ phase \in {"idle", "cleanup"} /\ at <= 2
      /\ provider' = provider /\ phase' = phase /\ at' = at
      /\ ids' = ids /\ intent' = intent
      /\ cloud' \in {cloud, {}} /\ foreign' \in {{"guest"}, {"group"}}
  BY DEF AzureOthers, Intrude, record, pass
<1>2. AzureInv'
  BY <1>1 DEF AzureInv, AzureStands, AzureBuilt, AzureStrangers, AzurePass, Typed
<1>3. QED
  BY <1>1, <1>2, NothingUntraced DEF Typed, Shrinks

LEMMA AzureSteppings ==
  ASSUME Typed, AzureInv, AzureNext
  PROVE  AzureInv' /\ Typed' /\ StepKind
<1> USE DEF StepKind
<1>1. provider = "azure"
  BY DEF AzureNext
<1>2. CASE AzureProvision /\ UNCHANGED foreign
  BY <1>1, <1>2, AzureProvisions
<1>3. CASE UNCHANGED foreign /\ (AzureAnchor \/ AzureInventory)
  BY <1>1, <1>3, AzureLooks
<1>4. CASE UNCHANGED foreign /\ (AzureClear \/ AzureFinish)
  BY <1>1, <1>4, AzureConcludes
<1>5. CASE AzureDelete
  BY <1>1, <1>5, AzureDeletes
<1>6. QED
  BY <1>2, <1>3, <1>4, <1>5 DEF AzureNext, AzureCleanup

-------------------------------------------------------------------------------
(* OCI.                                                                    *)

OciRoots == {"vcn", "volume"}

OciNames ==
  OciInstances \cup OciRoots
    \cup {"igw", "nat", "routeTable", "securityList", "subnet", "attachment",
          "peerRouteTable", "peerSubnet", "route", "peerRoute"}

OciInNetwork ==
  {"igw", "nat", "routeTable", "peerRouteTable", "securityList", "subnet", "peerSubnet"}

OciStands ==
  /\ cloud \subseteq OciNames
  /\ cloud \cap OciInNetwork # {} => "vcn" \in cloud
  /\ cloud \cap {"instance", "loadgen"} # {} => "subnet" \in cloud
  /\ "peer" \in cloud => "peerSubnet" \in cloud
  /\ "attachment" \in cloud => "instance" \in cloud
  /\ "route" \in cloud => "routeTable" \in cloud
  /\ "peerRoute" \in cloud => "peerRouteTable" \in cloud

\* What is in the network has a network on record.
OciKept == cloud \ OciRoots # {} => "vcn" \in ids

OciBuilt ==
  phase = "provision" =>
    /\ at = 1 => cloud = {}
    /\ at > 1 => "vcn" \in cloud /\ "vcn" \in ids
    /\ at > 6 => "subnet" \in cloud
    /\ at > 7 => "instance" \in cloud
    /\ at > 12 /\ "peer" \in plan => "peerSubnet" \in cloud

OciPass ==
  phase = "cleanup" /\ ~failed =>
    /\ "volume" \in ids \cap cloud => at <= 4
    /\ "vcn" \in ids \cap cloud => at <= 14

OciInv == OciStands /\ OciKept /\ OciBuilt /\ OciPass

LEMMA OciPlaces ==
  ASSUME at \in Nat \ {0}, NEW r, Provisioning(OciOrder, r)
  PROVE  /\ phase = "provision" /\ at \in 1..13
         /\ at = 1 <=> r = "vcn"
         /\ at = 6 <=> r = "subnet"
         /\ at = 7 <=> r = "instance"
         /\ at = 12 <=> r = "peerSubnet"
         /\ r = "attachment" => at = 9
         /\ r = "loadgen" => at = 10
         /\ r = "peer" => at = 13
<1>1. Len(OciOrder) = 13
  BY DEF OciOrder
<1>2. at \in 1..13 /\ OciOrder[at] = r /\ phase = "provision"
  BY <1>1 DEF Provisioning
<1>3. QED
  BY <1>2 DEF OciOrder

LEMMA OciPassPlaces ==
  ASSUME at \in Nat \ {0}, NEW s, Cleaning(OciSteps, s)
  PROVE  /\ phase = "cleanup" /\ at \in 1..15
         /\ s = "volume" <=> at = 4
         /\ s = "vcn" <=> at = 14
         /\ s = "end" <=> at = 15
<1>1. Len(OciSteps) = 15
  BY DEF OciSteps
<1>2. at \in 1..15 /\ OciSteps[at] = s /\ phase = "cleanup"
  BY <1>1 DEF Cleaning
<1>3. QED
  BY <1>2 DEF OciSteps

LEMMA OciHoldsFacts ==
  /\ \A x \in OciInNetwork : <<x, "vcn">> \in OciHolds
  /\ \A x \in {"instance", "loadgen"} : <<x, "subnet">> \in OciHolds
  /\ <<"peer", "peerSubnet">> \in OciHolds
  /\ <<"attachment", "instance">> \in OciCarries
  /\ <<"route", "routeTable">> \in OciCarries
  /\ <<"peerRoute", "peerRouteTable">> \in OciCarries
  /\ \A x, r : <<x, r>> \in OciCarries => x \in {"attachment", "route", "peerRoute"}
BY DEF OciHolds, OciCarries, OciInNetwork

LEMMA OciDeletionStands ==
  ASSUME OciStands, NEW r, ~Held(r, OciHolds), cloud' = Without(r, OciCarries)
  PROVE  OciStands' /\ cloud' \subseteq cloud /\ r \notin cloud'
<1>1. /\ cloud' \subseteq cloud /\ r \notin cloud'
      /\ \A x \in cloud : <<x, r>> \in OciCarries => x \notin cloud'
  BY DEF Without
<1>2. \A x \in cloud : <<x, r>> \notin OciHolds
  BY DEF Held
<1>3. \A x \in cloud \ cloud' : x = r \/ x \in {"attachment", "route", "peerRoute"}
  BY OciHoldsFacts DEF Without
<1>4. \A x \in {"vcn", "subnet", "peerSubnet", "instance", "routeTable", "peerRouteTable"} :
        x \in cloud \ cloud' => x = r
  BY <1>3
<1>5. cloud' \cap OciInNetwork # {} => "vcn" \in cloud'
  BY <1>1, <1>2, <1>4, OciHoldsFacts DEF OciStands
<1>6. /\ cloud' \cap {"instance", "loadgen"} # {} => "subnet" \in cloud'
      /\ "peer" \in cloud' => "peerSubnet" \in cloud'
  BY <1>1, <1>2, <1>4, OciHoldsFacts DEF OciStands
<1>7. /\ "attachment" \in cloud' => "instance" \in cloud'
      /\ "route" \in cloud' => "routeTable" \in cloud'
      /\ "peerRoute" \in cloud' => "peerRouteTable" \in cloud'
  BY <1>1, <1>4, OciHoldsFacts DEF OciStands
<1>8. QED
  BY <1>1, <1>5, <1>6, <1>7 DEF OciStands

LEMMA OciRouteIsRoute == \A r : OciRouteOf(r) \subseteq {"route", "peerRoute"}
BY DEF OciRouteOf

-------------------------------------------------------------------------------
(* The steps of a run on OCI.                                              *)

LEMMA OciCreates ==
  ASSUME Typed, OciInv, provider = "oci", NEW r, OciCreate(r)
  PROVE  OciInv' /\ Typed' /\ Grows
<1> DEFINE parts == {r} \cup OciRouteOf(r)
<1>1. Provisioning(OciOrder, r) /\ r \in OciWanted
  BY DEF OciCreate
<1>2. phase = "provision" /\ at \in 1..13
  BY <1>1, OciPlaces DEF Typed
<1>3. OciStands /\ OciKept /\ OciBuilt
  BY DEF OciInv
<1>4. /\ provider' = provider /\ plan' = plan
      /\ \/ phase' = phase /\ at' = at + 1 /\ cloud' = cloud \cup parts /\ ids' = ids \cup {r}
         \/ phase' = "idle" /\ at' = 1 /\ cloud' \in {cloud, cloud \cup parts} /\ ids' = ids
  <2>1. CASE Accept(parts, {r})
    BY <2>1 DEF Accept, Advance
  <2>2. CASE Lose({}, {{}, parts})
    BY <2>2 DEF Lose, Raise
  <2>3. QED
    BY <2>1, <2>2 DEF OciCreate
<1>5. OciStands'
  <2>1. r \in OciInNetwork => "vcn" \in cloud
    <3>1. r \in OciInNetwork => r # "vcn"
      BY DEF OciInNetwork
    <3>2. QED
      BY <1>1, <1>2, <1>3, <3>1, OciPlaces DEF OciBuilt, Typed
  <2>2. /\ r \in {"instance", "loadgen"} => "subnet" \in cloud
        /\ r = "attachment" => "instance" \in cloud
    BY <1>1, <1>2, <1>3, OciPlaces DEF OciBuilt, Typed
  <2>3. r = "peer" => "peerSubnet" \in cloud
    <3>1. r = "peer" => "peer" \in plan
      BY <1>1 DEF OciWanted
    <3>2. QED
      BY <1>1, <1>2, <1>3, <3>1, OciPlaces DEF OciBuilt, Typed
  <2>4. r \in OciNames /\ r \notin {"route", "peerRoute"}
    BY <1>1 DEF OciWanted, OciNames, OciInstances, OciRoots
  <2>5. CASE cloud' = cloud
    BY <1>3, <2>5 DEF OciStands
  <2>6. CASE cloud' = cloud \cup parts
    <3>1. /\ "route" \in parts => r = "routeTable"
          /\ "peerRoute" \in parts => r = "peerRouteTable"
          /\ parts \subseteq {r, "route", "peerRoute"} /\ r \in parts
      BY <2>4 DEF OciRouteOf
    <3>2. /\ cloud' \subseteq OciNames
          /\ \A x \in cloud' : x \in cloud \/ x = r \/ x \in {"route", "peerRoute"}
      BY <1>3, <2>4, <2>6, <3>1 DEF OciStands, OciNames
    <3>3. cloud' \cap OciInNetwork # {} => "vcn" \in cloud'
      BY <1>3, <2>1, <2>6, <3>2 DEF OciStands, OciInNetwork
    <3>4. /\ cloud' \cap {"instance", "loadgen"} # {} => "subnet" \in cloud'
          /\ "peer" \in cloud' => "peerSubnet" \in cloud'
          /\ "attachment" \in cloud' => "instance" \in cloud'
      BY <1>3, <2>2, <2>3, <2>6, <3>2 DEF OciStands
    <3>5. /\ "route" \in cloud' => "routeTable" \in cloud'
          /\ "peerRoute" \in cloud' => "peerRouteTable" \in cloud'
      BY <1>3, <2>6, <3>1 DEF OciStands
    <3>6. QED
      BY <3>2, <3>3, <3>4, <3>5 DEF OciStands
  <2>7. QED
    BY <1>4, <2>5, <2>6
<1>6. OciKept'
  <2>1. r # "vcn" => "vcn" \in ids
    BY <1>1, <1>2, <1>3, OciPlaces DEF OciBuilt, Typed
  <2>2. CASE r = "vcn"
    <3>1. cloud = {} /\ parts = {"vcn"}
      BY <1>1, <1>2, <1>3, <2>2, OciPlaces DEF OciBuilt, OciRouteOf, Typed
    <3>2. cloud' \subseteq {"vcn"}
      BY <1>4, <3>1
    <3>3. QED
      BY <3>2 DEF OciKept, OciRoots
  <2>3. QED
    BY <1>3, <1>4, <2>1, <2>2 DEF OciKept
<1>7. OciBuilt'
  <2>1. CASE phase' = "idle"
    BY <2>1 DEF OciBuilt
  <2>2. CASE phase' = phase /\ at' = at + 1 /\ cloud' = cloud \cup parts /\ ids' = ids \cup {r}
    BY <1>1, <1>2, <1>3, <1>4, <2>2, OciPlaces DEF OciBuilt, Typed
  <2>3. QED
    BY <1>4, <2>1, <2>2
<1>8. OciPass' /\ Typed'
  BY <1>2, <1>4 DEF OciPass, Typed, Phase
<1>9. Grows
  BY <1>2, <1>4 DEF Grows, Untraced
<1>10. QED
  BY <1>5, <1>6, <1>7, <1>8, <1>9 DEF OciInv

LEMMA OciProvisions ==
  ASSUME Typed, OciInv, provider = "oci", OciProvision
  PROVE  OciInv' /\ Typed' /\ Grows
<1>1. CASE Omit(OciOrder, OciWanted)
  <2>1. /\ phase = "provision" /\ phase' = phase /\ provider' = provider /\ plan' = plan
        /\ at' = at + 1 /\ at \in 1..13 /\ ids' = ids /\ cloud' = cloud
    BY <1>1 DEF Omit, Advance, record, Typed, OciOrder
  <2>2. at \notin {1, 6, 7} /\ (at = 12 => "peer" \notin plan)
    <3>1. OciOrder[at] \notin OciWanted /\ Provisioning(OciOrder, OciOrder[at])
      BY <1>1 DEF Omit, Provisioning
    <3>2. QED
      BY <3>1, OciPlaces DEF OciWanted, Typed
  <2>3. OciBuilt'
    BY <2>1, <2>2 DEF OciInv, OciBuilt
  <2>4. Grows
    BY <2>1 DEF Grows, Untraced
  <2>5. QED
    BY <2>1, <2>3, <2>4 DEF OciInv, OciStands, OciKept, OciPass, Typed
<1>2. QED
  BY <1>1, OciCreates DEF OciProvision, OciCreateNetwork, OciLaunch, OciCreateStorage

LEMMA OciDeletes ==
  ASSUME Typed, OciInv, provider = "oci", NEW r, OciDelete(r), r # "end"
  PROVE  OciInv' /\ Typed' /\ Shrinks
<1>1. /\ phase = "cleanup" /\ at \in 1..15 /\ at # 15
      /\ r = "volume" <=> at = 4
      /\ r = "vcn" <=> at = 14
  BY OciPassPlaces DEF OciDelete, Typed
<1>2. OciStands /\ OciKept /\ OciPass
  BY DEF OciInv
<1>3. CASE r \notin ids
  <2>1. /\ at' = at + 1 /\ phase' = phase /\ provider' = provider
        /\ cloud' = cloud /\ ids' = ids /\ failed' = failed
    BY <1>3 DEF OciDelete, Skip, Advance, record, pass
  <2>2. OciPass'
    BY <1>1, <1>2, <1>3, <2>1 DEF OciPass
  <2>3. OciStands' /\ OciKept' /\ OciBuilt' /\ Typed'
    BY <1>1, <1>2, <2>1 DEF OciStands, OciKept, OciBuilt, Typed
  <2>4. Shrinks
    BY <1>1, <2>1 DEF Shrinks, Untraced
  <2>5. QED
    BY <2>2, <2>3, <2>4 DEF OciInv
<1>4. CASE Delete(r, OciHolds, OciCarries, {r} \cap OciInstances)
  <2>1. at' = at + 1 /\ phase' = phase /\ provider' = provider
    BY <1>4 DEF Delete, Advance
  <2>2. ids' \subseteq ids /\ ids \cap OciRoots \subseteq ids'
    BY <1>4 DEF Delete, Deleted, Refused, Errs, Forget, record, OciInstances, OciRoots
  <2>3. /\ OciStands' /\ cloud' \subseteq cloud
        /\ failed' = TRUE \/ (failed' = failed /\ r \notin cloud')
    <3>1. CASE Deleted(r, OciHolds, OciCarries, {r} \cap OciInstances)
      BY <1>2, <3>1, OciDeletionStands DEF Deleted, pass
    <3>2. CASE failed' = TRUE /\ UNCHANGED cloud
      BY <1>2, <3>2 DEF OciStands
    <3>3. CASE failed' = TRUE /\ ~Held(r, OciHolds) /\ cloud' = Without(r, OciCarries)
      BY <1>2, <3>3, OciDeletionStands
    <3>4. QED
      BY <1>4, <3>1, <3>2, <3>3 DEF Delete, Refused, Errs
  <2>4. OciPass'
    BY <1>1, <1>2, <2>1, <2>2, <2>3 DEF OciPass
  <2>5. OciKept' /\ OciBuilt' /\ Typed'
    BY <1>1, <1>2, <2>1, <2>2, <2>3 DEF OciKept, OciRoots, OciBuilt, Typed
  <2>6. Shrinks
    BY <1>1, <2>1, <2>2, <2>3 DEF Shrinks, Untraced, OciRoots
  <2>7. QED
    BY <2>3, <2>4, <2>5, <2>6 DEF OciInv
<1>5. QED
  BY <1>3, <1>4 DEF OciDelete

\* Without its routes a table stands as before.
LEMMA OciClears ==
  ASSUME Typed, OciInv, provider = "oci", NEW s \in {"clearPeer", "clearPublic"},
         NEW table, OciClearRoutes(s, table)
  PROVE  OciInv' /\ Typed' /\ Shrinks
<1>1. /\ phase = "cleanup" /\ at \in 1..15 /\ at \notin {4, 14, 15}
  BY OciPassPlaces DEF OciClearRoutes, Typed
<1>2. OciStands /\ OciKept /\ OciPass
  BY DEF OciInv
<1>3. /\ at' = at + 1 /\ phase' = phase /\ provider' = provider /\ ids' = ids
      /\ cloud' \in {cloud, cloud \ OciRouteOf(table)}
      /\ failed' = TRUE \/ failed' = failed
  BY DEF OciClearRoutes, Skip, Advance, record, pass
<1>4. OciStands'
  BY <1>2, <1>3, OciRouteIsRoute DEF OciStands
<1>5. OciPass'
  BY <1>1, <1>2, <1>3 DEF OciPass
<1>6. OciKept' /\ OciBuilt' /\ Typed'
  BY <1>1, <1>2, <1>3 DEF OciKept, OciBuilt, Typed
<1>7. Shrinks
  BY <1>1, <1>3 DEF Shrinks, Untraced
<1>8. QED
  BY <1>4, <1>5, <1>6, <1>7 DEF OciInv

LEMMA OciFinishes ==
  ASSUME Typed, OciInv, provider = "oci", OciFinish
  PROVE  OciInv' /\ Typed' /\ (Shrinks \/ Ends)
<1>1. phase = "cleanup" /\ at = 15 /\ Finish(~failed)
  BY OciPassPlaces DEF OciFinish, Typed
<1>2. provider' = provider /\ cloud' = cloud /\ at' = 1
  BY <1>1 DEF Finish
<1>3. OciStands /\ OciKept /\ OciPass
  BY DEF OciInv
<1>4. CASE ~failed
  <2>1. "volume" \notin ids \cap cloud /\ "vcn" \notin ids \cap cloud
    BY <1>1, <1>3, <1>4 DEF OciPass
  <2>2. cloud \subseteq OciRoots
    <3>1. SUFFICES ASSUME NEW x \in cloud, x \notin OciRoots PROVE FALSE
      OBVIOUS
    <3>2. "vcn" \in ids
      BY <1>3, <3>1 DEF OciKept
    <3>3. "vcn" \in cloud
      BY <1>3, <3>1 DEF OciStands, OciNames, OciInstances, OciInNetwork, OciRoots
    <3>4. QED
      BY <2>1, <3>2, <3>3
  <2>3. phase' = "destroyed" /\ ids' = ids \ Facts
    BY <1>1, <1>4 DEF Finish
  <2>4. Ends
    <3>1. Facts \cap OciRoots = {}
      BY DEF Facts, OciRoots
    <3>2. OciRoots \ ids' = OciRoots \ ids
      BY <2>3, <3>1
    <3>3. QED
      BY <1>2, <2>1, <2>2, <2>3, <3>2 DEF Ends, Untraced, OciRoots
  <2>5. OciInv'
    BY <1>2, <1>3, <2>2, <2>3 DEF OciInv, OciStands, OciKept, OciBuilt, OciPass
  <2>6. QED
    BY <1>2, <2>3, <2>4, <2>5 DEF Typed, Phase
<1>5. CASE failed
  <2>1. phase' = "idle" /\ ids' = ids
    BY <1>1, <1>5 DEF Finish, record
  <2>2. QED
    BY <1>1, <1>2, <1>3, <2>1
    DEF OciInv, OciStands, OciKept, OciBuilt, OciPass, Typed, Phase, Shrinks, Untraced
<1>6. QED
  BY <1>4, <1>5

LEMMA OciSteppings ==
  ASSUME Typed, OciInv, OciNext
  PROVE  OciInv' /\ Typed' /\ StepKind
<1> USE DEF StepKind
<1>1. provider = "oci"
  BY DEF OciNext
<1>2. CASE OciProvision
  BY <1>1, <1>2, OciProvisions
<1>3. ASSUME NEW r, OciDelete(r), r # "end"
      PROVE  OciInv' /\ Typed' /\ StepKind
  BY <1>1, <1>3, OciDeletes
<1>4. CASE OciFinish
  BY <1>1, <1>4, OciFinishes
<1>5. QED
  BY <1>1, <1>2, <1>3, <1>4, OciClears DEF OciNext, OciCleanup, OciInstances

-------------------------------------------------------------------------------
(* All providers.                                                          *)

\* A destroyed run has nothing left that was ever known.
Gone == phase = "destroyed" => cloud \subseteq Untraced

\* The part of each provider holds of its runs.
Fits ==
  /\ provider = "aws" => AwsInv
  /\ provider = "gcp" => GcpInv
  /\ provider = "azure" => AzureInv
  /\ provider = "oci" => OciInv

IInv == Typed /\ Fits /\ Gone

LEMMA InitFits == Init => IInv
<1> SUFFICES ASSUME Init PROVE IInv
  OBVIOUS
<1> USE DEF Init, Start
<1>1. Typed /\ Gone
  BY ProvidersKnown DEF Typed, Phase, Gone
<1>2. AwsInv
  BY DEF AwsInv, AwsStands, AwsKept, AwsBuilt, AwsPass
<1>3. GcpInv
  BY DEF GcpInv, GcpStands, GcpKept, GcpBuilt, GcpApart, GcpPass
<1>4. AzureInv
  BY DEF AzureInv, AzureStands, AzureBuilt, AzureStrangers, AzurePass
<1>5. OciInv
  BY DEF OciInv, OciStands, OciKept, OciBuilt, OciPass
<1>6. QED
  BY <1>1, <1>2, <1>3, <1>4, <1>5 DEF IInv, Fits

\* Where provisioning or a pass begins or stops, nothing else changes.
LEMMA BetweenPasses ==
  ASSUME IInv, Cease \/ BeginCleanup \/ Abort
  PROVE  IInv' /\ Shrinks
<1>1. /\ provider' = provider /\ cloud' = cloud /\ foreign' = foreign
      /\ ids' = ids /\ intent' = intent /\ unresolved' = unresolved
      /\ at' = 1 /\ phase \in {"provision", "idle", "cleanup"}
      /\ phase' = "idle" \/ (phase' = "cleanup" /\ found' = {})
  BY DEF Cease, BeginCleanup, Abort, Raise, record
<1>2. Typed' /\ Gone' /\ Shrinks
  BY <1>1 DEF IInv, Typed, Phase, Gone, Shrinks, Untraced
<1>3. AwsInv => AwsInv'
  BY <1>1 DEF AwsInv, AwsStands, AwsKept, AwsBuilt, AwsPass
<1>4. GcpInv => GcpInv'
  BY <1>1 DEF GcpInv, GcpStands, GcpKept, GcpBuilt, GcpApart, GcpPass
<1>5. AzureInv => AzureInv'
  BY <1>1 DEF AzureInv, AzureStands, AzureBuilt, AzureStrangers, AzurePass
<1>6. OciInv => OciInv'
  BY <1>1 DEF OciInv, OciStands, OciKept, OciBuilt, OciPass
<1>7. QED
  BY <1>1, <1>2, <1>3, <1>4, <1>5, <1>6 DEF IInv, Fits

\* What others give back was not the run's.
LEMMA LeavingFits ==
  ASSUME IInv, Leave \/ UNCHANGED vars
  PROVE  IInv' /\ Shrinks
<1>1. /\ provider' = provider /\ plan' = plan /\ cloud' = cloud
      /\ ids' = ids /\ intent' = intent /\ unresolved' = unresolved
      /\ at' = at /\ phase' = phase /\ found' = found /\ failed' = failed
      /\ foreign' = foreign \/ (foreign' = {} /\ phase = "idle")
  BY DEF Leave, vars, record, pass
<1>2. Typed' /\ Gone' /\ Shrinks
  BY <1>1 DEF IInv, Typed, Gone, Shrinks, Untraced
<1>3. AwsInv => AwsInv'
  BY <1>1 DEF AwsInv, AwsStands, AwsKept, AwsBuilt, AwsPass
<1>4. GcpInv => GcpInv'
  BY <1>1 DEF GcpInv, GcpStands, GcpKept, GcpBuilt, GcpApart, GcpPass
<1>5. AzureInv => AzureInv'
  BY <1>1 DEF AzureInv, AzureStands, AzureBuilt, AzureStrangers, AzurePass
<1>6. OciInv => OciInv'
  BY <1>1 DEF OciInv, OciStands, OciKept, OciBuilt, OciPass
<1>7. QED
  BY <1>1, <1>2, <1>3, <1>4, <1>5, <1>6 DEF IInv, Fits

\* Every step keeps the invariant, and only adds to what exists, only takes
\* from it, or ends the run.
LEMMA StepFits ==
  ASSUME IInv, [Next]_vars
  PROVE  IInv' /\ StepKind
<1> USE DEF StepKind
<1>1. Typed /\ Fits /\ Gone
  BY DEF IInv
<1>2. ASSUME Typed', StepKind
      PROVE  Gone'
  BY <1>1, <1>2 DEF Gone, Grows, Shrinks, Ends
<1>3. CASE AwsNext
  <2>1. provider = "aws"
    BY <1>3 DEF AwsNext
  <2>2. AwsInv' /\ Typed' /\ StepKind
    BY <1>1, <1>3, <2>1, AwsSteppings DEF Fits
  <2>3. provider' = "aws"
    BY <2>1, <2>2 DEF Grows, Shrinks, Ends
  <2>4. QED
    BY <1>2, <2>2, <2>3 DEF IInv, Fits
<1>4. CASE GcpNext \/ GcpOthers
  <2>1. provider = "gcp"
    BY <1>4 DEF GcpNext, GcpOthers
  <2>2. GcpInv' /\ Typed' /\ StepKind
    BY <1>1, <1>4, <2>1, GcpSteppings, GcpOthersFit DEF Fits
  <2>3. provider' = "gcp"
    BY <2>1, <2>2 DEF Grows, Shrinks, Ends
  <2>4. QED
    BY <1>2, <2>2, <2>3 DEF IInv, Fits
<1>5. CASE AzureNext \/ AzureOthers
  <2>1. provider = "azure"
    BY <1>5 DEF AzureNext, AzureOthers
  <2>2. AzureInv' /\ Typed' /\ StepKind
    BY <1>1, <1>5, <2>1, AzureSteppings, AzureOthersFit DEF Fits
  <2>3. provider' = "azure"
    BY <2>1, <2>2 DEF Grows, Shrinks, Ends
  <2>4. QED
    BY <1>2, <2>2, <2>3 DEF IInv, Fits
<1>6. CASE OciNext
  <2>1. provider = "oci"
    BY <1>6 DEF OciNext
  <2>2. OciInv' /\ Typed' /\ StepKind
    BY <1>1, <1>6, <2>1, OciSteppings DEF Fits
  <2>3. provider' = "oci"
    BY <2>1, <2>2 DEF Grows, Shrinks, Ends
  <2>4. QED
    BY <1>2, <2>2, <2>3 DEF IInv, Fits
<1>7. CASE Cease \/ BeginCleanup \/ Abort
  BY <1>7, BetweenPasses
<1>8. CASE Leave \/ UNCHANGED vars
  BY <1>8, LeavingFits
<1>9. QED
  BY <1>3, <1>4, <1>5, <1>6, <1>7, <1>8 DEF Next, Provider

LEMMA Inductive == Spec => []IInv
<1>1. IInv /\ [Next]_vars => IInv'
  BY StepFits
<1>2. QED
  BY <1>1, InitFits, PTL DEF Spec

-------------------------------------------------------------------------------
(* What the invariant says of the record.                                  *)

LEMMA AllIsTraced == IInv => cloud \subseteq Traced \cup Untraced
<1> SUFFICES ASSUME IInv PROVE cloud \subseteq Traced \cup Untraced
  OBVIOUS
<1>1. Typed
  BY DEF IInv
<1>2. ids \cup intent \subseteq Traced
  BY DEF Traced
<1>3. ASSUME Root \in cloud, Root \in ids \cup intent
      PROVE  cloud \ Independent \subseteq Traced
  BY <1>3 DEF Traced
<1>4. CASE provider = "aws"
  <2>1. Root = "vpc" /\ Independent = AwsRoots
    BY <1>4 DEF Root, Independent, AwsRoots
  <2>2. AwsStands /\ AwsKept
    BY <1>4 DEF IInv, Fits, AwsInv
  <2>3. cloud \ AwsRoots # {} => "vpc" \in cloud
    BY <2>2 DEF AwsStands, AwsNames, AwsRoots, AwsChildren, AwsGroups, AwsInstances
  <2>4. "vpc" \in cloud => "vpc" \in ids \cup intent
    BY <2>2 DEF AwsKept, AwsRoots
  <2>5. QED
    BY <1>2, <1>3, <2>1, <2>2, <2>3, <2>4 DEF AwsKept
<1>5. CASE provider = "gcp"
  <2>1. Root = "network" /\ Independent = GcpRoots
    BY <1>5 DEF Root, Independent, GcpRoots
  <2>2. GcpStands /\ GcpKept
    BY <1>5 DEF IInv, Fits, GcpInv
  <2>3. cloud \ GcpRoots # {} => "network" \in cloud
    BY <2>2 DEF GcpStands, GcpNames, GcpRoots, GcpReplayed
  <2>4. "network" \in cloud => "network" \in ids \cup intent
    BY <2>2 DEF GcpKept, GcpRoots
  <2>5. QED
    BY <1>2, <1>3, <2>1, <2>2, <2>3, <2>4 DEF GcpKept
<1>6. CASE provider = "azure"
  <2>1. Root = "group" /\ Independent = {"group"}
    BY <1>6 DEF Root, Independent
  <2>2. AzureStands
    BY <1>6 DEF IInv, Fits, AzureInv
  <2>3. QED
    BY <1>2, <1>3, <2>1, <2>2 DEF AzureStands
<1>7. CASE provider = "oci"
  <2>1. Root = "vcn" /\ Independent = OciRoots /\ Untraced = OciRoots \ ids
    BY <1>7 DEF Root, Independent, Untraced, OciRoots
  <2>2. OciStands /\ OciKept
    BY <1>7 DEF IInv, Fits, OciInv
  <2>3. cloud \ OciRoots # {} => "vcn" \in cloud /\ "vcn" \in ids
    BY <2>2
    DEF OciStands, OciKept, OciNames, OciRoots, OciInstances, OciInNetwork
  <2>4. QED
    BY <1>2, <1>3, <2>1, <2>3
<1>8. QED
  BY <1>1, <1>4, <1>5, <1>6, <1>7 DEF Typed

\* EverythingIsTraced: whatever exists can be found from the record, whatever
\* creates lost their answers, lookups saw too little and passes were cut short.
THEOREM CompactRunsAreTraced == Spec => []EverythingIsTraced
<1>1. IInv => EverythingIsTraced
  BY AllIsTraced DEF EverythingIsTraced
<1>2. QED
  BY <1>1, Inductive, PTL

\* DestroyedMeansGone: a run whose pass has said so has nothing left, except on
\* OCI what was never on record.
THEOREM DestroyedCompactRunsAreGone == Spec => []DestroyedMeansGone
<1>1. IInv => DestroyedMeansGone
  BY DEF IInv, Gone, DestroyedMeansGone
<1>2. QED
  BY <1>1, Inductive, PTL

\* ImplementsCustody: the cleanup of every provider gives a record up only when
\* nothing is left that it leads to, and nothing is created after the end.
THEOREM CompactRunsImplementCustody == Spec => ImplementsCustody
<1>1. Init => C!Init
  BY ProvidersKnown DEF Init, Start, C!Init, Traced, Root
<1>2. IInv => cloud \subseteq Traced \cup Untraced
  BY AllIsTraced
<1>3. ASSUME IInv, (cloud \subseteq Traced \cup Untraced)', [Next]_vars
      PROVE  [C!Next]_<<cloud \ Untraced, Traced, phase = "destroyed">>
  <2> USE DEF C!Next, C!Create, C!Vanish, C!Finish, C!InSight
  <2>1. (cloud \ Untraced)' \subseteq Traced'
    BY <1>3
  <2>2. StepKind
    BY <1>3, StepFits
  <2>3. CASE Grows
    BY <2>1, <2>3 DEF Grows
  <2>4. CASE Shrinks
    BY <2>1, <2>4 DEF Shrinks
  <2>5. CASE Ends
    BY <2>5 DEF Ends
  <2>6. QED
    BY <2>2, <2>3, <2>4, <2>5 DEF StepKind
<1>4. QED
  BY <1>1, <1>2, <1>3, Inductive, PTL DEF Spec, ImplementsCustody, C!Spec

\* OthersAreSpared: no step of a pass takes anything away from others.  On GCP a
\* resource is verified in the step that deletes it; on Azure nobody comes
\* between the last look at the group and its deletion.
THEOREM CompactRunsSpareOthers == Spec => OthersAreSpared
<1>1. ASSUME IInv, [Next]_vars, phase = "cleanup"
      PROVE  foreign \subseteq foreign'
  <2>1. CASE foreign' = foreign
    BY <2>1
  <2>2. CASE GcpNext
    <3>1. ASSUME NEW r, GcpDelete(r)
          PROVE  foreign \subseteq foreign'
      <4>1. GcpVerified({r}) => GcpTaken(r) = foreign
        BY DEF GcpVerified, GcpIdentified, GcpRelated, GcpTaken
      <4>2. QED
        BY <3>1, <4>1 DEF GcpDelete, GcpLeft
    <3>2. ASSUME NEW r, GcpSweep(r)
          PROVE  foreign' = foreign
      BY <3>2 DEF GcpSweep, GcpLeft
    <3>3. QED
      BY <2>2, <3>1, <3>2 DEF GcpNext, GcpCleanup
  <2>3. CASE AzureDelete /\ provider = "azure"
    <3>1. at = 3
      BY <1>1, <2>3, AzurePassPlaces DEF AzureDelete, IInv, Typed
    <3>2. found # {} => foreign = {}
      BY <1>1, <2>3, <3>1 DEF IInv, Fits, AzureInv, AzurePass
    <3>3. QED
      BY <2>3, <3>2 DEF AzureDelete
  <2>4. CASE GcpOthers \/ AzureOthers
    BY <2>4 DEF GcpOthers, AzureOthers, Replace, Intrude
  <2>5. QED
    BY <1>1, <2>1, <2>2, <2>3, <2>4
    DEF Next, Provider, AwsNext, AzureNext, AzureCleanup, OciNext, Cease,
        BeginCleanup, Abort, Leave, vars
<1>2. QED
  BY <1>1, Inductive, PTL DEF Spec, OthersAreSpared
===============================================================================
