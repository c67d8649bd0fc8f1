------------------------------- MODULE GraphCloud -------------------------------
(***************************************************************************)
(* What the four distributed graphs have in common: a run of five nodes    *)
(* whose resources are all planned, in one save, before the first of them  *)
(* is created.  Each has a status of its own in that plan.  Provisioning   *)
(* can be resumed, load may have been generated, and cleanup stops the load*)
(* generator, checks the whole graph, and deletes it one by one.  A run    *)
(* without a plan is destroyed only by the process that began it, which    *)
(* knows that it has asked for nothing: the record of any other may have   *)
(* been truncated.                                                         *)
(*                                                                         *)
(* As in CompactCloud, a step is one call to the cloud with the saves      *)
(* around it, and a call that fails leaves open whether it took effect.    *)
(***************************************************************************)
EXTENDS Integers, Sequences

CONSTANT MaxFaults   \* bound: failures in the cleanups of a run, retries, and damage

VARIABLES
  provider,   \* who the resources are bought from
  phase,      \* provision, ready, idle, cleanup or destroyed
  at,         \* how many steps of provisioning or of the pass are behind, plus 1
  status,     \* what the plan says of each resource
  known,      \* resources whose identity is saved
  contract,   \* the plan as a whole
  cloud,      \* what exists
  retained,   \* what has ended and is still shown (OCI)
  twice,      \* what was created again although it existed
  stranger,   \* where the graph is not, or not only, what the run has made
  journal,    \* the record of a benchmark that was started
  traffic,    \* the load generator is sending requests
  found,      \* what this pass has seen
  failed,     \* this pass has met an error it goes on after
  faults,     \* failures so far
  calm        \* this pass has met no failure

plan == <<status, known, contract>>
world == <<cloud, retained, twice, stranger>>
load == <<journal, traffic>>
pass == <<found, failed>>
env == <<faults, calm>>
vars == <<provider, phase, at, plan, world, load, pass, env>>

\* none: the graph is what the run has made; loadgen: its load generator has other
\* attributes or attachments; group: so has its group, on Azure; sibling: anything
\* that is not read before the load is stopped has, or is somebody else's.
Strange == {"none", "sibling", "loadgen", "group"}

\* What a provider reads, and must find unchanged, before it stops the load.
Guards == IF provider = "azure" THEN {"group", "loadgen"} ELSE {"loadgen"}

Phase == {"provision", "ready", "idle", "cleanup", "destroyed"}

\* unwritten: nothing is on record, and this process would know of it; preflight:
\* the marker of a run that never created anything.  A record that is empty
\* after a restart, or that was truncated, reads the same.
Contract == {"unwritten", "empty", "truncated", "damaged", "preflight", "open",
             "deleting", "deleted"}

\* GCP and Azure keep less: creating stands for a create with no answer yet.
Status == {"planned", "creating", "create_ambiguous", "running", "deleting",
           "delete_ambiguous", "deleted"}

\* The boot disk of an instance has no status of its own on AWS, OCI and Azure.
BootOf(r) ==
  CASE r = "database" -> {"databaseBoot"}
    [] r = "loadgen" -> {"loadgenBoot"}
    [] OTHER -> {}

\* In holds the second of a pair cannot be deleted before the first is gone.
Held(r, holds) == \E h \in cloud : <<h, r>> \in holds

-------------------------------------------------------------------------------

Fault == faults < MaxFaults /\ faults' = faults + 1 /\ calm' = FALSE

Calmly == UNCHANGED env

\* In a cleanup a choice counts as a failure unless it is the expected one.
Expect(usual) == IF usual \/ phase = "provision" THEN Calmly ELSE Fault

Advance == at' = at + 1 /\ UNCHANGED <<provider, phase>>

\* The pass or the provisioning ends by an exception.
Raise == phase' = "idle" /\ at' = 1 /\ UNCHANGED provider

Skip == UNCHANGED <<plan, world, load, pass>> /\ Calmly /\ Advance

Refuse == UNCHANGED <<plan, world, load, pass>> /\ Calmly /\ Raise

Begin ==
  /\ phase = "provision" /\ at = 1
  /\ status = <<>> /\ known = {} /\ contract = "unwritten"
  /\ cloud = {} /\ retained = {} /\ twice = {} /\ stranger = "none"
  /\ journal = FALSE /\ traffic = FALSE
  /\ found = {} /\ failed = FALSE
  /\ faults = 0 /\ calm = TRUE

-------------------------------------------------------------------------------
(* Provisioning.                                                           *)

\* What is asked for is checked with reads only; then all of it is saved at once.
SaveContract(keys) ==
  /\ phase = "provision" /\ contract = "unwritten"
  /\ contract' = "open" /\ status' = [r \in keys |-> "planned"]
  /\ UNCHANGED <<provider, phase, at, known, world, load, pass, env>>

Provisioning(order, r) ==
  phase = "provision" /\ contract = "open" /\ at <= Len(order) /\ order[at] = r

\* A create takes effect with these parts.
Make(parts) ==
  /\ cloud' = cloud \cup parts
  /\ twice' = twice \cup (cloud \cap parts)
  /\ UNCHANGED <<retained, stranger>>

\* By a name that the cloud keeps unique.
Put(parts) == cloud' = cloud \cup parts /\ UNCHANGED <<retained, twice, stranger>>

\* What is asked for is not offered or not what is on record; a wait, a read or a
\* setting fails; or the server dies.
Cease == phase = "provision" /\ Refuse

Complete(order) ==
  /\ phase = "provision" /\ at = Len(order) + 1
  /\ phase' = "ready" /\ at' = 1
  /\ UNCHANGED <<provider, plan, world, load, pass, env>>

\* The journal is saved before the first unit of load is started.
Measure ==
  /\ phase = "ready" /\ ~journal
  /\ journal' = TRUE
  /\ traffic' \in BOOLEAN
  /\ UNCHANGED <<provider, phase, at, plan, world, pass, env>>

\* Another process takes over; it cannot tell what was asked for.
Restart ==
  /\ phase = "idle" /\ contract = "unwritten"
  /\ contract' = "empty"
  /\ UNCHANGED <<provider, phase, at, status, known, world, load, pass, env>>

\* The record of a run that is on disk is truncated, or no longer fits together.
Damage ==
  /\ phase \in {"idle", "ready"} /\ contract \in {"open", "deleting", "deleted"}
  /\ faults < MaxFaults /\ faults' = faults + 1
  /\ \/ contract' = "truncated" /\ status' = <<>> /\ known' = {} /\ journal' = FALSE
     \/ contract' = "damaged" /\ UNCHANGED <<status, known, journal>>
  /\ UNCHANGED <<provider, phase, at, world, traffic, pass, calm>>

\* Provisioning is asked for again.
Resume(names) ==
  /\ phase = "idle" /\ provider \in names /\ contract = "open"
  /\ faults < MaxFaults /\ faults' = faults + 1
  /\ phase' = "provision" /\ at' = 1
  /\ UNCHANGED <<provider, plan, world, load, pass, calm>>

-------------------------------------------------------------------------------
(* Cleanup.                                                                *)

Cleaning(steps, s) == phase = "cleanup" /\ at <= Len(steps) /\ steps[at] = s

\* Mistake: an empty record is proof.
AttestedIfEmpty == contract \in {"unwritten", "empty", "truncated"}

\* _DISTRIBUTED_LIVE_EMPTY_PREFLIGHT_PROOF is in the memory of one process, never
\* saved, and handed on only while nothing is on record.
Attested == contract = "unwritten"

\* Without a complete contract nothing is asked of the provider.
BeginCleanup ==
  /\ phase \in {"idle", "ready"} /\ at' = 1
  /\ \/ Attested /\ phase' = "destroyed" /\ contract' = "preflight"
     \/ ~Attested /\ contract \in {"empty", "truncated"} /\ phase' = "idle"
        /\ UNCHANGED contract
     \/ ~Attested /\ contract \notin {"empty", "truncated"} /\ phase' = "cleanup"
        /\ UNCHANGED contract
  /\ found' = {} /\ failed' = FALSE
  /\ calm' = TRUE
  /\ UNCHANGED <<provider, status, known, world, load, faults>>

\* A record that does not fit together authorizes nothing, not even to stop the
\* load.
LoadContract(steps) ==
  Cleaning(steps, "load") /\ IF contract = "damaged" THEN Refuse ELSE Skip

\* The server dies, or a read fails.
Abort ==
  /\ phase = "cleanup"
  /\ UNCHANGED <<plan, world, load, pass>>
  /\ Fault
  /\ Raise

\* The load generator is stopped.  When the call fails it is read once
\* more, and the pass goes on only if it is quiet.
Stop ==
  /\ UNCHANGED <<plan, world, journal, pass>>
  /\ \/ traffic' = FALSE /\ Calmly /\ Advance
     \/ UNCHANGED traffic /\ Fault /\ Raise

\* A load generator that is not what was made is not touched, and its load goes on.
StopExact == IF stranger = "loadgen" THEN Refuse ELSE Stop

\* Something is gone, and an instance with its traffic.
Remove(parts) ==
  /\ cloud' = cloud \ parts
  /\ retained' = retained \cup
       (IF provider = "oci" THEN parts \cap cloud \cap {"loadgen"} ELSE {})
  /\ traffic' = (traffic /\ "loadgen" \notin parts)
  /\ UNCHANGED <<twice, stranger, journal>>

Finish ==
  /\ phase' = "destroyed" /\ at' = 1
  /\ UNCHANGED <<provider, world, load, pass, env>>

-------------------------------------------------------------------------------
(* Others.                                                                 *)

\* Somebody attaches something to the graph, or changes it, between two passes.
Intrude ==
  /\ phase \in {"ready", "idle"} /\ cloud # {} /\ stranger = "none"
  /\ faults < MaxFaults /\ faults' = faults + 1
  /\ stranger' \in {"sibling"} \cup (Guards \cap cloud)
  /\ UNCHANGED <<provider, phase, at, plan, cloud, retained, twice, load, pass, calm>>

Leave ==
  /\ stranger # "none" /\ phase # "cleanup"
  /\ stranger' = "none"
  /\ UNCHANGED <<provider, phase, at, plan, cloud, retained, twice, load, pass, env>>

\* OCI no longer shows an instance that has ended.
Drop ==
  /\ retained # {}
  /\ retained' = {}
  /\ UNCHANGED <<provider, phase, at, plan, cloud, twice, stranger, load, pass, env>>
===============================================================================
