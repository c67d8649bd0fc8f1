------------------------------ MODULE PipelineRun ------------------------------
(***************************************************************************)
(* run_distributed_deathstarbench (app/deathstarbench_public.py): the      *)
(* cluster, then Social Network up to its measurement, which               *)
(* MeasurementJournal continues, or Hotel or Media to their result.        *)
(***************************************************************************)
EXTENDS SupportBenchmark

CONSTANT Workloads   \* those that a plan can name

ASSUME WorkloadsKnown == Workloads \subseteq {"social", "hotel", "media"}
ASSUME MaxFaultsAssumption == MaxFaults \in Nat

Attempt == Begin \/ K3sStep \/ SocialStep \/ NetworkStep \/ SupportStep

-------------------------------------------------------------------------------
(* Properties.                                                             *)

Rank(stage) ==
  IF stage = "none" THEN 0 ELSE CHOOSE i \in 1..7 : Stages[i] = stage

\* What the journals say was done has been done, and what identifies the run is
\* recorded before it is used: prepared hosts, joined agents and applied phases
\* are there, an agent holds no credential of an authority that is not on disk,
\* and the file system and authority on record are the live ones unless somebody
\* replaced them.  No journal says ready while the workload is being revisited.
ClaimsAreTrue ==
  /\ \A job \in {memory, disk} :
       /\ \A i \in 1..job.k3s.prepared : guest[Hosts[i]] = {"prepared", "installed"}
       /\ \A i \in 1..job.k3s.joined : token[Agents[i]] = job.k3s.ca
       /\ \A i \in 1..job.work.applied : WorkloadPhases[i] \in objects
       /\ ~tampered =>
            /\ job.k3s.volume \in {0, volume.filesystem}
            /\ job.k3s.ca \in {0, ca}
            /\ job.work.storage # 0 => volume.store = "ready"
       /\ pc \in {"reattest", "store", "apply", "send", "attest"} =>
            job.work.state # "workload_ready"
  /\ \A h \in AgentSet : token[h] > 0 => token[h] = disk.k3s.ca

\* File system, authority and evidence that were recorded once are never
\* replaced in the record, nor does an attempt replace what it finds: a file
\* system, an authority, a credential, or the Pod of somebody else.
ReplacesNothing ==
  /\ disk.k3s.volume # 0 => disk'.k3s.volume = disk.k3s.volume
  /\ disk.k3s.ca # 0 => disk'.k3s.ca = disk.k3s.ca
  /\ disk.evidence # "none" => disk'.evidence = disk.evidence
  /\ pc # "idle" =>
       /\ volume.filesystem # 0 => volume'.filesystem = volume.filesystem
       /\ ca # 0 => ca' = ca
       /\ \A h \in HostSet : token[h] # Absent => token'[h] = token[h]
  /\ \A n \in DOMAIN probe : probe[n] = "foreign" => probe'[n] = "foreign"

\* Every step is one that replaces nothing: it may only add to what is there.
NothingIsReplaced == [][ReplacesNothing]_vars

\* Evidence of a denied path comes from a policy that is in force, unless a
\* whole outage lay between the two positive controls; and the qualification
\* leaves none of its Pods behind.
DenialIsReal ==
  /\ memory.evidence # "none" /\ ~network.glitch =>
       network.enforced /\ "policies" \in objects
  /\ pc = "measured" => \A n \in DOMAIN probe : probe[n] # "ours"

\* A result of Hotel or Media is on disk exactly with its last stage, and rests
\* on one initializer, one check, at most one warm-up and one measurement, all
\* of which finished.
SupportResultIsEvidence ==
  /\ disk.result <=> disk.stage = "measurement_complete"
  /\ memory.result =>
       /\ effect["warmup"] \in {"none", "finished"}
       /\ \A s \in OneShotStep \ {"warmup"} : effect[s] = "finished" /\ times[s] = 1

\* What Hotel and Media must not repeat they do not: MeasurementJournal makes
\* the same promise for Social Network.
Announced == {StepOf[g] : g \in {g \in DOMAIN StepOf : Rank(g) <= Rank(disk.stage)}}

Once == INSTANCE OneShot WITH Step <- OneShotStep, latched <- Announced

\* The stage on disk announces a one-shot step before it is sent, and it is sent
\* at most once.
ImplementsOneShot == Once!Spec

\* Attempts that were interrupted can be repeated: with failures that come to an
\* end the run reaches its measurement or its result.  What may stop it for good
\* is a credential without its owner mark, something that was replaced or put in
\* the way, a cluster that enforces no policy, evidence that differs, and an
\* interrupted Hotel or Media.
GotThrough ==
  \/ pc \in {"measured", "completed"}
  \/ \E h \in HostSet : token[h] = Partial
  \/ tampered
  \/ \E n \in DOMAIN probe : probe[n] = "foreign"
  \/ ~network.enforced
  \/ pc = "evidence" /\ memory.evidence \notin {"none", seen.denied}
  \/ pc = "idle" /\ memory.stage # "none"
===============================================================================
