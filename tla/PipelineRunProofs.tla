--------------------------- MODULE PipelineRunProofs ---------------------------
(***************************************************************************)
(* TLAPS proofs about the distributed run of RunBenchmarks (PipelineRun),  *)
(* for any number of failures, restarts and attempts.  PipelineInv says    *)
(* for each place of an attempt what the job in memory, state.json and     *)
(* the world have to do with each other: the journals (JobsFit), the hosts *)
(* (HostsFit), the data disk (VolumeFits), the authority and the           *)
(* credentials made of it (AuthorityFits), what is deployed                *)
(* (WorkloadFits), what the probes showed (PathsFit), and the stages of    *)
(* Hotel and Media with the commands they send (SupportFits).              *)
(*                                                                         *)
(* What was recorded must still be so at the end of any attempt, so every  *)
(* part relates both copies of the job to the world, and the place of the  *)
(* attempt to what it has found again in this attempt.  StepKept is the    *)
(* other half: what a step may not replace.                                *)
(***************************************************************************)
EXTENDS RunBenchmarksProofs, SequenceTheorems, TLAPS

-------------------------------------------------------------------------------
(* The inductive invariant.                                                *)

K3sStates ==
  {"none", "preparing_hosts", "hosts_prepared", "database_storage_ready", "server_ready",
   "joining_agents", "agents_ready", "cluster_ready"}
StageNames ==
  {"none", "deploying_support", "initializing_dataset", "starting_applications",
   "semantic_checks", "warming_up", "measuring", "measurement_complete"}

\* A job that the program has written.
IsJob(j) ==
  /\ DOMAIN j = {"k3s", "work", "evidence", "stage", "result"}
  /\ DOMAIN j.k3s = {"state", "prepared", "joined", "ca", "volume"}
  /\ j.k3s.state \in K3sStates /\ j.k3s.prepared \in 0..4 /\ j.k3s.joined \in 0..3
  /\ j.k3s.ca \in Nat /\ j.k3s.volume \in Nat /\ ValidK3s(j.k3s)
  /\ DOMAIN j.work = {"state", "applied", "storage"}
  /\ j.work.applied \in 0..5 /\ j.work.storage \in Nat
  /\ j.evidence \in {"none", "drop", "reject"}
  /\ j.stage \in StageNames /\ j.result \in BOOLEAN

OnHosts == {"prepare", "install", "preflight"}
Mounting == {"hosts", "mount"}
Starts == {"tokens", "server", "readyz", "pin", "secret"}
Joining == {"agentToken", "join", "agentReady"}
Revisiting == {"reattest", "store", "apply", "send", "attest"}
Qualifies == {"network", "delete", "evidence", "measured"}
Benchmarking == {"stage", "do", "rollout", "await", "before", "complete"}
AfterSecret ==
  {"joining", "agents", "nodes", "workload", "completed"} \cup Joining \cup Revisiting
    \cup Qualifies \cup Benchmarking
Places == {"idle"} \cup OnHosts \cup Mounting \cup Starts \cup AfterSecret

Full(h) == guest[h] = {"prepared", "installed"}

\* Hosts that are on record, or behind the place of the attempt, are prepared.
HostsFit ==
  /\ guest \in [HostSet -> SUBSET {"prepared", "installed"}]
  /\ \A job \in {memory, disk} : \A i \in 1..job.k3s.prepared : Full(Hosts[i])
  /\ pc \in OnHosts => turn \in 1..4 /\ \A i \in 1..(turn - 1) : Full(Hosts[i])
  /\ pc = "install" => "prepared" \in guest[Hosts[turn]]
  /\ pc = "preflight" => Full(Hosts[turn])
  /\ pc \notin {"idle"} \cup OnHosts => \A i \in 1..4 : Full(Hosts[i])

\* The file system on record is the one of the attempt.
VolumeFits ==
  /\ DOMAIN volume = {"filesystem", "mounted", "store"} /\ volume.filesystem \in Nat
  /\ pc \in Starts \cup AfterSecret =>
       volume.filesystem # 0 /\ memory.k3s.volume = volume.filesystem
  /\ pc \in OnHosts /\ first => memory.k3s.volume = 0
  /\ ~tampered => \A job \in {memory, disk} : job.k3s.volume \in {0, volume.filesystem}
  /\ disk.k3s.volume \in {0, memory.k3s.volume}

\* The authority on record is the one of the attempt and of every credential.
AuthorityFits ==
  /\ ca \in Nat /\ token \in [HostSet -> Int]
  /\ pc \in AfterSecret => ca # 0 /\ memory.k3s.ca = ca
  /\ ~tampered => \A job \in {memory, disk} : job.k3s.ca \in {0, ca}
  /\ disk.k3s.ca \in {0, memory.k3s.ca}
  /\ \A job \in {memory, disk} : \A i \in 1..job.k3s.joined : token[Agents[i]] = job.k3s.ca
  /\ \A h \in AgentSet : token[h] > 0 => token[h] = disk.k3s.ca
  /\ pc \in Joining => turn \in 1..3 /\ \A i \in 1..(turn - 1) : token[Agents[i]] = ca
  /\ pc \in {"join", "agentReady"} => token[Agents[turn]] = ca
  /\ pc \in {"agents", "nodes"} => \A i \in 1..3 : token[Agents[i]] = ca

\* Phases that are on record, or behind, are applied, on a store that is ready.
WorkloadFits ==
  /\ \A job \in {memory, disk} :
       /\ \A i \in 1..job.work.applied : WorkloadPhases[i] \in objects
       /\ ~tampered /\ job.work.storage # 0 => volume.store = "ready"
  /\ pc \in {"apply", "send", "attest"} => volume.store = "ready"
  /\ pc \in {"apply", "send"} =>
       turn \in 1..5 /\ \A i \in 1..(turn - 1) : WorkloadPhases[i] \in objects
  /\ pc \in Revisiting => memory.work.state # "workload_ready"

Denied == network.enforced /\ "policies" \in objects

\* What the probes showed was so.
PathsFit ==
  /\ DOMAIN network = {"enforced", "path", "glitch"}
  /\ DOMAIN seen = {"before", "denied", "after"} /\ seen.denied \in {"none", "drop", "reject"}
  /\ probe \in [{"control", "deny"} -> {"none", "ours", "foreign"}]
  /\ pc \notin {"idle"} \cup Qualifies => seen = Unseen
  /\ pc \in {"network", "delete"} =>
       /\ turn \in 1..9 /\ (turn <= 7 => ~seen.after) /\ (turn \in {5, 6} => seen.before)
       /\ ~failed => /\ turn >= 7 => seen.before /\ seen.denied # "none"
                     /\ turn >= 8 => seen.after
                     /\ turn = 9 => probe["deny"] # "ours"
  /\ pc = "delete" => NetworkPlan[turn].kind = "clear"
  /\ pc = "evidence" /\ ~failed =>
       seen.before /\ seen.denied # "none" /\ seen.after
  /\ (pc = "evidence" /\ ~failed) \/ pc = "measured" =>
       probe["control"] # "ours" /\ probe["deny"] # "ours"
  /\ seen.denied # "none" /\ ~Denied /\ ~network.glitch =>
       seen.before /\ ~network.path /\ ~seen.after
  /\ memory.evidence # "none" /\ ~network.glitch => Denied
  /\ disk.evidence \in {"none", memory.evidence}

\* Where a stage, and the step that belongs to it, are in the list of stages.
StagePlace(w, stage) ==
  CASE stage = "none" -> 0
    [] stage = "deploying_support" -> 1
    [] stage = "initializing_dataset" -> IF w = "hotel" THEN 2 ELSE 3
    [] stage = "starting_applications" -> IF w = "hotel" THEN 3 ELSE 2
    [] stage = "semantic_checks" -> 4
    [] stage = "warming_up" -> 5
    [] stage = "measuring" -> 6
    [] OTHER -> 7
StepPlace(w, s) ==
  CASE s = "initialize" -> IF w = "hotel" THEN 2 ELSE 3
    [] s = "check" -> 4 [] s = "warmup" -> 5 [] OTHER -> 6

Done(s) == effect[s] = "finished" /\ times[s] = 1
NotSent(s) == effect[s] = "none" /\ times[s] = 0

\* Steps behind a place are done, and those from another place on were not sent.
DoneBefore(n) ==
  \A s \in OneShotStep : StepPlace(workload, s) < n => Done(s) \/ (s = "warmup" /\ NotSent(s))
NotSentFrom(n) == \A s \in OneShotStep : StepPlace(workload, s) >= n => NotSent(s)

SupportFits ==
  /\ effect \in [OneShotStep -> {"none", "running", "finished", "dead"}]
  /\ times \in [OneShotStep -> {0, 1}]
  /\ \A job \in {memory, disk} : job.result <=> job.stage = "measurement_complete"
  /\ StagePlace(workload, disk.stage) <= StagePlace(workload, memory.stage)
  /\ \A s \in OneShotStep :
       IF times[s] = 0 THEN effect[s] = "none"
                       ELSE StepPlace(workload, s) <= StagePlace(workload, disk.stage)
  /\ memory.result => DoneBefore(7)
  /\ pc \in Benchmarking =>
       /\ ~memory.result /\ turn \in 1..7 /\ DoneBefore(turn) /\ NotSentFrom(turn + 1)
       /\ IF pc = "stage" THEN StagePlace(workload, memory.stage) < turn
                          ELSE turn < 7 /\ StagePlace(workload, memory.stage) = turn
  /\ pc \in {"stage", "do", "rollout"} => NotSentFrom(turn)
  /\ pc = "rollout" => memory.stage = "starting_applications"
  /\ pc = "await" => memory.stage \in DOMAIN StepOf /\ times[StepOf[memory.stage]] = 1
  /\ pc = "before" => memory.stage = "semantic_checks" /\ Done("check")
  /\ pc = "complete" => memory.stage = "measuring" /\ Done("measure")

\* Behind the secret whatever is in memory has been saved.
JobsFit ==
  /\ pc \in Places /\ IsJob(memory) /\ IsJob(disk)
  /\ pc \in AfterSecret => disk = memory

PipelineInv ==
  /\ JobsFit /\ HostsFit /\ VolumeFits /\ AuthorityFits /\ WorkloadFits /\ PathsFit /\ SupportFits

-------------------------------------------------------------------------------
(* Names, and what a save of the journal does.                             *)

\* The four hosts and the three agents by name.
LEMMA HostNames ==
  /\ HostSet = {"control", "database", "cache", "application"}
  /\ AgentSet = {"database", "cache", "application"} /\ AgentSet \subseteq HostSet
  /\ Hosts[1] = "control" /\ Hosts[2] = "database" /\ Hosts[3] = "cache"
  /\ Hosts[4] = "application" /\ Len(Hosts) = 4
  /\ Agents[1] = "database" /\ Agents[2] = "cache" /\ Agents[3] = "application"
  /\ Len(Agents) = 3
<1> DEFINE head == <<"control">>
           names == {"control", "database", "cache", "application"}
<1>1. /\ head \in [1..1 -> names] /\ Len(head) = 1 /\ head[1] = "control"
      /\ Agents \in [1..3 -> names] /\ Len(Agents) = 3
      /\ Agents[1] = "database" /\ Agents[2] = "cache" /\ Agents[3] = "application"
  BY DEF Agents
<1> HIDE DEF head, names
<1>2. head \in Seq(names) /\ Agents \in Seq(names)
  <2>1. Seq(names) = UNION {[1..n -> names] : n \in Nat}
    BY SeqDef
  <2>2. 1 \in Nat /\ 3 \in Nat
    OBVIOUS
  <2> QED
    BY <1>1, <2>1, <2>2
<1>3. /\ Len(head \o Agents) = Len(head) + Len(Agents)
      /\ \A i \in 1..(Len(head) + Len(Agents)) :
           (head \o Agents)[i] = IF i <= Len(head) THEN head[i] ELSE Agents[i - Len(head)]
  BY <1>2, ConcatProperties
<1>4. Hosts = head \o Agents
  BY DEF Hosts, head
<1>5. /\ Len(Hosts) = 4 /\ Hosts[1] = "control" /\ Hosts[2] = "database"
      /\ Hosts[3] = "cache" /\ Hosts[4] = "application"
  BY <1>1, <1>3, <1>4
<1>6. HostSet = {"control", "database", "cache", "application"}
  BY <1>5 DEF HostSet
<1>7. AgentSet = {"database", "cache", "application"}
  BY <1>1 DEF AgentSet
<1> QED
  BY <1>1, <1>5, <1>6, <1>7

\* Where an attempt may rest is no place behind the secret.
LEMMA PlacesApart == "idle" \in Places /\ "idle" \notin AfterSecret
BY DEF Places, AfterSecret, Joining, Revisiting, Qualifies, Benchmarking

\* A save leaves the job in memory, and on disk unless it raises.
LEMMA JobSaves ==
  ASSUME JobsFit, NEW j, IsJob(j), NEW next \in Places, NEW n, Save(j, next, n)
  PROVE  /\ JobsFit' /\ memory' = j /\ disk' \in {disk, j}
         /\ \/ disk' = j /\ pc' = next /\ turn' = n
            \/ disk' = disk /\ pc' = "idle" /\ turn' = 1
         /\ UNCHANGED <<first, failed, seen, snapshot>>
BY PlacesApart DEF Save, JobsFit, Answered, Lost, Goto

K3sOf(reached, prepared, joined, authority, filesystem) ==
  [state |-> reached, prepared |-> prepared, joined |-> joined, ca |-> authority,
   volume |-> filesystem]

\* The journal of K3s is written into the job and nothing else.
K3sSaved(j, next, n) ==
  /\ JobsFit' /\ UNCHANGED <<first, failed, seen, snapshot>>
  /\ ValidK3s(j) /\ memory' = [memory EXCEPT !.k3s = j] /\ memory'.k3s = j
  /\ memory'.work = memory.work /\ memory'.evidence = memory.evidence
  /\ memory'.stage = memory.stage /\ memory'.result = memory.result
  /\ \/ disk' = memory' /\ pc' = next /\ turn' = n
     \/ disk' = disk /\ pc' = "idle"

\* A job with another journal of K3s is a job.
LEMMA K3sJob ==
  ASSUME NEW job, IsJob(job), NEW reached \in K3sStates, NEW prepared \in 0..4, NEW joined \in 0..3,
         NEW authority \in Nat, NEW filesystem \in Nat,
         ValidK3s(K3sOf(reached, prepared, joined, authority, filesystem))
  PROVE  IsJob([job EXCEPT !.k3s = K3sOf(reached, prepared, joined, authority, filesystem)])
<1> DEFINE j == K3sOf(reached, prepared, joined, authority, filesystem)
           new == [job EXCEPT !.k3s = j]
<1>1. /\ DOMAIN j = {"state", "prepared", "joined", "ca", "volume"} /\ j.state = reached
      /\ j.prepared = prepared /\ j.joined = joined /\ j.ca = authority /\ j.volume = filesystem
  BY DEF K3sOf
<1>2. /\ DOMAIN new = DOMAIN job /\ new.k3s = j /\ new.work = job.work
      /\ new.evidence = job.evidence /\ new.stage = job.stage /\ new.result = job.result
  BY DEF IsJob
<1> HIDE DEF j, new
<1> QED
  BY <1>1, <1>2 DEF IsJob, j, new

\* A save of the journal of K3s is refused, or it is in memory and perhaps on disk.
LEMMA K3sSaves ==
  ASSUME JobsFit, NEW reached \in K3sStates, NEW prepared \in 0..4, NEW joined \in 0..3,
         NEW authority \in Nat, NEW filesystem \in Nat, NEW next \in Places, NEW n,
         SaveK3s(reached, prepared, joined, authority, filesystem, next, n)
  PROVE  \/ /\ JobsFit' /\ UNCHANGED <<memory, disk, first, failed, seen, snapshot>>
            /\ pc' = "idle"
         \/ K3sSaved(K3sOf(reached, prepared, joined, authority, filesystem), next, n)
<1> DEFINE j == K3sOf(reached, prepared, joined, authority, filesystem)
           new == [memory EXCEPT !.k3s = j]
<1>1. CASE ValidK3s(j)
  <2>1. IsJob(new)
    BY <1>1, K3sJob DEF JobsFit
  <2>2. Save(new, next, n)
    BY <1>1 DEF SaveK3s, K3sOf
  <2>3. /\ new.k3s = j /\ new.work = memory.work /\ new.evidence = memory.evidence
        /\ new.stage = memory.stage /\ new.result = memory.result
    BY DEF JobsFit, IsJob
  <2> HIDE DEF j, new
  <2>4. /\ JobsFit' /\ memory' = new /\ disk' \in {disk, new}
        /\ \/ disk' = new /\ pc' = next /\ turn' = n
           \/ disk' = disk /\ pc' = "idle" /\ turn' = 1
        /\ UNCHANGED <<first, failed, seen, snapshot>>
    BY <2>1, <2>2, JobSaves
  <2> QED
    BY <1>1, <2>3, <2>4 DEF K3sSaved, j, new
<1>2. CASE ~ValidK3s(j)
  BY <1>2, PlacesApart DEF SaveK3s, K3sOf, Refuse, Goto, JobsFit, journals
<1> QED
  BY <1>1, <1>2

-------------------------------------------------------------------------------
(* What a step leaves in order beside itself.                              *)

\* A step that leaves the deployment alone, or only adds to it.
LEMMA WorkloadRests ==
  ASSUME WorkloadFits, JobsFit, objects \subseteq objects', tampered' = tampered,
         volume.store = "ready" => volume'.store = "ready",
         memory'.work \in {memory.work, disk.work}, disk'.work \in {memory.work, disk.work},
         pc' \notin Revisiting
  PROVE  WorkloadFits'
BY DEF WorkloadFits, Revisiting

\* A step beside the qualification of the paths.
LEMMA PathsRest ==
  ASSUME PathsFit, JobsFit, objects \subseteq objects', network' = network, probe' = probe,
         seen' \in {seen, Unseen}, pc' = "idle" \/ seen' = Unseen, pc' \notin Qualifies,
         \/ /\ memory'.evidence = memory.evidence
            /\ disk'.evidence \in {disk.evidence, memory.evidence}
         \/ memory'.evidence = disk.evidence /\ disk'.evidence = disk.evidence
  PROVE  PathsFit'
BY DEF PathsFit, Qualifies, Unseen, Denied

\* A step beside the benchmark of Hotel and Media.
LEMMA SupportRests ==
  ASSUME SupportFits, JobsFit, UNCHANGED <<workload, effect, times>>, pc' \notin Benchmarking,
         \/ /\ memory'.stage = memory.stage /\ memory'.result = memory.result
            /\ \/ disk'.stage = disk.stage /\ disk'.result = disk.result
               \/ disk'.stage = memory.stage /\ disk'.result = memory.result
         \/ /\ memory'.stage = disk.stage /\ memory'.result = disk.result
            /\ disk'.stage = disk.stage /\ disk'.result = disk.result
  PROVE  SupportFits'
<1>1. /\ effect' = effect /\ times' = times /\ workload' = workload
      /\ StagePlace(workload, memory.stage) \in 0..7 /\ StagePlace(workload, disk.stage) \in 0..7
      /\ \A s \in OneShotStep : StepPlace(workload, s) \in 2..6
  BY DEF StagePlace, StepPlace
<1>2. disk.result => memory.result
  BY <1>1 DEF SupportFits, StagePlace, JobsFit, IsJob, StageNames
<1> QED
  BY <1>1, <1>2 DEF SupportFits, Benchmarking, DoneBefore, Done, NotSent

\* A step behind the cluster.
LEMMA K3sRests ==
  ASSUME PipelineInv, pc \in AfterSecret, pc' \in {"idle"} \cup AfterSecret,
         pc' \notin Joining \cup {"agents", "nodes"},
         UNCHANGED <<guest, token, ca, tampered>>,
         DOMAIN volume' = DOMAIN volume, volume'.filesystem = volume.filesystem,
         memory'.k3s = memory.k3s, disk'.k3s = disk.k3s
  PROVE  HostsFit' /\ VolumeFits' /\ AuthorityFits'
<1>1. pc \notin {"idle"} \cup OnHosts /\ pc' \notin OnHosts /\ pc' \notin {"install", "preflight"}
  BY DEF AfterSecret, OnHosts, Joining, Revisiting, Qualifies, Benchmarking
<1>2. HostsFit'
  BY <1>1 DEF PipelineInv, HostsFit, Full
<1>3. VolumeFits'
  BY <1>1 DEF PipelineInv, VolumeFits, JobsFit, Starts, AfterSecret, Joining, Revisiting, Qualifies,
              Benchmarking
<1>4. AuthorityFits'
  BY <1>1 DEF PipelineInv, AuthorityFits, Joining, AfterSecret, Revisiting, Qualifies, Benchmarking
<1> QED
  BY <1>2, <1>3, <1>4

-------------------------------------------------------------------------------
(* The places of an attempt, and the hosts.                                *)

\* The stretches of an attempt do not overlap.
LEMMA PlaceSets ==
  /\ AfterSecret \cap ({"idle"} \cup OnHosts \cup Mounting \cup Starts) = {}
  /\ Starts \cap ({"idle"} \cup OnHosts \cup Mounting) = {}
  /\ OnHosts \cap Mounting = {} /\ "idle" \notin OnHosts \cup Mounting
  /\ (OnHosts \cup Mounting \cup Starts) \cap
       (Joining \cup Revisiting \cup Qualifies \cup Benchmarking) = {}
  /\ Joining \cap (Revisiting \cup Qualifies \cup Benchmarking) = {}
  /\ Joining \cup Revisiting \cup Qualifies \cup Benchmarking \subseteq AfterSecret
BY DEF AfterSecret, OnHosts, Mounting, Starts, Joining, Revisiting, Qualifies, Benchmarking

\* The journals as they were, or a new journal of K3s.
K3sJournals ==
  \/ UNCHANGED <<memory, disk>>
  \/ \E j, next, n : K3sSaved(j, next, n)

\* What the cluster is made of is not what runs on it.
LEMMA ElsewhereRests ==
  ASSUME PipelineInv, JobsFit', K3sJournals,
         UNCHANGED <<workload, objects, network, probe, effect, times, tampered, seen>>,
         volume'.store = volume.store, pc \notin {"idle"} \cup Qualifies,
         pc' \notin Revisiting \cup Qualifies \cup Benchmarking
  PROVE  WorkloadFits' /\ PathsFit' /\ SupportFits'
<1>1. /\ memory'.work = memory.work /\ memory'.evidence = memory.evidence
      /\ memory'.stage = memory.stage /\ memory'.result = memory.result
      /\ disk' \in {disk, memory'}
  BY DEF K3sJournals, K3sSaved
<1>2. seen' = Unseen
  BY DEF PipelineInv, PathsFit
<1>3. WorkloadFits'
  BY <1>1, WorkloadRests DEF PipelineInv
<1>4. PathsFit'
  BY <1>1, <1>2, PathsRest DEF PipelineInv
<1>5. SupportFits'
  BY <1>1, SupportRests DEF PipelineInv
<1> QED
  BY <1>3, <1>4, <1>5

\* Prepared hosts stay prepared.
LEMMA GuestsGrow ==
  ASSUME HostsFit, NEW h \in HostSet, guest' \in {guest, HostPrepared(h), ArtifactInstalled(h)}
  PROVE  /\ guest' \in [HostSet -> SUBSET {"prepared", "installed"}]
         /\ \A i \in 1..4 : Full(Hosts[i]) => guest'[Hosts[i]] = {"prepared", "installed"}
BY HostNames DEF HostsFit, Full, HostPrepared, ArtifactInstalled

\* A step that only moves on.
LEMMA HostsRest ==
  ASSUME HostsFit, guest' = guest, memory'.k3s = memory.k3s, disk'.k3s = disk.k3s,
         \/ pc' = "idle"
         \/ pc' = "prepare" /\ turn' \in 1..4 /\ \A i \in 1..(turn' - 1) : Full(Hosts[i])
         \/ pc' \notin OnHosts /\ \A i \in 1..4 : Full(Hosts[i])
  PROVE  HostsFit'
<1>1. \A job \in {memory', disk'} : \A i \in 1..job.k3s.prepared : Full(Hosts[i])
  BY DEF HostsFit
<1> QED
  BY <1>1 DEF HostsFit, Full, OnHosts

\* A step that leaves the file system and its record alone.
LEMMA VolumeRests ==
  ASSUME VolumeFits, volume' = volume, tampered' = tampered, first' = first,
         memory'.k3s = memory.k3s, disk'.k3s = disk.k3s,
         \/ pc' \in {"idle"} \cup Mounting
         \/ pc \in OnHosts /\ pc' \in OnHosts
         \/ pc \in Starts \cup AfterSecret /\ pc' \notin OnHosts
  PROVE  VolumeFits'
BY PlaceSets DEF VolumeFits, OnHosts, Mounting

\* A step that leaves the authority and the credentials alone.
LEMMA AuthorityRests ==
  ASSUME AuthorityFits, ca' = ca, token' = token, tampered' = tampered,
         memory'.k3s = memory.k3s, disk'.k3s = disk.k3s,
         pc' \in AfterSecret => pc \in AfterSecret, pc' \notin Joining \cup {"agents", "nodes"}
  PROVE  AuthorityFits'
BY DEF AuthorityFits, Joining

\* PrepareHost keeps the invariant.
LEMMA PrepareHostFits ==
  ASSUME PipelineInv, PrepareHost
  PROVE  PipelineInv'
<1>1. /\ pc = "prepare" /\ guest' \in {guest, HostPrepared(Hosts[turn])}
      /\ \/ pc' = "install" /\ turn' = turn /\ guest' = HostPrepared(Hosts[turn])
         \/ pc' = "idle"
      /\ UNCHANGED <<workload, memory, disk, volume, token, service, ca, pinned, objects, network,
                     probe, effect, times, tampered, first, failed, seen>>
  BY DEF PrepareHost, Answered, Lost, Goto, journals, cluster, oneShot
<1>2. JobsFit'
  BY <1>1, PlaceSets DEF PipelineInv, JobsFit, Places, OnHosts
<1>3. WorkloadFits' /\ PathsFit' /\ SupportFits'
  BY <1>1, <1>2, ElsewhereRests DEF K3sJournals, Revisiting, Qualifies, Benchmarking
<1>4. turn \in 1..4 /\ Hosts[turn] \in HostSet
  BY <1>1, HostNames DEF PipelineInv, HostsFit, OnHosts
<1>5. HostsFit'
  BY <1>1, <1>4, GuestsGrow, HostNames
     DEF PipelineInv, HostsFit, Full, HostPrepared, OnHosts, JobsFit, IsJob
<1>6. VolumeFits' /\ AuthorityFits'
  BY <1>1, VolumeRests, AuthorityRests, PlaceSets DEF PipelineInv, OnHosts
<1> QED
  BY <1>2, <1>3, <1>5, <1>6 DEF PipelineInv

\* InstallArtifact keeps the invariant.
LEMMA InstallArtifactFits ==
  ASSUME PipelineInv, InstallArtifact
  PROVE  PipelineInv'
<1>1. /\ pc = "install" /\ guest' \in {guest, ArtifactInstalled(Hosts[turn])}
      /\ \/ pc' = "preflight" /\ turn' = turn /\ guest' = ArtifactInstalled(Hosts[turn])
         \/ pc' = "idle"
      /\ UNCHANGED <<workload, memory, disk, volume, token, service, ca, pinned, objects, network,
                     probe, effect, times, tampered, first, failed, seen>>
  BY DEF InstallArtifact, Answered, Lost, Goto, journals, cluster, oneShot
<1>2. JobsFit'
  BY <1>1, PlaceSets DEF PipelineInv, JobsFit, Places, OnHosts
<1>3. WorkloadFits' /\ PathsFit' /\ SupportFits'
  BY <1>1, <1>2, ElsewhereRests DEF K3sJournals, Revisiting, Qualifies, Benchmarking
<1>4. turn \in 1..4 /\ Hosts[turn] \in HostSet
  BY <1>1, HostNames DEF PipelineInv, HostsFit, OnHosts
<1>5. HostsFit'
  BY <1>1, <1>4, GuestsGrow, HostNames
     DEF PipelineInv, HostsFit, Full, ArtifactInstalled, OnHosts, JobsFit, IsJob
<1>6. VolumeFits' /\ AuthorityFits'
  BY <1>1, VolumeRests, AuthorityRests, PlaceSets DEF PipelineInv, OnHosts
<1> QED
  BY <1>2, <1>3, <1>5, <1>6 DEF PipelineInv

-------------------------------------------------------------------------------
(* The journals of K3s, the file system and the server.                    *)

\* A saved journal counts no host that is not prepared.
LEMMA SavedHosts ==
  ASSUME HostsFit, guest' = guest, NEW j, NEW next, NEW n, K3sSaved(j, next, n),
         \A i \in 1..j.prepared : Full(Hosts[i]),
         \/ next = "prepare" /\ n \in 1..4 /\ \A i \in 1..(n - 1) : Full(Hosts[i])
         \/ next \notin OnHosts /\ \A i \in 1..4 : Full(Hosts[i])
  PROVE  HostsFit'
<1>1. /\ memory'.k3s = j /\ disk' \in {disk, memory'}
      /\ \/ pc' = next /\ turn' = n
         \/ pc' = "idle"
  BY DEF K3sSaved
<1>2. \A job \in {memory', disk'} : \A i \in 1..job.k3s.prepared : Full(Hosts[i])
  BY <1>1 DEF HostsFit
<1> QED
  BY <1>1, <1>2 DEF HostsFit, Full, OnHosts

\* A saved journal tells of the file system that is there.
LEMMA SavedVolume ==
  ASSUME VolumeFits, tampered' = tampered, NEW j, NEW next, NEW n, K3sSaved(j, next, n),
         DOMAIN volume' = DOMAIN volume, volume'.filesystem \in Nat,
         volume.filesystem # 0 => volume'.filesystem = volume.filesystem,
         memory.k3s.volume \in {0, j.volume},
         ~tampered => j.volume \in {0, volume'.filesystem},
         next \in Starts \cup AfterSecret => j.volume = volume'.filesystem /\ j.volume # 0,
         next \in OnHosts => j.volume = 0
  PROVE  VolumeFits'
<1>1. "idle" \notin OnHosts \cup Starts \cup AfterSecret
  BY PlaceSets DEF OnHosts
<1> QED
  BY <1>1 DEF VolumeFits, K3sSaved

\* A saved journal tells of the authority that is there.
LEMMA SavedAuthority ==
  ASSUME AuthorityFits, ca' = ca, token' = token, tampered' = tampered,
         NEW j, NEW next, NEW n, K3sSaved(j, next, n),
         memory.k3s.ca \in {0, j.ca}, ~tampered => j.ca \in {0, ca},
         next \in AfterSecret => j.ca = ca /\ ca # 0,
         \A i \in 1..j.joined : token[Agents[i]] = j.ca,
         next \in Joining =>
           next = "agentToken" /\ n \in 1..3 /\ \A i \in 1..(n - 1) : token[Agents[i]] = ca,
         next \in {"agents", "nodes"} => \A i \in 1..3 : token[Agents[i]] = ca
  PROVE  AuthorityFits'
<1>1. "idle" \notin Joining \cup AfterSecret
  BY PlaceSets
<1>2. /\ memory'.k3s = j /\ disk' \in {disk, memory'} /\ disk.k3s.ca \in {0, memory.k3s.ca}
      /\ (pc' = next /\ turn' = n /\ disk' = memory') \/ (pc' = "idle" /\ disk' = disk)
  BY DEF K3sSaved, AuthorityFits
<1>3. \A h \in AgentSet : token'[h] > 0 => token'[h] = disk'.k3s.ca
  BY <1>2 DEF AuthorityFits
<1>4. \A job \in {memory', disk'} : \A i \in 1..job.k3s.joined : token'[Agents[i]] = job.k3s.ca
  BY <1>2 DEF AuthorityFits
<1>5. ~tampered' => \A job \in {memory', disk'} : job.k3s.ca \in {0, ca'}
  BY <1>2 DEF AuthorityFits
<1> QED
  BY <1>1, <1>2, <1>3, <1>4, <1>5 DEF AuthorityFits, Joining

\* What the journal of K3s holds.
LEMMA K3sFields ==
  \A reached, prepared, joined, authority, filesystem :
    LET j == K3sOf(reached, prepared, joined, authority, filesystem)
    IN  /\ j.state = reached /\ j.prepared = prepared /\ j.joined = joined
        /\ j.ca = authority /\ j.volume = filesystem
BY DEF K3sOf

\* Without a file system on record there is neither an authority nor an agent.
LEMMA VolumesComeFirst ==
  ASSUME NEW job, IsJob(job)
  PROVE  /\ job.k3s.volume = 0 => job.k3s.ca = 0
         /\ job.k3s.ca = 0 => job.k3s.joined = 0
<1>1. job.k3s.state \in K3sStates /\ ValidK3s(job.k3s)
  BY DEF IsJob
<1>2. CASE job.k3s.state = "none"
  BY <1>1, <1>2 DEF ValidK3s, NoK3s
<1>3. CASE job.k3s.state \in {"preparing_hosts", "hosts_prepared", "database_storage_ready"}
  BY <1>1, <1>3 DEF ValidK3s
<1>4. CASE job.k3s.state \in {"server_ready", "joining_agents", "agents_ready", "cluster_ready"}
  BY <1>1, <1>4 DEF ValidK3s
<1> QED
  BY <1>1, <1>2, <1>3, <1>4 DEF K3sStates

\* PreflightHost keeps the invariant.
LEMMA PreflightHostFits ==
  ASSUME PipelineInv, PreflightHost
  PROVE  PipelineInv'
<1> DEFINE next == IF turn < Len(Hosts) THEN turn + 1 ELSE 1
           where == IF turn < Len(Hosts) THEN "prepare" ELSE "hosts"
           j == K3sOf("preparing_hosts", turn, 0, 0, 0)
<1>1. /\ pc = "preflight" /\ UNCHANGED <<workload, remote, first, failed, seen>>
      /\ \/ first /\ SaveK3s("preparing_hosts", turn, 0, 0, 0, where, next)
         \/ UNCHANGED <<memory, disk>> /\ pc' = where /\ turn' = next
         \/ UNCHANGED <<memory, disk>> /\ pc' = "idle"
  BY DEF PreflightHost, Keep, journals, Answered, Lost, Goto, SaveK3s, Save, Refuse
<1>2. UNCHANGED <<guest, volume, token, ca, objects, network, probe, effect, times, tampered>>
  BY <1>1 DEF remote, hosts, cluster, oneShot
<1>3. /\ turn \in 1..4 /\ \A i \in 1..turn : Full(Hosts[i])
      /\ \/ where = "prepare" /\ next = turn + 1 /\ turn < 4
         \/ where = "hosts" /\ turn = 4
      /\ where \in Places
      /\ first => memory.k3s.volume = 0
  BY <1>1, HostNames DEF PipelineInv, HostsFit, VolumeFits, OnHosts, Places, Mounting
<1>4. CASE UNCHANGED <<memory, disk>> /\ ((pc' = where /\ turn' = next) \/ pc' = "idle")
  <2>1. JobsFit'
    BY <1>1, <1>3, <1>4, PlaceSets DEF PipelineInv, JobsFit, Places, Mounting, OnHosts
  <2>2. HostsFit'
    BY <1>2, <1>3, <1>4, HostsRest DEF PipelineInv, OnHosts
  <2>3. VolumeFits' /\ AuthorityFits'
    BY <1>1, <1>2, <1>3, <1>4, VolumeRests, AuthorityRests, PlaceSets
       DEF PipelineInv, OnHosts, Mounting
  <2>4. WorkloadFits' /\ PathsFit' /\ SupportFits'
    BY <1>1, <1>2, <1>3, <1>4, <2>1, ElsewhereRests, PlaceSets
       DEF K3sJournals, Qualifies, OnHosts, Mounting
  <2> QED
    BY <2>1, <2>2, <2>3, <2>4 DEF PipelineInv
<1>5. CASE /\ first /\ SaveK3s("preparing_hosts", turn, 0, 0, 0, where, next)
           /\ K3sSaved(j, where, next)
  <2>1. /\ j.prepared = turn /\ j.joined = 0 /\ j.ca = 0 /\ j.volume = 0
        /\ memory.k3s.volume = 0 /\ memory.k3s.ca = 0
    BY <1>3, <1>5, K3sFields, VolumesComeFirst DEF PipelineInv, JobsFit
  <2> HIDE DEF j, next, where
  <2>2. JobsFit' /\ K3sJournals /\ (pc' = where \/ pc' = "idle")
    BY <1>5 DEF K3sSaved, K3sJournals
  <2>3. HostsFit'
    BY <1>2, <1>3, <1>5, <2>1, SavedHosts DEF PipelineInv, OnHosts
  <2>4. VolumeFits'
    BY <1>2, <1>3, <1>5, <2>1, SavedVolume, PlaceSets DEF PipelineInv, OnHosts, Mounting, VolumeFits
  <2>5. AuthorityFits'
    BY <1>2, <1>3, <1>5, <2>1, SavedAuthority, PlaceSets DEF PipelineInv, OnHosts, Mounting
  <2>6. WorkloadFits' /\ PathsFit' /\ SupportFits'
    BY <1>1, <1>2, <1>3, <2>2, ElsewhereRests, PlaceSets DEF Qualifies, OnHosts, Mounting
  <2> QED
    BY <2>2, <2>3, <2>4, <2>5, <2>6 DEF PipelineInv
<1>6. ASSUME SaveK3s("preparing_hosts", turn, 0, 0, 0, where, next)
      PROVE  (UNCHANGED <<memory, disk>> /\ pc' = "idle") \/ K3sSaved(j, where, next)
  BY <1>3, <1>6, K3sSaves DEF PipelineInv, K3sStates
<1> QED
  BY <1>1, <1>4, <1>5, <1>6

\* A journal of K3s is saved by a step that leaves the hosts and credentials alone.
LEMMA K3sSaveFits ==
  ASSUME PipelineInv, NEW j, NEW next, NEW n, K3sSaved(j, next, n),
         UNCHANGED <<workload, guest, token, ca, objects, network, probe, effect, times, tampered>>,
         DOMAIN volume' = DOMAIN volume, volume'.filesystem \in Nat, volume'.store = volume.store,
         volume.filesystem # 0 => volume'.filesystem = volume.filesystem,
         pc \notin {"idle"} \cup Qualifies, next \notin Revisiting \cup Qualifies \cup Benchmarking,
         \A i \in 1..j.prepared : Full(Hosts[i]),
         \/ next = "prepare" /\ n \in 1..4 /\ \A i \in 1..(n - 1) : Full(Hosts[i])
         \/ next \notin OnHosts /\ \A i \in 1..4 : Full(Hosts[i]),
         memory.k3s.volume \in {0, j.volume}, ~tampered => j.volume \in {0, volume'.filesystem},
         next \in Starts \cup AfterSecret => j.volume = volume'.filesystem /\ j.volume # 0,
         next \in OnHosts => j.volume = 0,
         memory.k3s.ca \in {0, j.ca}, ~tampered => j.ca \in {0, ca},
         next \in AfterSecret => j.ca = ca /\ ca # 0,
         \A i \in 1..j.joined : token[Agents[i]] = j.ca,
         next \in Joining =>
           next = "agentToken" /\ n \in 1..3 /\ \A i \in 1..(n - 1) : token[Agents[i]] = ca,
         next \in {"agents", "nodes"} => \A i \in 1..3 : token[Agents[i]] = ca
  PROVE  PipelineInv'
<1>1. JobsFit' /\ K3sJournals /\ (pc' = next \/ pc' = "idle") /\ seen' = seen
  BY DEF K3sSaved, K3sJournals
<1>2. HostsFit'
  BY SavedHosts DEF PipelineInv
<1>3. VolumeFits'
  BY SavedVolume DEF PipelineInv
<1>4. AuthorityFits'
  BY SavedAuthority DEF PipelineInv
<1>5. WorkloadFits' /\ PathsFit' /\ SupportFits'
  BY <1>1, ElsewhereRests DEF Revisiting, Qualifies, Benchmarking
<1> QED
  BY <1>1, <1>2, <1>3, <1>4, <1>5 DEF PipelineInv

\* A step of K3s that leaves the journals alone and moves on, or refuses.
LEMMA K3sGoes ==
  ASSUME PipelineInv, AuthorityFits', pc \notin {"idle"} \cup Qualifies, pc' \in Places,
         UNCHANGED <<workload, memory, disk, guest, volume, objects, network, probe, effect, times,
                     tampered, first, seen>>,
         \/ pc' = "idle"
         \/ pc \notin OnHosts /\ pc' \in Mounting
         \/ pc \in Starts /\ pc' \in Starts
  PROVE  PipelineInv'
<1>1. pc' \notin AfterSecret \cup OnHosts
  BY PlaceSets
<1>2. JobsFit'
  BY <1>1 DEF PipelineInv, JobsFit
<1>3. HostsFit'
  <2>1. pc' = "idle" \/ (pc' \notin OnHosts /\ \A i \in 1..4 : Full(Hosts[i]))
    BY <1>1, PlaceSets DEF PipelineInv, HostsFit
  <2> QED
    BY <2>1, HostsRest DEF PipelineInv
<1>4. VolumeFits'
  <2>1. pc' \in {"idle"} \cup Mounting \/ (pc \in Starts /\ pc' \notin OnHosts)
    BY <1>1
  <2> QED
    BY <1>1, <2>1, VolumeRests, PlaceSets DEF PipelineInv
<1>5. WorkloadFits' /\ PathsFit' /\ SupportFits'
  BY <1>1, <1>2, ElsewhereRests, PlaceSets DEF K3sJournals
<1> QED
  BY <1>2, <1>3, <1>4, <1>5 DEF PipelineInv

\* A step to another place that changes nothing else.
LEMMA K3sMoves ==
  ASSUME PipelineInv, pc \notin {"idle"} \cup Qualifies, pc' \in Places,
         UNCHANGED <<workload, memory, disk, guest, volume, token, ca, objects, network, probe,
                     effect, times, tampered, first, seen>>,
         \/ pc' = "idle"
         \/ pc \notin OnHosts /\ pc' \in Mounting
         \/ pc \in Starts /\ pc' \in Starts
  PROVE  PipelineInv'
<1>1. pc' \notin AfterSecret
  BY PlaceSets
<1>2. AuthorityFits'
  BY <1>1, AuthorityRests DEF PipelineInv, AfterSecret
<1> QED
  BY <1>2, K3sGoes

\* HostsPrepared keeps the invariant.
LEMMA HostsPreparedFits ==
  ASSUME PipelineInv, HostsPrepared
  PROVE  PipelineInv'
<1> DEFINE j == K3sOf("hosts_prepared", 4, 0, 0, 0)
<1>1. /\ pc = "hosts" /\ Len(Hosts) = 4
      /\ UNCHANGED <<workload, guest, volume, token, ca, objects, network, probe, effect, times,
                     tampered>>
      /\ \/ memory.k3s.volume = 0 /\ SaveK3s("hosts_prepared", 4, 0, 0, 0, "mount", 1)
         \/ UNCHANGED <<memory, disk, first, seen>> /\ pc' = "mount"
  BY HostNames DEF HostsPrepared, Keep, journals, Answered, Goto, remote, hosts, cluster, oneShot
<1>2. /\ \A i \in 1..4 : Full(Hosts[i])
      /\ "mount" \in Places \ (OnHosts \cup Starts \cup AfterSecret)
      /\ pc \notin {"idle"} \cup OnHosts \cup Qualifies
  BY <1>1, PlaceSets DEF PipelineInv, HostsFit, OnHosts, Mounting, Places
<1>3. CASE UNCHANGED <<memory, disk, first, seen>> /\ (pc' = "mount" \/ pc' = "idle")
  BY <1>1, <1>2, <1>3, K3sMoves, PlacesApart DEF Mounting
<1>4. CASE memory.k3s.volume = 0 /\ K3sSaved(j, "mount", 1)
  <2>1. j.prepared = 4 /\ j.joined = 0 /\ j.ca = 0 /\ j.volume = 0 /\ memory.k3s.ca = 0
    BY <1>4, K3sFields, VolumesComeFirst DEF PipelineInv, JobsFit
  <2> HIDE DEF j
  <2> QED
    BY <1>1, <1>2, <1>4, <2>1, K3sSaveFits, PlaceSets DEF PipelineInv, VolumeFits
<1>5. ASSUME SaveK3s("hosts_prepared", 4, 0, 0, 0, "mount", 1)
      PROVE  (UNCHANGED <<memory, disk, first, seen>> /\ pc' = "idle") \/ K3sSaved(j, "mount", 1)
  BY <1>2, <1>5, K3sSaves DEF PipelineInv, K3sStates
<1> QED
  BY <1>1, <1>3, <1>4, <1>5

\* A blank disk gets a file system, and one that is there stays.
LEMMA Mounts ==
  ASSUME VolumeFits, volume' \in {volume, Formatted, Mounted}
  PROVE  /\ DOMAIN volume' = DOMAIN volume /\ volume'.store = volume.store
         /\ volume'.filesystem \in Nat
         /\ volume.filesystem # 0 => volume'.filesystem = volume.filesystem
         /\ volume' = Mounted => volume'.filesystem # 0
         /\ Mounted.filesystem # 0
<1> DEFINE new == Formatted
<1>1. /\ DOMAIN new = {"filesystem", "mounted", "store"} /\ new.store = volume.store
      /\ new.filesystem = IF volume.filesystem = 0 THEN 1 ELSE volume.filesystem
  BY DEF VolumeFits, Formatted
<1>2. Mounted = [new EXCEPT !.mounted = TRUE]
  BY DEF Mounted
<1> HIDE DEF new
<1>3. /\ DOMAIN Mounted = DOMAIN new /\ Mounted.store = new.store
      /\ Mounted.filesystem = new.filesystem
  BY <1>1, <1>2
<1> QED
  BY <1>1, <1>3 DEF VolumeFits, new

\* MountVolume keeps the invariant.
LEMMA MountVolumeFits ==
  ASSUME PipelineInv, MountVolume
  PROVE  PipelineInv'
<1> DEFINE found == Mounted
           j == K3sOf("database_storage_ready", 4, 0, 0, found.filesystem)
           saving == SaveK3s("database_storage_ready", 4, 0, 0, found.filesystem, "tokens", 1)
<1>1. /\ pc = "mount" /\ volume' \in {volume, Formatted, Mounted}
      /\ UNCHANGED <<workload, guest, token, ca, objects, network, probe, effect, times, tampered>>
      /\ \/ UNCHANGED <<memory, disk, first, seen>> /\ pc' = "idle"
         \/ /\ volume' = found /\ SameVolume(found) /\ memory.k3s.ca # 0
            /\ UNCHANGED <<memory, disk, first, seen>> /\ pc' = "tokens"
         \/ volume' = found /\ SameVolume(found) /\ memory.k3s.ca = 0 /\ saving
  BY HostNames DEF MountVolume, Keep, journals, Refuse, Lost, Answered, Goto, cluster, oneShot
<1>2. /\ DOMAIN volume' = DOMAIN volume /\ volume'.store = volume.store
      /\ volume'.filesystem \in Nat
      /\ volume.filesystem # 0 => volume'.filesystem = volume.filesystem
      /\ found.filesystem # 0 /\ (volume' = found => found.filesystem \in Nat)
  BY <1>1, Mounts DEF PipelineInv
<1>3. /\ \A i \in 1..4 : Full(Hosts[i])
      /\ "tokens" \in Starts \cap Places /\ "tokens" \notin {"idle"} \cup OnHosts \cup AfterSecret
      /\ pc \notin {"idle"} \cup OnHosts \cup Qualifies \cup AfterSecret
  BY <1>1, PlaceSets DEF PipelineInv, HostsFit, Starts, Mounting, Places
<1> HIDE DEF found
<1>4. CASE /\ UNCHANGED <<memory, disk, first, seen>>
           /\ \/ pc' = "idle"
              \/ pc' = "tokens" /\ volume' = found /\ SameVolume(found) /\ memory.k3s.ca # 0
  <2>1. JobsFit'
    BY <1>3, <1>4, PlacesApart DEF PipelineInv, JobsFit
  <2>2. HostsFit'
    BY <1>1, <1>3, <1>4, HostsRest DEF PipelineInv
  <2>3. VolumeFits'
    <3>1. pc' = "tokens" => memory.k3s.volume = volume'.filesystem
      BY <1>4, VolumesComeFirst DEF SameVolume, PipelineInv, JobsFit
    <3>2. "idle" \notin Starts \cup AfterSecret \cup OnHosts
      BY PlaceSets
    <3>3. /\ ~tampered => \A job \in {memory', disk'} : job.k3s.volume \in {0, volume'.filesystem}
          /\ disk'.k3s.volume \in {0, memory'.k3s.volume}
      BY <1>2, <1>4 DEF PipelineInv, VolumeFits
    <3> QED
      BY <1>1, <1>2, <1>3, <1>4, <3>1, <3>2, <3>3 DEF PipelineInv, VolumeFits
  <2>4. AuthorityFits'
    BY <1>1, <1>3, <1>4, AuthorityRests, PlaceSets DEF PipelineInv, AfterSecret
  <2>5. WorkloadFits' /\ PathsFit' /\ SupportFits'
    BY <1>1, <1>2, <1>3, <1>4, <2>1, ElsewhereRests, PlaceSets DEF K3sJournals
  <2> QED
    BY <2>1, <2>2, <2>3, <2>4, <2>5 DEF PipelineInv
<1>5. CASE /\ volume' = found /\ SameVolume(found) /\ memory.k3s.ca = 0
           /\ K3sSaved(j, "tokens", 1)
  <2>1. j.prepared = 4 /\ j.joined = 0 /\ j.ca = 0 /\ j.volume = found.filesystem
    BY K3sFields
  <2>2. memory.k3s.volume \in {0, j.volume}
    BY <1>5, <2>1 DEF SameVolume
  <2> HIDE DEF j
  <2> QED
    BY <1>1, <1>2, <1>3, <1>5, <2>1, <2>2, K3sSaveFits, PlaceSets
<1>6. ASSUME saving, volume' = found
      PROVE  (UNCHANGED <<memory, disk, first, seen>> /\ pc' = "idle") \/ K3sSaved(j, "tokens", 1)
  BY <1>2, <1>3, <1>6, K3sSaves DEF PipelineInv, K3sStates
<1> QED
  BY <1>1, <1>4, <1>5, <1>6

\* InitializeTokens keeps the invariant.
LEMMA InitializeTokensFits ==
  ASSUME PipelineInv, InitializeTokens
  PROVE  PipelineInv'
<1>1. /\ pc = "tokens" /\ (pc' = "server" \/ pc' = "idle")
      /\ UNCHANGED <<workload, memory, disk, guest, volume, ca, objects, network, probe, effect,
                     times, tampered, first, seen>>
      /\ \E v \in {1, Partial} : token' \in {token, [token EXCEPT !["control"] = v]}
  BY DEF InitializeTokens, GivenTo, Answered, Refuse, Lost, Goto, journals, cluster, oneShot
<1>2. /\ token' \in [HostSet -> Int] /\ \A h \in AgentSet : token'[h] = token[h]
      /\ \A i \in 1..3 : token'[Agents[i]] = token[Agents[i]]
  BY <1>1, HostNames DEF PipelineInv, AuthorityFits, Partial
<1>3. /\ {"server", "idle"} \subseteq Places \ (AfterSecret \cup OnHosts)
      /\ pc \in Starts /\ "server" \in Starts /\ pc \notin {"idle"} \cup Qualifies
  BY <1>1, PlaceSets, PlacesApart DEF Places, Starts
<1>4. AuthorityFits'
  <2>1. \A job \in {memory, disk} : \A i \in 1..job.k3s.joined : i \in 1..3
    BY DEF PipelineInv, JobsFit, IsJob
  <2>2. \A job \in {memory', disk'} : \A i \in 1..job.k3s.joined : token'[Agents[i]] = job.k3s.ca
    BY <1>1, <1>2, <2>1 DEF PipelineInv, AuthorityFits
  <2>3. pc' \notin Joining \cup {"agents", "nodes"}
    BY <1>1, <1>3 DEF AfterSecret
  <2> QED
    BY <1>1, <1>2, <1>3, <2>2, <2>3 DEF PipelineInv, AuthorityFits, Joining
<1> QED
  BY <1>1, <1>3, <1>4, K3sGoes

\* StartServer keeps the invariant.
LEMMA StartServerFits ==
  ASSUME PipelineInv, StartServer
  PROVE  PipelineInv'
<1>1. /\ pc = "server" /\ (pc' = "readyz" \/ pc' = "idle")
      /\ UNCHANGED <<workload, memory, disk, guest, volume, token, objects, network, probe, effect,
                     times, tampered, first, seen>>
      /\ ca' = ca \/ (ca = 0 /\ ca' = 1)
  BY DEF StartServer, Answered, Lost, Goto, journals, cluster, oneShot
<1>2. /\ {"readyz", "idle"} \subseteq Places \ (AfterSecret \cup OnHosts)
      /\ pc \in Starts /\ "readyz" \in Starts /\ pc \notin {"idle"} \cup Qualifies
  BY <1>1, PlaceSets, PlacesApart DEF Places, Starts
<1>3. AuthorityFits'
  <2>1. pc' \notin AfterSecret \cup Joining \cup {"agents", "nodes"}
    BY <1>1, <1>2 DEF AfterSecret
  <2>2. ~tampered' => \A job \in {memory', disk'} : job.k3s.ca \in {0, ca'}
    BY <1>1 DEF PipelineInv, AuthorityFits
  <2> QED
    BY <1>1, <2>1, <2>2 DEF PipelineInv, AuthorityFits, Joining
<1> QED
  BY <1>1, <1>2, <1>3, K3sGoes

\* ServerReadiness keeps the invariant.
LEMMA ServerReadinessFits ==
  ASSUME PipelineInv, ServerReadiness \/ PinSystemServices
  PROVE  PipelineInv'
<1>1. /\ pc \in {"readyz", "pin"} /\ pc' \in {"pin", "secret", "idle"}
      /\ UNCHANGED <<workload, memory, disk, guest, volume, token, ca, objects, network, probe,
                     effect, times, tampered, first, seen>>
  BY DEF ServerReadiness, PinSystemServices, Answered, Refuse, Lost, Goto, journals, remote, hosts,
         cluster, oneShot
<1>2. /\ {"pin", "secret", "idle"} \subseteq Places /\ {"pin", "secret"} \subseteq Starts
      /\ pc \in Starts /\ pc \notin {"idle"} \cup Qualifies
  BY <1>1, PlaceSets, PlacesApart DEF Places, Starts
<1> QED
  BY <1>1, <1>2, K3sMoves

\* ReadAgentToken keeps the invariant.
LEMMA ReadAgentTokenFits ==
  ASSUME PipelineInv, ReadAgentToken
  PROVE  PipelineInv'
<1> DEFINE j == K3sOf("server_ready", 4, 0, ca, volume.filesystem)
           saving == SaveK3s("server_ready", 4, 0, ca, volume.filesystem, "joining", 1)
<1>1. /\ pc = "secret"
      /\ UNCHANGED <<workload, guest, volume, token, ca, objects, network, probe, effect, times,
                     tampered>>
      /\ \/ memory.k3s.ca \in {0, ca} /\ saving
         \/ UNCHANGED <<memory, disk, first, seen>> /\ pc' = "idle"
  BY HostNames DEF ReadAgentToken, Keep, journals, Refuse, Lost, Goto, remote, hosts, cluster,
                   oneShot
<1>2. /\ \A i \in 1..4 : Full(Hosts[i])
      /\ "joining" \in Places \cap AfterSecret
      /\ "joining" \notin {"idle"} \cup OnHosts \cup Joining \cup Revisiting \cup Qualifies
                            \cup Benchmarking
      /\ pc \in Starts /\ pc \notin {"idle"} \cup OnHosts \cup Qualifies
      /\ ca \in Nat /\ volume.filesystem \in Nat
  BY <1>1, PlaceSets
     DEF PipelineInv, HostsFit, VolumeFits, AuthorityFits, Starts, Places, AfterSecret, Joining,
         Revisiting, Qualifies, Benchmarking, OnHosts
<1>3. CASE UNCHANGED <<memory, disk, first, seen>> /\ pc' = "idle"
  BY <1>1, <1>2, <1>3, K3sMoves, PlacesApart
<1>4. CASE memory.k3s.ca \in {0, ca} /\ K3sSaved(j, "joining", 1)
  <2>1. /\ j.state = "server_ready" /\ j.prepared = 4 /\ j.joined = 0 /\ j.ca = ca
        /\ j.volume = volume.filesystem
    BY K3sFields
  <2>2. j.ca # 0 /\ j.volume # 0 /\ memory.k3s.volume = volume.filesystem
    BY <1>2, <1>4, <2>1 DEF K3sSaved, ValidK3s, PipelineInv, VolumeFits
  <2> HIDE DEF j
  <2> QED
    BY <1>1, <1>2, <1>4, <2>1, <2>2, K3sSaveFits
<1>5. ASSUME saving
      PROVE  (UNCHANGED <<memory, disk, first, seen>> /\ pc' = "idle") \/ K3sSaved(j, "joining", 1)
  BY <1>2, <1>5, K3sSaves DEF PipelineInv, K3sStates
<1> QED
  BY <1>1, <1>3, <1>4, <1>5

-------------------------------------------------------------------------------
(* The agents join.                                                        *)

\* A journal that is saved while the agents join tells of the authority of the attempt.
LEMMA JoiningSaveFits ==
  ASSUME PipelineInv, pc \in AfterSecret \ Qualifies,
         UNCHANGED <<workload, guest, volume, token, ca, objects, network, probe, effect, times,
                     tampered>>,
         NEW reached \in {"joining_agents", "agents_ready", "cluster_ready"}, NEW joined \in 0..3,
         NEW next \in AfterSecret \ (Revisiting \cup Qualifies \cup Benchmarking), NEW n,
         SaveK3s(reached, 4, joined, ca, volume.filesystem, next, n),
         \A i \in 1..joined : token[Agents[i]] = ca,
         next \in Joining =>
           next = "agentToken" /\ n \in 1..3 /\ \A i \in 1..(n - 1) : token[Agents[i]] = ca,
         next \in {"agents", "nodes"} => \A i \in 1..3 : token[Agents[i]] = ca
  PROVE  PipelineInv'
<1> DEFINE j == K3sOf(reached, 4, joined, ca, volume.filesystem)
<1>1. /\ \A i \in 1..4 : Full(Hosts[i])
      /\ pc \notin {"idle"} \cup OnHosts \cup Qualifies /\ next \notin OnHosts \cup {"idle"}
      /\ ca \in Nat /\ ca # 0 /\ memory.k3s.ca = ca /\ volume.filesystem \in Nat
      /\ volume.filesystem # 0 /\ memory.k3s.volume = volume.filesystem /\ next \in Places
  BY PlaceSets DEF PipelineInv, HostsFit, VolumeFits, AuthorityFits, Places
<1>2. CASE UNCHANGED <<memory, disk, first, seen>> /\ pc' = "idle"
  BY <1>1, <1>2, K3sMoves, PlacesApart
<1>3. CASE K3sSaved(j, next, n)
  <2>1. /\ j.prepared = 4 /\ j.joined = joined /\ j.ca = ca /\ j.volume = volume.filesystem
    BY K3sFields
  <2> HIDE DEF j
  <2> QED
    BY <1>1, <1>3, <2>1, K3sSaveFits
<1>4. (UNCHANGED <<memory, disk, first, seen>> /\ pc' = "idle") \/ K3sSaved(j, next, n)
  <2>1. JobsFit /\ reached \in K3sStates /\ 4 \in 0..4
    BY DEF PipelineInv, K3sStates
  <2> QED
    BY <1>1, <2>1, K3sSaves
<1> QED
  BY <1>2, <1>3, <1>4

\* The places of the agents lie behind the secret.
LEMMA JoiningPlaces ==
  /\ {"joining", "agents", "nodes", "workload", "agentToken", "join", "agentReady"} \subseteq
       AfterSecret \ (Revisiting \cup Qualifies \cup Benchmarking)
  /\ Joining = {"agentToken", "join", "agentReady"}
  /\ AfterSecret \subseteq Places
BY DEF AfterSecret, Joining, Revisiting, Qualifies, Benchmarking, Places

\* BeginJoining keeps the invariant.
LEMMA BeginJoiningFits ==
  ASSUME PipelineInv, BeginJoining
  PROVE  PipelineInv'
<1>1. /\ pc = "joining" /\ SaveK3s("joining_agents", 4, 0, ca, volume.filesystem, "agentToken", 1)
      /\ UNCHANGED <<workload, guest, volume, token, ca, objects, network, probe, effect, times,
                     tampered>>
  BY HostNames DEF BeginJoining, remote, hosts, cluster, oneShot
<1> QED
  BY <1>1, JoiningSaveFits, JoiningPlaces

\* InstallAgentToken keeps the invariant.
LEMMA InstallAgentTokenFits ==
  ASSUME PipelineInv, InstallAgentToken
  PROVE  PipelineInv'
<1> DEFINE h == Agents[turn]
<1>1. /\ pc = "agentToken"
      /\ \/ pc' = "join" /\ turn' = turn /\ GivenTo(h, ca)
         \/ pc' = "idle"
      /\ \/ token' = token
         \/ \E v \in {ca, Partial} : token[h] = Absent /\ token' = [token EXCEPT ![h] = v]
      /\ UNCHANGED <<workload, memory, disk, guest, volume, ca, objects, network, probe, effect,
                     times, tampered, first, seen>>
  BY DEF InstallAgentToken, GivenTo, Answered, Refuse, Lost, Goto, journals, cluster, oneShot
<1>2. /\ turn \in 1..3 /\ h \in AgentSet /\ h \in HostSet /\ disk = memory /\ ca \in Nat /\ ca # 0
      /\ memory.k3s.ca = ca /\ token \in [HostSet -> Int]
      /\ pc \in AfterSecret \ ({"idle"} \cup Qualifies \cup OnHosts \cup Starts)
  BY <1>1, HostNames, JoiningPlaces, PlaceSets DEF PipelineInv, AuthorityFits, JobsFit
<1> HIDE DEF h
<1>3. /\ pc' = "join" => token'[h] = ca
      /\ \A g \in HostSet : token'[g] # token[g] => token[g] = Absent /\ token'[g] \in {ca, Partial}
  BY <1>1, <1>2 DEF GivenTo, Absent, Partial
<1>4. token' \in [HostSet -> Int]
  BY <1>1, <1>2 DEF Partial
<1>5. AuthorityFits'
  <2>1. /\ \A job \in {memory, disk} : \A i \in 1..job.k3s.joined : i \in 1..3
        /\ \A i \in 1..3 : Agents[i] \in HostSet
    BY HostNames DEF PipelineInv, JobsFit, IsJob
  <2>2. \A g \in HostSet : token[g] = ca => token'[g] = ca
    BY <1>2, <1>3 DEF Absent
  <2>3. \A job \in {memory', disk'} : \A i \in 1..job.k3s.joined : token'[Agents[i]] = job.k3s.ca
    BY <1>1, <1>2, <2>1, <2>2 DEF PipelineInv, AuthorityFits
  <2>4. \A g \in AgentSet : token'[g] > 0 => token'[g] = disk'.k3s.ca
    BY <1>1, <1>2, <1>3, HostNames DEF PipelineInv, AuthorityFits, Partial
  <2>5. pc' = "join" => turn' \in 1..3 /\ \A i \in 1..(turn' - 1) : token'[Agents[i]] = ca
    BY <1>1, <1>2, <2>1, <2>2, JoiningPlaces DEF PipelineInv, AuthorityFits
  <2>6. pc' = "join" => token'[Agents[turn']] = ca'
    BY <1>1, <1>3 DEF h
  <2>7. (pc' = "join" \/ pc' = "idle") /\ "idle" \notin Joining \cup AfterSecret
    BY <1>1, PlaceSets
  <2> QED
    BY <1>1, <1>2, <1>4, <2>3, <2>4, <2>5, <2>6, <2>7, JoiningPlaces DEF PipelineInv, AuthorityFits
<1>6. CASE pc' = "idle"
  BY <1>1, <1>2, <1>5, <1>6, K3sGoes, PlacesApart
<1>7. CASE pc' = "join"
  <2>1. JobsFit'
    BY <1>1, <1>2, <1>7, JoiningPlaces DEF PipelineInv, JobsFit
  <2>2. HostsFit'
    BY <1>1, <1>2, <1>7, HostsRest, PlaceSets, JoiningPlaces DEF PipelineInv, HostsFit
  <2>3. VolumeFits'
    BY <1>1, <1>2, <1>7, VolumeRests, PlaceSets, JoiningPlaces DEF PipelineInv
  <2>4. WorkloadFits' /\ PathsFit' /\ SupportFits'
    BY <1>1, <1>2, <1>7, <2>1, ElsewhereRests, JoiningPlaces DEF K3sJournals
  <2> QED
    BY <1>5, <2>1, <2>2, <2>3, <2>4 DEF PipelineInv
<1> QED
  BY <1>1, <1>6, <1>7

\* JoinAgent keeps the invariant.
LEMMA JoinAgentFits ==
  ASSUME PipelineInv, JoinAgent
  PROVE  PipelineInv'
<1>1. /\ pc = "join" /\ ((pc' = "agentReady" /\ turn' = turn) \/ pc' = "idle")
      /\ UNCHANGED <<workload, memory, disk, guest, volume, token, ca, objects, network, probe,
                     effect, times, tampered, first, seen>>
  BY DEF JoinAgent, Answered, Lost, Goto, journals, cluster, oneShot
<1>2. /\ pc \in AfterSecret \ ({"idle"} \cup Qualifies \cup OnHosts \cup Starts)
      /\ "idle" \notin Joining \cup AfterSecret
  BY <1>1, JoiningPlaces, PlaceSets
<1>3. CASE pc' = "idle"
  BY <1>1, <1>2, <1>3, K3sMoves, PlacesApart
<1>4. CASE pc' = "agentReady" /\ turn' = turn
  <2>1. JobsFit'
    BY <1>1, <1>2, <1>4, JoiningPlaces DEF PipelineInv, JobsFit
  <2>2. HostsFit'
    BY <1>1, <1>2, <1>4, HostsRest, PlaceSets, JoiningPlaces DEF PipelineInv, HostsFit
  <2>3. VolumeFits'
    BY <1>1, <1>2, <1>4, VolumeRests, PlaceSets, JoiningPlaces DEF PipelineInv
  <2>4. AuthorityFits'
    BY <1>1, <1>2, <1>4, JoiningPlaces DEF PipelineInv, AuthorityFits
  <2>5. WorkloadFits' /\ PathsFit' /\ SupportFits'
    BY <1>1, <1>2, <1>4, <2>1, ElsewhereRests, JoiningPlaces DEF K3sJournals
  <2> QED
    BY <2>1, <2>2, <2>3, <2>4, <2>5 DEF PipelineInv
<1> QED
  BY <1>1, <1>3, <1>4

\* AgentReadiness keeps the invariant.
LEMMA AgentReadinessFits ==
  ASSUME PipelineInv, AgentReadiness
  PROVE  PipelineInv'
<1> DEFINE next == IF turn < 3 THEN turn + 1 ELSE 1
           where == IF turn < 3 THEN "agentToken" ELSE "agents"
<1>1. /\ pc = "agentReady"
      /\ \/ SaveK3s("joining_agents", 4, turn, ca, volume.filesystem, where, next)
         \/ UNCHANGED <<memory, disk, first, seen>> /\ pc' = "idle"
      /\ UNCHANGED <<workload, guest, volume, token, ca, objects, network, probe, effect, times,
                     tampered>>
  BY HostNames DEF AgentReadiness, Keep, Refuse, Lost, Goto, journals, remote, hosts, cluster,
                   oneShot
<1>2. /\ pc \in AfterSecret \ Qualifies /\ pc \notin {"idle"} \cup Qualifies
      /\ turn \in 1..3 /\ \A i \in 1..turn : token[Agents[i]] = ca
      /\ where \in AfterSecret \ (Revisiting \cup Qualifies \cup Benchmarking)
      /\ where = "agentToken" => next = turn + 1 /\ turn < 3
      /\ where = "agents" => turn = 3
      /\ where = "agentToken" \/ where = "agents"
  BY <1>1, JoiningPlaces, PlaceSets DEF PipelineInv, AuthorityFits
<1> HIDE DEF next, where
<1>3. CASE UNCHANGED <<memory, disk, first, seen>> /\ pc' = "idle"
  BY <1>1, <1>2, <1>3, K3sMoves, PlacesApart
<1>4. CASE SaveK3s("joining_agents", 4, turn, ca, volume.filesystem, where, next)
  <2>1. /\ where \in Joining =>
             where = "agentToken" /\ next \in 1..3 /\ \A i \in 1..(next - 1) : token[Agents[i]] = ca
        /\ where \in {"agents", "nodes"} => \A i \in 1..3 : token[Agents[i]] = ca
    BY <1>2, JoiningPlaces
  <2>2. turn \in 0..3 /\ \A i \in 1..turn : token[Agents[i]] = ca
    BY <1>2
  <2> QED
    BY <1>1, <1>2, <1>4, <2>1, <2>2, JoiningSaveFits
<1> QED
  BY <1>1, <1>3, <1>4

\* AgentsReady keeps the invariant.
LEMMA AgentsReadyFits ==
  ASSUME PipelineInv, AgentsReady \/ AttestCluster
  PROVE  PipelineInv'
<1>1. /\ pc \in {"agents", "nodes"}
      /\ \/ SaveK3s("agents_ready", 4, 3, ca, volume.filesystem, "nodes", 1)
         \/ SaveK3s("cluster_ready", 4, 3, ca, volume.filesystem, "workload", 1)
         \/ UNCHANGED <<memory, disk, first, seen>> /\ pc' = "idle"
      /\ UNCHANGED <<workload, guest, volume, token, ca, objects, network, probe, effect, times,
                     tampered>>
  BY HostNames DEF AgentsReady, AttestCluster, Keep, Refuse, Lost, Goto, journals, remote, hosts,
                   cluster, oneShot
<1>2. /\ pc \in AfterSecret \ Qualifies /\ pc \notin {"idle"} \cup Qualifies
      /\ \A i \in 1..3 : token[Agents[i]] = ca
  BY <1>1, JoiningPlaces, PlaceSets DEF PipelineInv, AuthorityFits
<1>3. CASE UNCHANGED <<memory, disk, first, seen>> /\ pc' = "idle"
  BY <1>1, <1>2, <1>3, K3sMoves, PlacesApart
<1>4. CASE SaveK3s("agents_ready", 4, 3, ca, volume.filesystem, "nodes", 1)
  BY <1>1, <1>2, <1>4, JoiningSaveFits, JoiningPlaces
<1>5. CASE SaveK3s("cluster_ready", 4, 3, ca, volume.filesystem, "workload", 1)
  BY <1>1, <1>2, <1>5, JoiningSaveFits, JoiningPlaces
<1> QED
  BY <1>1, <1>3, <1>4, <1>5

-------------------------------------------------------------------------------
(* Beginnings, deaths and what others do.                                  *)

\* Each part of the invariant holds as long as what it speaks of stays.
LEMMA HostsSame ==
  ASSUME HostsFit, UNCHANGED <<memory, disk, pc, turn, guest>>
  PROVE  HostsFit'
BY DEF HostsFit, Full

LEMMA VolumeSame ==
  ASSUME VolumeFits, UNCHANGED <<memory, disk, pc, first, volume, tampered>>
  PROVE  VolumeFits'
BY DEF VolumeFits

LEMMA AuthoritySame ==
  ASSUME AuthorityFits, UNCHANGED <<memory, disk, pc, turn, ca, token, tampered>>
  PROVE  AuthorityFits'
BY DEF AuthorityFits

LEMMA WorkloadSame ==
  ASSUME WorkloadFits, UNCHANGED <<memory, disk, pc, turn, objects, volume, tampered>>
  PROVE  WorkloadFits'
BY DEF WorkloadFits

LEMMA PathsSame ==
  ASSUME PathsFit, UNCHANGED <<memory, disk, pc, turn, failed, seen, objects, network, probe>>
  PROVE  PathsFit'
BY DEF PathsFit, Denied

\* A Pod that somebody else makes is not ours.
LEMMA NoneOfOurs ==
  ASSUME PathsFit, UNCHANGED <<memory, disk, pc, turn, failed, seen, objects, network>>,
         probe' \in [{"control", "deny"} -> {"none", "ours", "foreign"}],
         probe'["control"] = "ours" => probe["control"] = "ours",
         probe'["deny"] = "ours" => probe["deny"] = "ours"
  PROVE  PathsFit'
BY DEF PathsFit, Denied

\* A path that fails makes no evidence, and one that returns is a glitch.
LEMMA PathChanges ==
  ASSUME PathsFit, UNCHANGED <<memory, disk, pc, turn, failed, seen, objects, probe>>,
         DOMAIN network' = DOMAIN network, network'.enforced = network.enforced,
         network.glitch => network'.glitch,
         seen.denied # "none" /\ ~Denied /\ ~network'.glitch => ~network'.path
  PROVE  PathsFit'
<1>1. Denied' = Denied
  BY DEF Denied
<1> HIDE DEF Denied
<1> QED
  BY <1>1 DEF PathsFit

LEMMA SupportSame ==
  ASSUME SupportFits, UNCHANGED <<workload, memory, disk, pc, turn, effect, times>>
  PROVE  SupportFits'
BY DEF SupportFits, DoneBefore, NotSentFrom, Done, NotSent

\* Between the attempts others may replace what was recorded, and the invariant allows for it.
LEMMA TamperFits ==
  ASSUME PipelineInv, Tamper
  PROVE  PipelineInv'
<1>1. /\ pc = "idle" /\ pc' = "idle" /\ tampered' = TRUE
      /\ UNCHANGED <<workload, turn, first, failed, seen, memory, disk, guest, token, objects,
                     network, probe, effect, times>>
  BY DEF Tamper, attempt, journals, cluster, oneShot
<1>0. ca' \in Nat /\ DOMAIN volume' = DOMAIN volume /\ volume'.filesystem \in Nat
  <2>1. /\ DOMAIN volume = {"filesystem", "mounted", "store"}
        /\ volume.filesystem \in Nat /\ ca \in Nat
    BY DEF PipelineInv, VolumeFits, AuthorityFits
  <2>2. \/ /\ volume' = [volume EXCEPT !.filesystem = volume.filesystem + 1, !.store = "none"]
           /\ ca' = ca
        \/ ca' = ca + 1 /\ volume' = volume
    BY DEF Tamper
  <2>3. CASE volume' = volume
    BY <2>1, <2>2, <2>3
  <2>4. CASE volume' = [volume EXCEPT !.filesystem = volume.filesystem + 1, !.store = "none"]
    <3>1. DOMAIN volume' = DOMAIN volume /\ volume'.filesystem = volume.filesystem + 1
      BY <2>1, <2>4
    <3> QED
      BY <2>1, <2>2, <3>1
  <2> QED
    BY <2>2, <2>3, <2>4
<1>2. "idle" \notin OnHosts \cup Starts \cup AfterSecret \cup Joining \cup Revisiting
  BY PlaceSets
<1>3. JobsFit' /\ HostsFit'
  BY <1>1, HostsSame DEF PipelineInv, JobsFit
<1>4. VolumeFits' /\ AuthorityFits'
  BY <1>0, <1>1, <1>2 DEF PipelineInv, VolumeFits, AuthorityFits
<1>5. WorkloadFits'
  BY <1>1, <1>2 DEF PipelineInv, WorkloadFits
<1>6. PathsFit' /\ SupportFits'
  BY <1>1, PathsSame, SupportSame DEF PipelineInv
<1> QED
  BY <1>3, <1>4, <1>5, <1>6 DEF PipelineInv

\* Nor do the services, the Pods and the network disturb the invariant.
LEMMA OthersFit ==
  ASSUME PipelineInv, Others
  PROVE  PipelineInv'
<1>1. CASE ServiceStops \/ PodFails \/ PodsStart
  <2>1. UNCHANGED <<workload, pc, turn, first, failed, seen, memory, disk, guest, volume, token,
                    ca, objects, network, probe, effect, times, tampered>>
    BY <1>1 DEF ServiceStops, PodFails, PodsStart, attempt, journals, hosts, cluster, oneShot
  <2> QED
    BY <2>1, HostsSame, VolumeSame, AuthoritySame, WorkloadSame, PathsSame, SupportSame
       DEF PipelineInv, JobsFit
<1>2. CASE ForeignPod \/ PathFails \/ PathReturns
  <2>1. UNCHANGED <<workload, pc, turn, first, failed, seen, memory, disk, guest, volume, token,
                    ca, objects, effect, times, tampered>>
    BY <1>2 DEF ForeignPod, PathFails, PathReturns, attempt, journals, hosts, cluster, oneShot
  <2>2. PathsFit'
    <3>1. CASE ForeignPod
      <4>1. network' = network /\ \E n \in DOMAIN probe : probe' = [probe EXCEPT ![n] = "foreign"]
        BY <3>1 DEF ForeignPod
      <4>2. /\ probe' \in [{"control", "deny"} -> {"none", "ours", "foreign"}]
            /\ probe'["control"] = "ours" => probe["control"] = "ours"
            /\ probe'["deny"] = "ours" => probe["deny"] = "ours"
        BY <4>1 DEF PipelineInv, PathsFit
      <4> QED
        BY <2>1, <4>1, <4>2, NoneOfOurs DEF PipelineInv
    <3>2. CASE PathFails
      <4>1. /\ DOMAIN network' = DOMAIN network /\ network'.enforced = network.enforced
            /\ network'.glitch = network.glitch /\ ~network'.path /\ probe' = probe
        BY <3>2 DEF PathFails, PipelineInv, PathsFit
      <4> QED
        BY <2>1, <4>1, PathChanges DEF PipelineInv
    <3>3. CASE PathReturns
      <4>1. /\ DOMAIN network' = DOMAIN network /\ network'.enforced = network.enforced
            /\ network'.glitch = (network.glitch \/ (seen.before /\ ~seen.after)) /\ probe' = probe
        BY <3>3 DEF PathReturns, PipelineInv, PathsFit
      <4>2. seen.denied # "none" /\ ~Denied /\ ~network'.glitch => FALSE
        BY <4>1 DEF PipelineInv, PathsFit
      <4> QED
        BY <2>1, <4>1, <4>2, PathChanges DEF PipelineInv
    <3> QED
      BY <1>2, <3>1, <3>2, <3>3
  <2> QED
    BY <2>1, <2>2, HostsSame, VolumeSame, AuthoritySame, WorkloadSame, SupportSame
       DEF PipelineInv, JobsFit
<1>3. CASE EffectEnds
  <2>1. UNCHANGED <<workload, pc, turn, first, failed, seen, memory, disk, guest, volume, token,
                    ca, objects, network, probe, times, tampered>>
    BY <1>3 DEF EffectEnds, attempt, journals, hosts, cluster, oneShot
  <2>2. SupportFits'
    <3>1. PICK s \in OneShotStep, end \in {"finished", "dead"} :
            effect[s] = "running" /\ effect' = [effect EXCEPT ![s] = end]
      BY <1>3 DEF EffectEnds
    <3>2. /\ effect' \in [OneShotStep -> {"none", "running", "finished", "dead"}]
          /\ effect'[s] = end /\ \A r \in OneShotStep : r # s => effect'[r] = effect[r]
      BY <3>1 DEF PipelineInv, SupportFits
    <3>3. /\ \A r \in OneShotStep : Done(r) => Done(r)'
          /\ \A r \in OneShotStep : NotSent(r) => NotSent(r)'
      BY <2>1, <3>1, <3>2 DEF Done, NotSent
    <3>4. /\ \A n \in {7, turn} : DoneBefore(n) => DoneBefore(n)'
          /\ \A n \in {turn, turn + 1} : NotSentFrom(n) => NotSentFrom(n)'
      BY <2>1, <3>3 DEF DoneBefore, NotSentFrom
    <3>5. "check" \in OneShotStep /\ "measure" \in OneShotStep
      BY DEF OneShotStep
    <3>6. \A r \in OneShotStep :
            IF times'[r] = 0 THEN effect'[r] = "none"
            ELSE StepPlace(workload', r) <= StagePlace(workload', disk'.stage)
      BY <2>1, <3>1, <3>2 DEF PipelineInv, SupportFits, StepPlace, StagePlace
    <3> QED
      BY <2>1, <3>2, <3>3, <3>4, <3>5, <3>6 DEF PipelineInv, SupportFits, Benchmarking
  <2> QED
    BY <2>1, <2>2, HostsSame, VolumeSame, AuthoritySame, WorkloadSame, PathsSame
       DEF PipelineInv, JobsFit
<1> QED
  BY <1>1, <1>2, <1>3, TamperFits DEF Others

\* After a restart the job in memory is the one on disk.
LEMMA RestartFits ==
  ASSUME PipelineInv, Restart
  PROVE  PipelineInv'
<1>1. /\ memory' = disk /\ disk' = disk /\ pc' = "idle"
      /\ UNCHANGED <<workload, first, failed, seen, guest, volume, token, ca, objects, network,
                     probe, effect, times, tampered>>
  BY DEF Restart, Goto, remote, hosts, cluster, oneShot
<1>2. pc' \notin OnHosts \cup Starts \cup AfterSecret \cup Joining \cup Revisiting \cup Qualifies
               \cup Benchmarking
  BY <1>1, PlaceSets
<1>3. JobsFit'
  BY <1>1, <1>2, PlacesApart DEF PipelineInv, JobsFit
<1>4. HostsFit'
  BY <1>1, <1>2 DEF PipelineInv, HostsFit, Full, OnHosts
<1>5. VolumeFits' /\ AuthorityFits'
  BY <1>1, <1>2 DEF PipelineInv, VolumeFits, AuthorityFits
<1>6. WorkloadFits' /\ PathsFit' /\ SupportFits'
  BY <1>1, <1>2, WorkloadRests, PathsRest, SupportRests DEF PipelineInv
<1> QED
  BY <1>3, <1>4, <1>5, <1>6 DEF PipelineInv

\* The beginning of an attempt, the first or a later one.
LEMMA BeginFits ==
  ASSUME PipelineInv, Begin
  PROVE  PipelineInv'
<1> DEFINE j == K3sOf("preparing_hosts", 0, 0, 0, 0)
           new == [memory EXCEPT !.k3s = j]
<1>1. j = [NoK3s EXCEPT !.state = "preparing_hosts"]
  BY DEF K3sOf, NoK3s
<1>2. /\ pc = "idle" /\ ValidK3s(memory.k3s) /\ pc' \in {"prepare", "idle"} /\ turn' = 1
      /\ seen' = Unseen /\ failed' = FALSE
      /\ \/ /\ memory.k3s.state = "none" /\ memory' = new
            /\ disk' = new \/ disk' = disk
         \/ UNCHANGED <<memory, disk>> /\ ~first'
      /\ UNCHANGED <<workload, guest, volume, token, ca, objects, network, probe, effect, times,
                     tampered>>
  BY <1>1 DEF Begin, journals, remote, hosts, cluster, oneShot
<1>3. /\ IsJob(memory) /\ IsJob(disk) /\ pc' \in Places
      /\ pc' \notin Starts \cup AfterSecret \cup Joining \cup Revisiting \cup Qualifies
                 \cup Benchmarking \cup {"install", "preflight", "agents", "nodes"}
      /\ pc' \in OnHosts \cup {"idle"}
  BY <1>2, PlaceSets, PlacesApart, JoiningPlaces DEF PipelineInv, JobsFit, OnHosts, Places
<1>4. CASE /\ memory.k3s.state = "none" /\ memory' = new
           /\ disk' = new \/ disk' = disk
  <2>1. IsJob(new)
    <3>1. ValidK3s(j)
      <4>1. j.state = "preparing_hosts" /\ j.joined = 0 /\ j.ca = 0 /\ j.volume = 0
        BY K3sFields
      <4> HIDE DEF j
      <4> QED
        BY <4>1 DEF ValidK3s
    <3>2. "preparing_hosts" \in K3sStates /\ 0 \in 0..4 /\ 0 \in 0..3 /\ 0 \in Nat
      BY DEF K3sStates
    <3> QED
      BY <1>3, <3>1, <3>2, K3sJob
  <2>2. /\ new.k3s = j /\ new.work = memory.work /\ new.evidence = memory.evidence
        /\ new.stage = memory.stage /\ new.result = memory.result
    BY <1>3 DEF IsJob
  <2>3. j.prepared = 0 /\ j.joined = 0 /\ j.ca = 0 /\ j.volume = 0
    BY K3sFields
  <2>4. memory.k3s.volume = 0 /\ memory.k3s.ca = 0
    BY <1>2, <1>4 DEF ValidK3s, NoK3s
  <2> HIDE DEF j, new
  <2>5. /\ memory'.k3s = j /\ memory'.work = memory.work /\ memory'.evidence = memory.evidence
        /\ memory'.stage = memory.stage /\ memory'.result = memory.result
        /\ disk' = memory' \/ disk' = disk
    BY <1>4, <2>2
  <2>6. JobsFit'
    BY <1>3, <1>4, <2>1 DEF JobsFit
  <2>7. HostsFit'
    <3>1. \A job \in {memory', disk'} : \A i \in 1..job.k3s.prepared : Full(Hosts[i])
      BY <2>3, <2>5 DEF PipelineInv, HostsFit
    <3> QED
      BY <1>2, <1>3, <3>1 DEF PipelineInv, HostsFit, Full
  <2>8. VolumeFits' /\ AuthorityFits'
    <3>1. /\ disk.k3s.volume = 0 /\ disk.k3s.ca = 0
      BY <2>4 DEF PipelineInv, VolumeFits, AuthorityFits
    <3>2. disk'.k3s.volume = 0 /\ disk'.k3s.ca = 0
      BY <2>3, <2>5, <3>1
    <3>3. \A job \in {memory', disk'} : \A i \in 1..job.k3s.joined : token'[Agents[i]] = job.k3s.ca
      BY <1>2, <2>3, <2>5 DEF PipelineInv, AuthorityFits
    <3>4. VolumeFits'
      BY <1>2, <1>3, <2>3, <2>5, <3>2 DEF PipelineInv, VolumeFits
    <3>5. AuthorityFits'
      BY <1>2, <1>3, <2>3, <2>5, <3>1, <3>2, <3>3 DEF PipelineInv, AuthorityFits
    <3> QED
      BY <3>4, <3>5
  <2>9. WorkloadFits' /\ PathsFit' /\ SupportFits'
    BY <1>2, <1>3, <2>5, <2>6, WorkloadRests, PathsRest, SupportRests DEF PipelineInv
  <2> QED
    BY <2>6, <2>7, <2>8, <2>9 DEF PipelineInv
<1>5. CASE UNCHANGED <<memory, disk>> /\ ~first'
  <2>1. JobsFit'
    BY <1>3, <1>5 DEF PipelineInv, JobsFit
  <2>2. HostsFit'
    BY <1>2, <1>3, <1>5, HostsRest DEF PipelineInv, OnHosts
  <2>3. VolumeFits' /\ AuthorityFits'
    BY <1>2, <1>3, <1>5 DEF PipelineInv, VolumeFits, AuthorityFits
  <2>4. WorkloadFits' /\ PathsFit' /\ SupportFits'
    BY <1>2, <1>3, <1>5, <2>1, WorkloadRests, PathsRest, SupportRests DEF PipelineInv
  <2> QED
    BY <2>1, <2>2, <2>3, <2>4 DEF PipelineInv
<1> QED
  BY <1>2, <1>4, <1>5

-------------------------------------------------------------------------------
(* The deployment of Social Network.                                       *)

WorkOf(reached, applied, storage) == [state |-> reached, applied |-> applied, storage |-> storage]

\* The journal of the deployment is written into the job and nothing else.
WorkSaved(j, next, n) ==
  /\ JobsFit' /\ ValidWork(j, memory.k3s.volume)
  /\ memory'.work = j /\ memory'.k3s = memory.k3s /\ memory'.evidence = memory.evidence
  /\ memory'.stage = memory.stage /\ memory'.result = memory.result
  /\ \/ disk' = memory' /\ pc' = next /\ turn' = n
     \/ disk' = disk /\ pc' = "idle"

\* So is a save of the journal of the deployment.
LEMMA WorkloadSaves ==
  ASSUME JobsFit, NEW reached, NEW applied \in 0..5, NEW storage \in Nat, NEW next \in Places,
         NEW n, SaveWork(reached, applied, storage, next, n)
  PROVE  /\ UNCHANGED <<first, failed, seen>>
         /\ \/ JobsFit' /\ UNCHANGED <<memory, disk>> /\ pc' = "idle"
            \/ WorkSaved(WorkOf(reached, applied, storage), next, n)
<1> DEFINE j == WorkOf(reached, applied, storage)
           new == [memory EXCEPT !.work = j]
<1>1. CASE ValidWork(j, memory.k3s.volume)
  <2>1. Save(new, next, n)
    BY <1>1 DEF SaveWork, WorkOf
  <2>2. DOMAIN j = {"state", "applied", "storage"} /\ j.applied = applied /\ j.storage = storage
    BY DEF WorkOf
  <2> HIDE DEF j
  <2>3. /\ DOMAIN new = DOMAIN memory /\ new.work = j /\ new.k3s = memory.k3s
        /\ new.evidence = memory.evidence /\ new.stage = memory.stage
        /\ new.result = memory.result
    BY DEF JobsFit, IsJob
  <2> HIDE DEF new
  <2>4. IsJob(new)
    BY <2>2, <2>3 DEF JobsFit, IsJob
  <2>5. /\ JobsFit' /\ memory' = new /\ UNCHANGED <<first, failed, seen>>
        /\ \/ disk' = new /\ pc' = next /\ turn' = n
           \/ disk' = disk /\ pc' = "idle"
    BY <2>1, <2>4, JobSaves
  <2>6. WorkSaved(j, next, n)
    BY <1>1, <2>3, <2>5 DEF WorkSaved
  <2> QED
    BY <2>5, <2>6 DEF j
<1>2. CASE ~ValidWork(j, memory.k3s.volume)
  BY <1>2, PlacesApart DEF SaveWork, WorkOf, Keep, Refuse, Goto, JobsFit, journals
<1> QED
  BY <1>1, <1>2

\* The places of the deployment lie behind the secret.
LEMMA SocialPlaces ==
  /\ {"workload"} \cup Revisiting \subseteq AfterSecret \ (Joining \cup Qualifies \cup Benchmarking)
  /\ {"workload", "network"} \cap
       (Joining \cup {"agents", "nodes"} \cup Revisiting \cup Benchmarking) = {}
  /\ "network" \in AfterSecret \cap Qualifies /\ {"agents", "nodes"} \cap Revisiting = {}
  /\ Revisiting = {"reattest", "store", "apply", "send", "attest"}
BY DEF AfterSecret, Joining, Revisiting, Qualifies, Benchmarking

\* A step of the deployment leaves alone what is beside it.
LEMMA SocialRests ==
  ASSUME PipelineInv, JobsFit', WorkloadFits', pc \in {"workload"} \cup Revisiting,
         pc' \in {"idle", "network"} \cup Revisiting, pc' = "network" => turn' = 1,
         UNCHANGED <<workload, guest, token, ca, tampered, network, probe, effect, times, seen>>,
         objects \subseteq objects', DOMAIN volume' = DOMAIN volume,
         volume'.filesystem = volume.filesystem,
         memory'.k3s = memory.k3s, memory'.evidence = memory.evidence,
         memory'.stage = memory.stage, memory'.result = memory.result, disk' \in {disk, memory'}
  PROVE  PipelineInv'
<1>1. /\ pc \in AfterSecret \ (Joining \cup Qualifies \cup Benchmarking) /\ disk = memory
      /\ pc' \in {"idle"} \cup AfterSecret
      /\ pc' \notin Joining \cup {"agents", "nodes"} \cup Benchmarking
      /\ pc \notin {"idle"} \cup Qualifies
  BY SocialPlaces, PlaceSets DEF PipelineInv, JobsFit
<1>2. /\ disk'.k3s = disk.k3s /\ disk'.evidence = disk.evidence /\ disk'.stage = disk.stage
      /\ disk'.result = disk.result
  BY <1>1
<1>3. HostsFit' /\ VolumeFits' /\ AuthorityFits'
  BY <1>1, <1>2, K3sRests
<1>4. SupportFits'
  BY <1>1, <1>2, SupportRests DEF PipelineInv
<1>5. seen' = Unseen
  BY <1>1 DEF PipelineInv, PathsFit
<1>6. PathsFit'
  <2>1. CASE pc' = "network"
    BY <1>2, <1>5, <2>1 DEF PipelineInv, PathsFit, Unseen, Denied
  <2>2. CASE pc' # "network"
    BY <1>2, <1>5, <2>2, SocialPlaces, PathsRest DEF PipelineInv, Qualifies
  <2> QED
    BY <2>1, <2>2
<1> QED
  BY <1>3, <1>4, <1>6 DEF PipelineInv

\* SocialSave keeps the invariant.
LEMMA SocialSaveFits ==
  ASSUME PipelineInv, pc \in {"workload"} \cup Revisiting, NEW j, NEW next, NEW n,
         WorkSaved(j, next, n), next \in {"network"} \cup Revisiting, next = "network" => n = 1,
         UNCHANGED <<workload, guest, token, ca, tampered, network, probe, effect, times, seen>>,
         objects \subseteq objects', DOMAIN volume' = DOMAIN volume,
         volume'.filesystem = volume.filesystem, volume.store = "ready" => volume'.store = "ready",
         \A i \in 1..j.applied : WorkloadPhases[i] \in objects',
         ~tampered /\ j.storage # 0 => volume'.store = "ready",
         next \in {"apply", "send", "attest"} => volume'.store = "ready",
         next \in {"apply", "send"} =>
           n \in 1..5 /\ \A i \in 1..(n - 1) : WorkloadPhases[i] \in objects',
         next \in Revisiting => j.state # "workload_ready"
  PROVE  PipelineInv'
<1>1. /\ JobsFit' /\ memory'.work = j /\ disk' \in {disk, memory'}
      /\ \/ pc' = next /\ turn' = n
         \/ pc' = "idle"
      /\ memory'.k3s = memory.k3s /\ memory'.evidence = memory.evidence
      /\ memory'.stage = memory.stage /\ memory'.result = memory.result
  BY DEF WorkSaved
<1>2. WorkloadFits'
  <2>1. \A job \in {memory', disk'} :
          /\ \A i \in 1..job.work.applied : WorkloadPhases[i] \in objects'
          /\ ~tampered' /\ job.work.storage # 0 => volume'.store = "ready"
    BY <1>1 DEF PipelineInv, WorkloadFits
  <2> QED
    BY <1>1, <2>1, PlaceSets DEF WorkloadFits
<1> QED
  BY <1>1, <1>2, SocialRests

\* A step of the deployment that saves nothing moves on, or refuses.
LEMMA SocialMoves ==
  ASSUME PipelineInv, pc \in {"workload"} \cup Revisiting, pc' \in {"idle"} \cup Revisiting,
         UNCHANGED <<workload, memory, disk, guest, token, ca, tampered, network, probe, effect,
                     times, seen>>,
         objects \subseteq objects', DOMAIN volume' = DOMAIN volume,
         volume'.filesystem = volume.filesystem, volume.store = "ready" => volume'.store = "ready",
         pc' \in {"apply", "send", "attest"} => volume'.store = "ready",
         pc' \in {"apply", "send"} =>
           turn' \in 1..5 /\ \A i \in 1..(turn' - 1) : WorkloadPhases[i] \in objects',
         pc' \in Revisiting => memory.work.state # "workload_ready"
  PROVE  PipelineInv'
<1>1. JobsFit'
  BY SocialPlaces, PlacesApart, JoiningPlaces DEF PipelineInv, JobsFit
<1>2. WorkloadFits'
  <2>1. \A job \in {memory', disk'} :
          /\ \A i \in 1..job.work.applied : WorkloadPhases[i] \in objects'
          /\ ~tampered' /\ job.work.storage # 0 => volume'.store = "ready"
    BY DEF PipelineInv, WorkloadFits
  <2> QED
    BY <2>1 DEF WorkloadFits
<1> QED
  BY <1>1, <1>2, SocialRests, SocialPlaces

\* BeginWorkload keeps the invariant.
LEMMA BeginWorkloadFits ==
  ASSUME PipelineInv, BeginWorkload
  PROVE  PipelineInv'
<1>1. /\ pc = "workload" /\ pc \in {"workload"} \cup Revisiting
      /\ UNCHANGED <<workload, guest, volume, token, ca, objects, tampered, network, probe, effect,
                     times>>
      /\ \/ UNCHANGED <<memory, disk, seen>> /\ pc' = "idle"
         \/ SaveWork("preparing_storage", 0, 0, "reattest", 1)
         \/ /\ memory.work.state = "workload_ready" /\ ValidWork(memory.work, memory.k3s.volume)
            /\ SaveWork("applied", 5, memory.work.storage, "reattest", 1)
         \/ /\ memory.work.state # "workload_ready"
            /\ UNCHANGED <<memory, disk, seen>> /\ pc' = "reattest"
  BY DEF BeginWorkload, Keep, Refuse, Answered, Goto, journals, remote, hosts, cluster, oneShot
<1>2. /\ "reattest" \in Places \cap Revisiting /\ memory.work.storage \in Nat
      /\ memory.work.applied \in 0..5
  BY SocialPlaces, JoiningPlaces DEF PipelineInv, JobsFit, IsJob
<1>3. CASE /\ UNCHANGED <<memory, disk, seen>>
           /\ pc' = "idle" \/ (pc' = "reattest" /\ memory.work.state # "workload_ready")
  BY <1>1, <1>2, <1>3, SocialMoves, SocialPlaces, PlaceSets
<1>4. CASE SaveWork("preparing_storage", 0, 0, "reattest", 1)
  <2> DEFINE j == WorkOf("preparing_storage", 0, 0)
  <2>1. /\ UNCHANGED seen
        /\ (UNCHANGED <<memory, disk>> /\ pc' = "idle") \/ WorkSaved(j, "reattest", 1)
    BY <1>2, <1>4, WorkloadSaves DEF PipelineInv
  <2>2. j.state # "workload_ready" /\ j.applied = 0 /\ j.storage = 0
    BY DEF WorkOf
  <2> HIDE DEF j
  <2>3. CASE WorkSaved(j, "reattest", 1)
    BY <1>1, <1>2, <2>1, <2>2, <2>3, SocialSaveFits
  <2> QED
    BY <1>3, <2>1, <2>3
<1>5. CASE /\ memory.work.state = "workload_ready" /\ ValidWork(memory.work, memory.k3s.volume)
           /\ SaveWork("applied", 5, memory.work.storage, "reattest", 1)
  <2> DEFINE j == WorkOf("applied", 5, memory.work.storage)
  <2>1. /\ UNCHANGED seen
        /\ (UNCHANGED <<memory, disk>> /\ pc' = "idle") \/ WorkSaved(j, "reattest", 1)
    BY <1>2, <1>5, WorkloadSaves DEF PipelineInv
  <2>2. j.state # "workload_ready" /\ j.applied = 5 /\ j.storage = memory.work.storage
    BY DEF WorkOf
  <2> HIDE DEF j
  <2>3. memory.work.applied = 5
    BY <1>5 DEF ValidWork
  <2>4. CASE WorkSaved(j, "reattest", 1)
    BY <1>1, <1>2, <2>1, <2>2, <2>3, <2>4, SocialSaveFits DEF PipelineInv, WorkloadFits
  <2> QED
    BY <1>3, <2>1, <2>4
<1> QED
  BY <1>1, <1>3, <1>4, <1>5

\* ReattestCluster keeps the invariant.
LEMMA ReattestClusterFits ==
  ASSUME PipelineInv, ReattestCluster
  PROVE  PipelineInv'
<1>1. /\ pc = "reattest" /\ pc' \in {"store", "idle"}
      /\ UNCHANGED <<workload, memory, disk, guest, volume, token, ca, objects, tampered, network,
                     probe, effect, times, seen>>
  BY DEF ReattestCluster, Answered, Refuse, Lost, Goto, journals, remote, hosts, cluster, oneShot
<1>2. memory.work.state # "workload_ready" /\ pc \in Revisiting
  BY <1>1, SocialPlaces DEF PipelineInv, WorkloadFits
<1> QED
  BY <1>1, <1>2, SocialMoves, SocialPlaces

\* PrepareStorage keeps the invariant.
LEMMA PrepareStorageFits ==
  ASSUME PipelineInv, PrepareStorage
  PROVE  PipelineInv'
<1> DEFINE next == IF memory.work.applied < 5 THEN "apply" ELSE "attest"
           j == WorkOf("storage_ready", 0, volume.filesystem)
<1>1. /\ pc = "store"
      /\ UNCHANGED <<workload, guest, token, ca, objects, tampered, network, probe, effect, times>>
      /\ \/ volume' = StoreReady /\ SaveWork("storage_ready", 0, volume.filesystem, next, 1)
         \/ /\ volume' = StoreReady /\ UNCHANGED <<memory, disk, seen>>
            /\ pc' = next /\ turn' = memory.work.applied + 1
         \/ UNCHANGED <<memory, disk, seen>> /\ pc' = "idle"
      /\ \/ volume' \in {volume, StoreReady}
         \/ volume.store = "none" /\ volume' = [volume EXCEPT !.store = "marked"]
  BY DEF PrepareStorage, Keep, Answered, Lost, Goto, journals, cluster, oneShot
<1>2. /\ memory.work.state # "workload_ready" /\ pc \in Revisiting
      /\ memory.work.applied \in 0..5
      /\ \A i \in 1..memory.work.applied : WorkloadPhases[i] \in objects
      /\ DOMAIN volume = {"filesystem", "mounted", "store"} /\ volume.filesystem \in Nat
  BY <1>1, SocialPlaces DEF PipelineInv, WorkloadFits, VolumeFits, JobsFit, IsJob
<1>3. /\ DOMAIN volume' = DOMAIN volume /\ volume'.filesystem = volume.filesystem
      /\ volume.store = "ready" => volume'.store = "ready"
      /\ volume' = StoreReady => volume'.store = "ready"
  BY <1>1, <1>2 DEF StoreReady
<1>4. /\ next \in Revisiting /\ next \in {"apply", "attest"} /\ next \in Places
      /\ next = "apply" => memory.work.applied + 1 \in 1..5
  BY <1>2, SocialPlaces, JoiningPlaces
<1> HIDE DEF next
<1>5. CASE /\ UNCHANGED <<memory, disk, seen>>
           /\ \/ pc' = "idle"
              \/ volume' = StoreReady /\ pc' = next /\ turn' = memory.work.applied + 1
  BY <1>1, <1>2, <1>3, <1>4, <1>5, SocialMoves, SocialPlaces, PlaceSets
<1>6. CASE volume' = StoreReady /\ SaveWork("storage_ready", 0, volume.filesystem, next, 1)
  <2>1. /\ UNCHANGED seen
        /\ (UNCHANGED <<memory, disk>> /\ pc' = "idle") \/ WorkSaved(j, next, 1)
    <3>1. JobsFit /\ 0 \in 0..5 /\ volume.filesystem \in Nat /\ next \in Places
      BY <1>2, <1>4 DEF PipelineInv
    <3> QED
      BY <1>6, <3>1, WorkloadSaves
  <2>2. j.state # "workload_ready" /\ j.applied = 0
    BY DEF WorkOf
  <2> HIDE DEF j
  <2>3. CASE WorkSaved(j, next, 1)
    BY <1>1, <1>2, <1>3, <1>4, <1>6, <2>1, <2>2, <2>3, SocialSaveFits
  <2> QED
    BY <1>5, <2>1, <2>3
<1> QED
  BY <1>1, <1>5, <1>6

\* BeginPhase keeps the invariant.
LEMMA BeginPhaseFits ==
  ASSUME PipelineInv, BeginPhase
  PROVE  PipelineInv'
<1> DEFINE j == WorkOf("applying", turn - 1, volume.filesystem)
<1>1. /\ pc = "apply" /\ SaveWork("applying", turn - 1, volume.filesystem, "send", turn)
      /\ UNCHANGED <<workload, guest, volume, token, ca, objects, tampered, network, probe, effect,
                     times>>
  BY DEF BeginPhase, remote, hosts, cluster, oneShot
<1>2. /\ pc \in Revisiting /\ turn \in 1..5
      /\ \A i \in 1..(turn - 1) : WorkloadPhases[i] \in objects
      /\ volume.store = "ready" /\ volume.filesystem \in Nat
      /\ "send" \in Revisiting \cap Places
  BY <1>1, SocialPlaces, JoiningPlaces DEF PipelineInv, WorkloadFits, VolumeFits
<1>3. /\ UNCHANGED seen
      /\ (UNCHANGED <<memory, disk>> /\ pc' = "idle") \/ WorkSaved(j, "send", turn)
  BY <1>1, <1>2, WorkloadSaves DEF PipelineInv
<1>4. j.state # "workload_ready" /\ j.applied = turn - 1
  BY DEF WorkOf
<1> HIDE DEF j
<1>5. CASE WorkSaved(j, "send", turn)
  BY <1>1, <1>2, <1>3, <1>4, <1>5, SocialSaveFits
<1>6. CASE UNCHANGED <<memory, disk>> /\ pc' = "idle"
  BY <1>1, <1>2, <1>3, <1>6, SocialMoves, PlaceSets
<1> QED
  BY <1>3, <1>5, <1>6

\* ApplyPhase keeps the invariant.
LEMMA ApplyPhaseFits ==
  ASSUME PipelineInv, ApplyPhase
  PROVE  PipelineInv'
<1> DEFINE j == WorkOf("applied", turn, volume.filesystem)
           next == IF turn < 5 THEN "apply" ELSE "attest"
           n == IF turn < 5 THEN turn + 1 ELSE 1
           saving == SaveWork("applied", turn, volume.filesystem, next, n)
<1>1. /\ pc = "send" /\ objects \subseteq objects'
      /\ \/ objects' = objects \cup {WorkloadPhases[turn]} /\ saving
         \/ UNCHANGED <<memory, disk, seen>> /\ pc' = "idle"
      /\ UNCHANGED <<workload, guest, volume, token, ca, tampered, network, probe, effect, times>>
  BY DEF ApplyPhase, Applied, Keep, Lost, Goto, journals, hosts, oneShot
<1>2. /\ pc \in Revisiting /\ turn \in 1..5
      /\ \A i \in 1..(turn - 1) : WorkloadPhases[i] \in objects
      /\ volume.store = "ready" /\ volume.filesystem \in Nat
      /\ next \in Revisiting \cap Places
      /\ next = "apply" => n = turn + 1 /\ n \in 1..5
      /\ next = "apply" \/ next = "attest"
  BY <1>1, SocialPlaces, JoiningPlaces DEF PipelineInv, WorkloadFits, VolumeFits
<1>3. CASE UNCHANGED <<memory, disk, seen>> /\ pc' = "idle"
  BY <1>1, <1>2, <1>3, SocialMoves, PlaceSets
<1>4. CASE objects' = objects \cup {WorkloadPhases[turn]} /\ saving
  <2>1. /\ UNCHANGED seen
        /\ (UNCHANGED <<memory, disk>> /\ pc' = "idle") \/ WorkSaved(j, next, n)
    BY <1>2, <1>4, WorkloadSaves DEF PipelineInv
  <2>2. j.state # "workload_ready" /\ j.applied = turn
    BY DEF WorkOf
  <2>3. \A i \in 1..turn : WorkloadPhases[i] \in objects'
    BY <1>2, <1>4
  <2> HIDE DEF j, next, n
  <2>4. CASE WorkSaved(j, next, n)
    BY <1>1, <1>2, <2>1, <2>2, <2>3, <2>4, SocialSaveFits
  <2> QED
    BY <1>3, <2>1, <2>4
<1> QED
  BY <1>1, <1>3, <1>4

\* AttestWorkload keeps the invariant.
LEMMA AttestWorkloadFits ==
  ASSUME PipelineInv, AttestWorkload
  PROVE  PipelineInv'
<1> DEFINE j == WorkOf("workload_ready", 5, volume.filesystem)
<1>1. /\ pc = "attest"
      /\ \/ /\ WorkloadAttested
            /\ SaveWork("workload_ready", 5, volume.filesystem, "network", 1)
         \/ UNCHANGED <<memory, disk, seen>> /\ pc' = "idle"
      /\ UNCHANGED <<workload, guest, volume, token, ca, objects, tampered, network, probe, effect,
                     times>>
  BY DEF AttestWorkload, Keep, Lost, Goto, journals, remote, hosts, cluster, oneShot
<1>2. /\ pc \in Revisiting /\ volume.store = "ready" /\ volume.filesystem \in Nat
      /\ "network" \in Places /\ "network" \notin Revisiting
  BY <1>1, SocialPlaces, JoiningPlaces DEF PipelineInv, WorkloadFits, VolumeFits
<1>3. CASE UNCHANGED <<memory, disk, seen>> /\ pc' = "idle"
  BY <1>1, <1>2, <1>3, SocialMoves, PlaceSets
<1>4. CASE /\ WorkloadAttested
           /\ SaveWork("workload_ready", 5, volume.filesystem, "network", 1)
  <2>1. /\ UNCHANGED seen
        /\ (UNCHANGED <<memory, disk>> /\ pc' = "idle") \/ WorkSaved(j, "network", 1)
    BY <1>2, <1>4, WorkloadSaves DEF PipelineInv
  <2>2. j.applied = 5 /\ \A i \in 1..5 : WorkloadPhases[i] \in objects
    BY <1>4 DEF WorkOf, WorkloadAttested, PhaseSet
  <2> HIDE DEF j
  <2>3. CASE WorkSaved(j, "network", 1)
    BY <1>1, <1>2, <2>1, <2>2, <2>3, SocialSaveFits
  <2> QED
    BY <1>3, <2>1, <2>3
<1> QED
  BY <1>1, <1>3, <1>4

-------------------------------------------------------------------------------
(* The qualification of the paths.                                         *)

\* What the commands are, and what comes behind them.
LEMMA PlanOfPaths ==
  /\ \A i \in 1..9 : NetworkPlan[i].kind = "clear" <=> i \in {1, 2, 5, 8, 9}
  /\ \A i \in 1..9 : NetworkPlan[i].kind = "paths" <=> i = 3
  /\ \A i \in 1..9 : NetworkPlan[i].kind = "create" <=> i \in {4, 6, 7}
  /\ \A i \in {1, 4, 5, 7, 9} : NetworkPlan[i].pod = "control"
  /\ \A i \in {2, 6, 8} : NetworkPlan[i].pod = "deny"
BY DEF NetworkPlan, Clear, Create

\* A step of the qualification leaves alone what is beside it.
LEMMA NetworkRests ==
  ASSUME PipelineInv, JobsFit', PathsFit', pc \in Qualifies, pc' \in {"idle"} \cup Qualifies,
         UNCHANGED <<workload, guest, volume, token, ca, objects, tampered, effect, times>>,
         memory'.k3s = memory.k3s, memory'.work = memory.work,
         memory'.stage = memory.stage, memory'.result = memory.result, disk' \in {disk, memory'}
  PROVE  PipelineInv'
<1>1. /\ pc \in AfterSecret /\ disk = memory
      /\ pc' \in {"idle"} \cup AfterSecret
      /\ pc' \notin Joining \cup {"agents", "nodes"} \cup Benchmarking \cup Revisiting
  BY DEF PipelineInv, JobsFit, Qualifies, AfterSecret, Joining, Benchmarking, Revisiting
<1>2. /\ disk'.k3s = disk.k3s /\ disk'.work = disk.work /\ disk'.stage = disk.stage
      /\ disk'.result = disk.result
  BY <1>1
<1>3. HostsFit' /\ VolumeFits' /\ AuthorityFits'
  BY <1>1, <1>2, K3sRests
<1>4. SupportFits'
  BY <1>1, <1>2, SupportRests DEF PipelineInv
<1>5. WorkloadFits'
  BY <1>1, <1>2, WorkloadRests DEF PipelineInv
<1> QED
  BY <1>3, <1>4, <1>5 DEF PipelineInv

\* A command that passes, or raises, with what it has shown and left.
LEMMA PathsMove ==
  ASSUME PipelineInv, pc \in {"network", "delete"}, NEW shown, NEW left,
         seen' = shown, probe' = left,
         UNCHANGED <<memory, disk, network, objects>>,
         DOMAIN shown = {"before", "denied", "after"}, shown.denied \in {"none", "drop", "reject"},
         left \in [{"control", "deny"} -> {"none", "ours", "foreign"}],
         shown.denied # "none" /\ ~Denied /\ ~network.glitch =>
           shown.before /\ ~network.path /\ ~shown.after,
         seen.before => shown.before, seen.denied # "none" => shown.denied # "none",
         seen.after => shown.after,
         \/ /\ Proceed /\ failed' = failed
            /\ turn = 4 => shown.before
            /\ turn = 6 => shown.denied # "none"
            /\ turn = 7 => shown.after
            /\ turn # 7 => shown.after = seen.after
            /\ turn = 8 => left["deny"] # "ours"
            /\ turn = 9 => /\ left["control"] # "ours"
                           /\ probe["deny"] # "ours" => left["deny"] # "ours"
         \/ Except /\ shown = seen
  PROVE  JobsFit' /\ PathsFit' /\ pc' \in Qualifies
<1>1. /\ turn \in 1..9 /\ (turn <= 7 => ~seen.after) /\ (turn \in {5, 6} => seen.before)
      /\ ~failed => /\ turn >= 7 => seen.before /\ seen.denied # "none"
                    /\ turn >= 8 => seen.after
                    /\ turn = 9 => probe["deny"] # "ours"
      /\ DOMAIN network = {"enforced", "path", "glitch"}
      /\ memory.evidence # "none" /\ ~network.glitch => Denied
      /\ disk.evidence \in {"none", memory.evidence}
      /\ JobsFit
  BY DEF PipelineInv, PathsFit
<1>2. pc' \in {"network", "evidence"}
  BY DEF Proceed, Except
<1>3. pc' \in Qualifies /\ pc' \in Places /\ pc \in AfterSecret
  BY <1>2, JoiningPlaces DEF Qualifies, AfterSecret
<1>4. JobsFit'
  BY <1>1, <1>3 DEF JobsFit
<1>5. pc' = "network" =>
        /\ turn' \in 1..9 /\ (turn' <= 7 => ~shown.after) /\ (turn' \in {5, 6} => shown.before)
        /\ ~failed' => /\ turn' >= 7 => shown.before /\ shown.denied # "none"
                       /\ turn' >= 8 => shown.after
                       /\ turn' = 9 => left["deny"] # "ours"
  BY <1>1 DEF Proceed, Except
<1>6. pc' = "evidence" /\ ~failed' =>
        /\ shown.before /\ shown.denied # "none" /\ shown.after
        /\ left["control"] # "ours" /\ left["deny"] # "ours"
  BY <1>1 DEF Proceed, Except
<1>7. Denied' = Denied
  BY DEF Denied
<1> QED
  BY <1>1, <1>2, <1>3, <1>4, <1>5, <1>6, <1>7 DEF PathsFit

\* What the qualification of the paths has seen so far.
LEMMA SeenFits ==
  ASSUME PipelineInv
  PROVE  /\ DOMAIN seen = {"before", "denied", "after"}
         /\ seen.denied \in {"none", "drop", "reject"}
         /\ probe \in [{"control", "deny"} -> {"none", "ours", "foreign"}]
         /\ seen.denied # "none" /\ ~Denied /\ ~network.glitch =>
              seen.before /\ ~network.path /\ ~seen.after
         /\ pc \in {"network", "delete"} => turn \in 1..9
BY DEF PipelineInv, PathsFit

\* ReadProbePod keeps the invariant.
LEMMA ReadProbePodFits ==
  ASSUME PipelineInv, ReadProbePod
  PROVE  PipelineInv'
<1>1. /\ pc = "network" /\ NetworkPlan[turn].kind = "clear" /\ turn \in 1..9 /\ pc \in Qualifies
      /\ UNCHANGED <<workload, memory, disk, guest, volume, token, ca, objects, tampered, network,
                     probe, effect, times>>
      /\ \/ probe[Pod] = "none" /\ Proceed /\ UNCHANGED <<failed, seen>>
         \/ pc' = "delete" /\ turn' = turn /\ UNCHANGED <<failed, seen>>
         \/ Except
  BY SeenFits
     DEF ReadProbePod, Qualifying, Passed, Answered, Goto, journals, remote, hosts, cluster, oneShot,
         Qualifies
<1>2. CASE pc' = "delete" /\ turn' = turn /\ UNCHANGED <<failed, seen>>
  <2>1. JobsFit' /\ PathsFit' /\ "delete" \in Qualifies
    <3>1. "delete" \in Qualifies \cap Places /\ pc \in AfterSecret
      BY <1>1, JoiningPlaces DEF Qualifies, AfterSecret
    <3> QED
      BY <1>1, <1>2, <3>1 DEF PipelineInv, JobsFit, PathsFit, Denied
  <2> QED
    BY <1>1, <1>2, <2>1, NetworkRests
<1>3. CASE Except
  <2>1. seen' = seen
    BY <1>3 DEF Except
  <2>2. JobsFit' /\ PathsFit' /\ pc' \in Qualifies
    BY <1>1, <1>3, <2>1, SeenFits, PathsMove
  <2> QED
    BY <1>1, <2>2, NetworkRests
<1>4. CASE probe[Pod] = "none" /\ Proceed /\ UNCHANGED <<failed, seen>>
  <2>1. /\ turn \in {1, 2, 5, 8, 9}
        /\ turn = 8 => probe["deny"] # "ours"
        /\ turn = 9 => probe["control"] # "ours"
    BY <1>1, <1>4, PlanOfPaths DEF Pod
  <2>2. JobsFit' /\ PathsFit' /\ pc' \in Qualifies
    BY <1>1, <1>4, <2>1, SeenFits, PathsMove
  <2> QED
    BY <1>1, <2>2, NetworkRests
<1> QED
  BY <1>1, <1>2, <1>3, <1>4

\* DeleteProbePod keeps the invariant.
LEMMA DeleteProbePodFits ==
  ASSUME PipelineInv, DeleteProbePod
  PROVE  PipelineInv'
<1>1. /\ pc = "delete" /\ turn \in 1..9 /\ NetworkPlan[turn].kind = "clear" /\ pc \in Qualifies
      /\ UNCHANGED <<workload, memory, disk, guest, volume, token, ca, objects, tampered, network,
                     effect, times>>
      /\ probe' = probe \/ (probe[Pod] # "foreign" /\ probe' = [probe EXCEPT ![Pod] = "none"])
      /\ \/ /\ probe' = [probe EXCEPT ![Pod] = "none"]
            /\ Proceed /\ UNCHANGED <<failed, seen>>
         \/ Except
  BY SeenFits DEF DeleteProbePod, Passed, journals, hosts, oneShot, Qualifies, PipelineInv, PathsFit
<1>2. /\ Pod \in {"control", "deny"}
      /\ turn \in {1, 2, 5, 8, 9} /\ (turn = 8 => Pod = "deny") /\ (turn = 9 => Pod = "control")
  BY <1>1, PlanOfPaths DEF Pod
<1>3. /\ probe' \in [{"control", "deny"} -> {"none", "ours", "foreign"}]
      /\ probe["deny"] # "ours" => probe'["deny"] # "ours"
      /\ probe' = [probe EXCEPT ![Pod] = "none"] => probe'[Pod] = "none"
  BY <1>1, <1>2, SeenFits
<1>4. CASE Except
  <2>1. seen' = seen
    BY <1>4 DEF Except
  <2>2. JobsFit' /\ PathsFit' /\ pc' \in Qualifies
    BY <1>1, <1>3, <1>4, <2>1, SeenFits, PathsMove
  <2> QED
    BY <1>1, <2>2, NetworkRests
<1>5. CASE probe' = [probe EXCEPT ![Pod] = "none"] /\ Proceed /\ UNCHANGED <<failed, seen>>
  <2>1. /\ turn = 8 => probe'["deny"] # "ours"
        /\ turn = 9 => probe'["control"] # "ours"
    BY <1>2, <1>3, <1>5
  <2>2. /\ pc \in {"network", "delete"} /\ UNCHANGED <<memory, disk, network, objects>>
        /\ Proceed /\ failed' = failed /\ turn \notin {4, 6, 7} /\ seen' = seen
    BY <1>1, <1>2, <1>5
  <2>3. JobsFit' /\ PathsFit' /\ pc' \in Qualifies
    BY <1>3, <2>1, <2>2, SeenFits, PathsMove
  <2> QED
    BY <1>1, <2>3, NetworkRests
<1> QED
  BY <1>1, <1>4, <1>5

\* ProbePaths keeps the invariant.
LEMMA ProbePathsFits ==
  ASSUME PipelineInv, ProbePaths
  PROVE  PipelineInv'
<1>1. /\ pc = "network" /\ NetworkPlan[turn].kind = "paths" /\ turn \in 1..9 /\ pc \in Qualifies
      /\ UNCHANGED <<workload, memory, disk, guest, volume, token, ca, objects, tampered, network,
                     probe, effect, times, seen>>
      /\ (Proceed /\ failed' = failed) \/ Except
  BY SeenFits DEF ProbePaths, Qualifying, Passed, Except, journals, remote, hosts, cluster, oneShot,
                  Qualifies
<1>2. turn = 3
  BY <1>1, PlanOfPaths
<1>3. JobsFit' /\ PathsFit' /\ pc' \in Qualifies
  BY <1>1, <1>2, SeenFits, PathsMove
<1> QED
  BY <1>1, <1>3, NetworkRests

\* A Pod of the program is only made where the name is free.
LEMMA PodsAreMade ==
  ASSUME PipelineInv, Created \/ UNCHANGED probe, Pod \in {"control", "deny"}
  PROVE  probe' \in [{"control", "deny"} -> {"none", "ours", "foreign"}]
BY SeenFits DEF Created

\* Create keeps the invariant.
LEMMA CreateFits ==
  ASSUME PipelineInv, PositiveControl \/ LosePod \/ DefaultDeny
  PROVE  PipelineInv'
<1>1. /\ pc = "network" /\ NetworkPlan[turn].kind = "create" /\ turn \in 1..9 /\ pc \in Qualifies
      /\ UNCHANGED <<workload, memory, disk, guest, volume, token, ca, objects, tampered, network,
                     effect, times>>
      /\ Created \/ UNCHANGED probe
  BY SeenFits DEF PositiveControl, LosePod, DefaultDeny, Qualifying, journals, hosts, oneShot,
                  Qualifies
<1>2. /\ turn \in {4, 6, 7} /\ (Pod = "control" <=> turn \in {4, 7}) /\ (Pod = "deny" <=> turn = 6)
      /\ Pod \in {"control", "deny"}
  BY <1>1, PlanOfPaths DEF Pod
<1>3. probe' \in [{"control", "deny"} -> {"none", "ours", "foreign"}]
  BY <1>1, <1>2, PodsAreMade
<1>4. CASE Except
  <2>1. seen' = seen
    BY <1>4 DEF Except
  <2>2. JobsFit' /\ PathsFit' /\ pc' \in Qualifies
    BY <1>1, <1>3, <1>4, <2>1, SeenFits, PathsMove
  <2> QED
    BY <1>1, <2>2, NetworkRests
<1>5. CASE /\ network.path /\ Proceed /\ failed' = failed /\ Pod = "control"
           /\ seen' = IF turn = 4 THEN [seen EXCEPT !.before = TRUE]
                                  ELSE [seen EXCEPT !.after = TRUE]
  <2> DEFINE shown == seen'
  <2>1. /\ DOMAIN shown = {"before", "denied", "after"} /\ shown.denied = seen.denied
        /\ seen.before => shown.before
        /\ turn = 4 => shown.before /\ shown.after = seen.after
        /\ turn = 7 => shown.after
        /\ seen.after => shown.after
    <3>1. CASE turn = 4 /\ shown = [seen EXCEPT !.before = TRUE]
      BY <3>1, SeenFits
    <3>2. CASE turn = 7 /\ shown = [seen EXCEPT !.after = TRUE]
      BY <3>2, SeenFits
    <3> QED
      BY <1>2, <1>5, <3>1, <3>2
  <2>2. seen.denied # "none" => Denied \/ network.glitch
    BY <1>5, SeenFits
  <2> HIDE DEF shown
  <2>3. JobsFit' /\ PathsFit' /\ pc' \in Qualifies
    BY <1>1, <1>2, <1>3, <1>5, <2>1, <2>2, SeenFits, PathsMove DEF shown
  <2> QED
    BY <1>1, <2>3, NetworkRests
<1>6. CASE /\ Denied \/ ~network.path
           /\ \E mode \in {"drop", "reject"} : seen' = [seen EXCEPT !.denied = mode]
           /\ Proceed /\ failed' = failed /\ Pod = "deny"
  <2> DEFINE shown == seen'
  <2>1. /\ DOMAIN shown = {"before", "denied", "after"} /\ shown.denied \in {"drop", "reject"}
        /\ shown.before = seen.before /\ shown.after = seen.after
    BY <1>6, SeenFits
  <2>2. seen.before /\ ~seen.after /\ turn = 6
    BY <1>1, <1>2, <1>6 DEF PipelineInv, PathsFit
  <2> HIDE DEF shown
  <2>3. JobsFit' /\ PathsFit' /\ pc' \in Qualifies
    BY <1>1, <1>2, <1>3, <1>6, <2>1, <2>2, SeenFits, PathsMove DEF shown
  <2> QED
    BY <1>1, <2>3, NetworkRests
<1>7. Except \/ (/\ network.path /\ Proceed /\ failed' = failed /\ Pod = "control"
                 /\ seen' = IF turn = 4 THEN [seen EXCEPT !.before = TRUE]
                                        ELSE [seen EXCEPT !.after = TRUE])
             \/ (/\ Denied \/ ~network.path
                 /\ \E mode \in {"drop", "reject"} : seen' = [seen EXCEPT !.denied = mode]
                 /\ Proceed /\ failed' = failed /\ Pod = "deny")
  BY DEF PositiveControl, LosePod, DefaultDeny, Denied
<1> QED
  BY <1>4, <1>5, <1>6, <1>7

\* SaveEvidence keeps the invariant.
LEMMA SaveEvidenceFits ==
  ASSUME PipelineInv, SaveEvidence
  PROVE  PipelineInv'
<1> DEFINE new == [memory EXCEPT !.evidence = seen.denied]
<1>1. /\ pc = "evidence" /\ pc \in Qualifies /\ pc \in AfterSecret
      /\ UNCHANGED <<workload, guest, volume, token, ca, objects, tampered, network, probe, effect,
                     times>>
      /\ \/ UNCHANGED <<memory, disk, seen, failed>> /\ pc' = "idle"
         \/ ~failed /\ UNCHANGED <<memory, disk, seen, failed>> /\ pc' = "measured"
         \/ ~failed /\ memory.evidence = "none" /\ Save(new, "measured", 1)
  BY DEF SaveEvidence, Keep, Refuse, Answered, Goto, journals, remote, hosts, cluster, oneShot,
         Qualifies, AfterSecret
<1>2. /\ "measured" \in Qualifies \cap Places /\ disk = memory /\ IsJob(memory) /\ JobsFit
      /\ "idle" \in Places
  BY <1>1, JoiningPlaces, PlacesApart DEF Qualifies, AfterSecret, PipelineInv, JobsFit
<1>3. CASE /\ UNCHANGED <<memory, disk, seen, failed>>
           /\ pc' = "idle" \/ (~failed /\ pc' = "measured")
  <2>1. JobsFit'
    BY <1>1, <1>2, <1>3 DEF JobsFit
  <2>2. PathsFit'
    BY <1>1, <1>2, <1>3 DEF PipelineInv, PathsFit, Denied
  <2> QED
    BY <1>1, <1>2, <1>3, <2>1, <2>2, NetworkRests
<1>4. CASE ~failed /\ memory.evidence = "none" /\ Save(new, "measured", 1)
  <2>1. /\ DOMAIN new = DOMAIN memory /\ new.evidence = seen.denied
        /\ new.k3s = memory.k3s /\ new.work = memory.work /\ new.stage = memory.stage
        /\ new.result = memory.result
    BY <1>2 DEF IsJob
  <2> HIDE DEF new
  <2>2. IsJob(new)
    BY <1>2, <2>1, SeenFits DEF IsJob
  <2>3. /\ JobsFit' /\ memory' = new /\ disk' \in {disk, new}
        /\ (pc' = "measured" /\ disk' = new) \/ (pc' = "idle" /\ disk' = disk)
        /\ UNCHANGED <<failed, seen>>
    BY <1>2, <1>4, <2>2, JobSaves
  <2>4. PathsFit'
    <3>1. seen.after /\ (network.glitch \/ Denied)
      BY <1>1, <1>4 DEF PipelineInv, PathsFit
    <3>2. Denied' = Denied
      BY <1>1 DEF Denied
    <3>3. disk'.evidence \in {"none", memory'.evidence}
      BY <1>2, <1>4, <2>1, <2>3
    <3> QED
      BY <1>1, <1>2, <1>4, <2>1, <2>3, <3>1, <3>2, <3>3 DEF PipelineInv, PathsFit
  <2> QED
    BY <1>1, <1>2, <2>1, <2>3, <2>4, NetworkRests
<1> QED
  BY <1>1, <1>3, <1>4

-------------------------------------------------------------------------------
(* The benchmark of Hotel and Media.                                       *)

\* The stages, the steps that belong to them, and their places.
LEMMA StagesInOrder ==
  /\ \A i \in 1..7 : StagePlace(workload, Stages[i]) = i /\ Stages[i] \in StageNames \ {"none"}
  /\ \A i \in 1..6 : Stages[i] # "measurement_complete"
  /\ \A stage \in StageNames :
       /\ StagePlace(workload, stage) \in 0..7
       /\ StagePlace(workload, stage) = 0 <=> stage = "none"
       /\ StagePlace(workload, stage) = 7 <=> stage = "measurement_complete"
       /\ StagePlace(workload, stage) # 0 => stage = Stages[StagePlace(workload, stage)]
  /\ StagePlace(workload, "deploying_support") = 1 /\ StagePlace(workload, "semantic_checks") = 4
  /\ StagePlace(workload, "warming_up") = 5 /\ StagePlace(workload, "measuring") = 6
  /\ \A s \in OneShotStep : StepPlace(workload, s) \in 2..6
<1>1. CASE workload = "hotel"
  BY <1>1 DEF Stages, StagePlace, StageNames, StepPlace
<1>2. CASE workload # "hotel"
  BY <1>2 DEF Stages, StagePlace, StageNames, StepPlace
<1> QED
  BY <1>1, <1>2

\* Each one-shot step belongs to one stage.
LEMMA StepsOfStages ==
  /\ DOMAIN StepOf = {"initializing_dataset", "semantic_checks", "warming_up", "measuring"}
  /\ StepOf["semantic_checks"] = "check" /\ StepOf["measuring"] = "measure"
  /\ StepOf["warming_up"] = "warmup" /\ StepOf["initializing_dataset"] = "initialize"
  /\ \A stage \in DOMAIN StepOf :
       /\ StepOf[stage] \in OneShotStep
       /\ StepPlace(workload, StepOf[stage]) = StagePlace(workload, stage)
       /\ \A s \in OneShotStep :
            StepPlace(workload, s) = StagePlace(workload, stage) => s = StepOf[stage]
  /\ \A s \in OneShotStep :
       /\ StepPlace(workload, s) # 1
       /\ StepPlace(workload, s) # StagePlace(workload, "starting_applications")
BY DEF StepOf, OneShotStep, StepPlace, StagePlace

\* The places of the benchmark lie behind the secret.
LEMMA BenchmarkPlaces ==
  /\ {"workload", "completed"} \cup Benchmarking \subseteq
       AfterSecret \ ({"agents", "nodes"} \cup Joining \cup Revisiting \cup Qualifies)
  /\ {"workload", "completed"} \cap Benchmarking = {}
  /\ Benchmarking = {"stage", "do", "rollout", "await", "before", "complete"}
BY DEF AfterSecret, Joining, Revisiting, Qualifies, Benchmarking

\* A step of the benchmark leaves alone what is beside it.
LEMMA BenchmarkRests ==
  ASSUME PipelineInv, JobsFit', SupportFits', pc \in {"workload"} \cup Benchmarking,
         pc' \in {"idle", "completed"} \cup Benchmarking,
         UNCHANGED <<guest, volume, token, ca, tampered, network, probe, seen>>,
         objects \subseteq objects', memory'.k3s = memory.k3s, memory'.work = memory.work,
         memory'.evidence = memory.evidence, disk' \in {disk, memory'}
  PROVE  PipelineInv'
<1>1. /\ pc \in AfterSecret /\ pc \notin {"idle"} \cup Qualifies /\ disk = memory
      /\ pc' \in {"idle"} \cup AfterSecret
      /\ pc' \notin Joining \cup {"agents", "nodes"} \cup Revisiting \cup Qualifies
  BY BenchmarkPlaces, PlaceSets DEF PipelineInv, JobsFit, Qualifies
<1>2. disk'.k3s = disk.k3s /\ disk'.work = disk.work /\ disk'.evidence = disk.evidence
  BY <1>1
<1>3. HostsFit' /\ VolumeFits' /\ AuthorityFits'
  BY <1>1, <1>2, K3sRests
<1>4. WorkloadFits'
  BY <1>1, <1>2, WorkloadRests DEF PipelineInv
<1>5. seen' = Unseen
  BY <1>1 DEF PipelineInv, PathsFit
<1>6. PathsFit'
  BY <1>1, <1>2, <1>5, PathsRest DEF PipelineInv
<1> QED
  BY <1>3, <1>4, <1>6 DEF PipelineInv

\* A step of the benchmark that neither saves nor sends moves on, or refuses.
LEMMA BenchmarkMoves ==
  ASSUME PipelineInv, pc \in {"workload"} \cup Benchmarking, pc' \in {"idle"} \cup Benchmarking,
         UNCHANGED <<workload, memory, disk, guest, volume, token, ca, tampered, network, probe,
                     effect, times, seen>>,
         objects \subseteq objects',
         pc' \in Benchmarking =>
           /\ ~memory.result /\ turn' \in 1..7 /\ DoneBefore(turn') /\ NotSentFrom(turn' + 1)
           /\ IF pc' = "stage" THEN StagePlace(workload, memory.stage) < turn'
                               ELSE turn' < 7 /\ StagePlace(workload, memory.stage) = turn',
         pc' \in {"stage", "do", "rollout"} => NotSentFrom(turn'),
         pc' = "rollout" => memory.stage = "starting_applications",
         pc' = "await" => memory.stage \in DOMAIN StepOf /\ times[StepOf[memory.stage]] = 1,
         pc' = "before" => memory.stage = "semantic_checks" /\ Done("check"),
         pc' = "complete" => memory.stage = "measuring" /\ Done("measure")
  PROVE  PipelineInv'
<1>1. JobsFit'
  BY BenchmarkPlaces, JoiningPlaces, PlacesApart DEF PipelineInv, JobsFit
<1>2. /\ \A k : DoneBefore(k)' <=> DoneBefore(k)
      /\ \A k : NotSentFrom(k)' <=> NotSentFrom(k)
      /\ Done("check")' <=> Done("check")
      /\ Done("measure")' <=> Done("measure")
  BY DEF DoneBefore, NotSentFrom, Done, NotSent
<1>3. SupportFits'
  BY <1>2, PlaceSets DEF PipelineInv, SupportFits, DoneBefore, NotSentFrom, Done, NotSent
<1> QED
  BY <1>1, <1>3, BenchmarkRests

\* What an attempt knows in the middle of a benchmark.
LEMMA AtStage ==
  ASSUME PipelineInv, pc \in Benchmarking
  PROVE  /\ memory.stage \in StageNames /\ ~memory.result /\ turn \in 1..7 /\ disk = memory
         /\ DoneBefore(turn) /\ NotSentFrom(turn + 1)
         /\ pc # "stage" => /\ turn < 7 /\ StagePlace(workload, memory.stage) = turn
                            /\ memory.stage = Stages[turn]
<1>1. /\ memory.stage \in StageNames /\ ~memory.result /\ turn \in 1..7 /\ disk = memory
      /\ DoneBefore(turn) /\ NotSentFrom(turn + 1)
      /\ pc # "stage" => turn < 7 /\ StagePlace(workload, memory.stage) = turn
  BY BenchmarkPlaces DEF PipelineInv, JobsFit, IsJob, SupportFits
<1> QED
  BY <1>1, StagesInOrder

\* The step of a stage is the only one at its place.
LEMMA PlacesPass ==
  ASSUME NEW k \in 1..6, DoneBefore(k), NotSentFrom(k + 1)
  PROVE  /\ (\A s \in OneShotStep : StepPlace(workload, s) = k =>
               Done(s) \/ (s = "warmup" /\ NotSent(s))) => DoneBefore(k + 1)
         /\ NotSentFrom(k + 2)
BY StagesInOrder DEF DoneBefore, NotSentFrom

\* BeginSupport keeps the invariant.
LEMMA BeginSupportFits ==
  ASSUME PipelineInv, BeginSupport
  PROVE  PipelineInv'
<1>1. /\ pc = "workload"
      /\ pc' = "idle" \/ (pc' = "stage" /\ turn' = 1 /\ memory.stage = "none" /\ ~memory.result)
      /\ UNCHANGED <<workload, memory, disk, guest, volume, token, ca, tampered, network, probe,
                     objects, effect, times, seen>>
  BY DEF BeginSupport, Refuse, Answered, Goto, journals, remote, hosts, cluster, oneShot
<1>2. DoneBefore(1)
  BY StagesInOrder DEF DoneBefore
<1>3. memory.stage = "none" => NotSentFrom(1) /\ NotSentFrom(2)
  <2>1. disk = memory
    BY <1>1, BenchmarkPlaces DEF PipelineInv, JobsFit
  <2>2. ASSUME memory.stage = "none", NEW s \in OneShotStep
        PROVE  NotSent(s)
    <3>1. StagePlace(workload, disk.stage) = 0 /\ StepPlace(workload, s) \in 2..6
      BY <2>1, <2>2, StagesInOrder DEF StagePlace
    <3> QED
      BY <3>1 DEF PipelineInv, SupportFits, NotSent
  <2> QED
    BY <2>2 DEF NotSentFrom
<1>4. StagePlace(workload, "none") = 0
  BY DEF StagePlace
<1> QED
  BY <1>1, <1>2, <1>3, <1>4, BenchmarkMoves, BenchmarkPlaces, PlaceSets

\* BeginStage keeps the invariant.
LEMMA BeginStageFits ==
  ASSUME PipelineInv, BeginStage
  PROVE  PipelineInv'
<1> DEFINE new == [memory EXCEPT !.stage = Stages[turn]]
<1>1. /\ pc = "stage" /\ pc \in Benchmarking /\ turn \in 1..6
      /\ UNCHANGED <<workload, guest, volume, token, ca, tampered, network, probe, objects, effect,
                     times>>
      /\ \/ Save(new, "do", turn)
         \/ /\ Stages[turn] = "warming_up" /\ UNCHANGED <<memory, disk, seen>>
            /\ pc' = "stage" /\ turn' = turn + 1
  BY AtStage, BenchmarkPlaces
     DEF BeginStage, Keep, Answered, Goto, journals, remote, hosts, cluster, oneShot
<1>2. /\ NotSentFrom(turn) /\ NotSentFrom(turn + 1) /\ DoneBefore(turn)
      /\ StagePlace(workload, memory.stage) < turn
      /\ memory.stage \in StageNames /\ ~memory.result /\ disk = memory
  BY <1>1, AtStage DEF PipelineInv, SupportFits
<1>3. CASE /\ Stages[turn] = "warming_up" /\ UNCHANGED <<memory, disk, seen>>
           /\ pc' = "stage" /\ turn' = turn + 1
  <2>1. turn = 5
    BY <1>1, <1>3, StagesInOrder
  <2>2. DoneBefore(6) /\ NotSentFrom(7) /\ NotSentFrom(6)
    <3>1. \A s \in OneShotStep : StepPlace(workload, s) = 5 => s = "warmup" /\ NotSent(s)
      BY <1>2, <2>1, StepsOfStages, StagesInOrder DEF NotSentFrom
    <3> QED
      BY <1>2, <2>1, <3>1, PlacesPass
  <2>3. StagePlace(workload, memory.stage) < 6
    BY <1>2, <2>1, StagesInOrder
  <2>4. pc' = "stage" /\ turn' = 6 /\ "stage" \in Benchmarking
    BY <1>3, <2>1, BenchmarkPlaces
  <2> QED
    BY <1>1, <1>2, <1>3, <2>2, <2>3, <2>4, BenchmarkMoves
<1>4. CASE Save(new, "do", turn)
  <2>1. JobsFit /\ IsJob(memory)
    BY DEF PipelineInv, JobsFit
  <2>2. /\ DOMAIN new = DOMAIN memory /\ new.stage = Stages[turn]
        /\ new.k3s = memory.k3s /\ new.work = memory.work /\ new.evidence = memory.evidence
        /\ new.result = memory.result
    BY <2>1 DEF IsJob
  <2> HIDE DEF new
  <2>3. Stages[turn] \in StageNames /\ StagePlace(workload, Stages[turn]) = turn
        /\ Stages[turn] # "measurement_complete"
    BY <1>1, StagesInOrder
  <2>4. IsJob(new)
    BY <2>1, <2>2, <2>3 DEF IsJob
  <2>5. /\ JobsFit' /\ memory' = new /\ disk' \in {disk, new} /\ seen' = seen
        /\ (pc' = "do" /\ turn' = turn /\ disk' = new) \/ (pc' = "idle" /\ disk' = disk)
    BY <1>4, <2>1, <2>4, JobSaves, BenchmarkPlaces, JoiningPlaces
  <2>6. SupportFits'
    <3>1. /\ \A k : DoneBefore(k)' <=> DoneBefore(k)
          /\ \A k : NotSentFrom(k)' <=> NotSentFrom(k)
      BY <1>1 DEF DoneBefore, NotSentFrom, Done, NotSent
    <3>2. /\ effect' \in [OneShotStep -> {"none", "running", "finished", "dead"}]
          /\ times' \in [OneShotStep -> {0, 1}]
      BY <1>1 DEF PipelineInv, SupportFits
    <3>3. /\ ~memory'.result /\ ~disk'.result
          /\ memory'.stage = Stages[turn] /\ disk'.stage \in {memory.stage, Stages[turn]}
          /\ memory.stage # "measurement_complete"
      BY <1>2, <2>2, <2>5 DEF PipelineInv, SupportFits
    <3>4. /\ StagePlace(workload, memory'.stage) = turn
          /\ StagePlace(workload, disk'.stage) <= turn
          /\ StagePlace(workload, memory.stage) <= StagePlace(workload, disk'.stage)
          /\ StagePlace(workload, memory.stage) \in 0..7
      BY <1>1, <1>2, <2>3, <3>3, StagesInOrder
    <3>5. \A s \in OneShotStep :
            IF times'[s] = 0 THEN effect'[s] = "none"
            ELSE StepPlace(workload', s) <= StagePlace(workload', disk'.stage)
      <4>1. StagePlace(workload, disk'.stage) \in 0..7
        BY <1>2, <2>3, <3>3, StagesInOrder
      <4> QED
        BY <1>1, <1>2, <3>4, <4>1, StagesInOrder DEF PipelineInv, SupportFits
    <3>6. \A job \in {memory', disk'} : job.result <=> job.stage = "measurement_complete"
      BY <2>3, <3>3
    <3>7. pc' \in Benchmarking => pc' = "do" /\ turn' = turn
      BY <2>5, PlaceSets
    <3>8. pc' = "do" \/ pc' = "idle"
      BY <2>5
    <3> QED
      BY <1>1, <1>2, <2>5, <3>1, <3>2, <3>3, <3>4, <3>5, <3>6, <3>7, <3>8 DEF SupportFits
  <2> QED
    BY <1>1, <2>2, <2>5, <2>6, BenchmarkRests, BenchmarkPlaces
<1> QED
  BY <1>1, <1>3, <1>4

\* DeploySupport keeps the invariant.
LEMMA DeploySupportFits ==
  ASSUME PipelineInv, DeploySupport \/ StartApplications \/ AwaitRollout
  PROVE  PipelineInv'
<1>1. /\ pc \in {"do", "rollout"} /\ pc \in Benchmarking /\ objects \subseteq objects'
      /\ UNCHANGED <<workload, memory, disk, guest, volume, token, ca, tampered, network, probe,
                     effect, times, seen>>
      /\ \/ pc = "do" /\ Stages[turn] = "deploying_support" /\ pc' = "stage" /\ turn' = turn + 1
         \/ pc = "do" /\ Stages[turn] = "starting_applications" /\ pc' = "rollout" /\ turn' = turn
         \/ pc = "rollout" /\ pc' = "stage" /\ turn' = turn + 1
         \/ pc' = "idle"
  BY DEF DeploySupport, StartApplications, AwaitRollout, Doing, Refuse, Lost, Answered, Goto,
         journals, remote, hosts, cluster, oneShot, Benchmarking
<1>2. /\ memory.stage = Stages[turn] /\ StagePlace(workload, memory.stage) = turn /\ turn \in 1..6
      /\ ~memory.result /\ DoneBefore(turn) /\ NotSentFrom(turn + 1) /\ NotSentFrom(turn)
      /\ pc = "rollout" => memory.stage = "starting_applications"
  BY <1>1, AtStage DEF PipelineInv, SupportFits
<1>3. CASE pc' = "idle"
  BY <1>1, <1>3, BenchmarkMoves, PlaceSets
<1>4. CASE pc = "do" /\ Stages[turn] = "starting_applications" /\ pc' = "rollout" /\ turn' = turn
  BY <1>1, <1>2, <1>4, BenchmarkMoves, BenchmarkPlaces
<1>5. CASE /\ memory.stage \in {"deploying_support", "starting_applications"}
           /\ pc' = "stage" /\ turn' = turn + 1
  <2>1. \A s \in OneShotStep : StepPlace(workload, s) # turn
    BY <1>2, <1>5, StepsOfStages, StagesInOrder
  <2>2. DoneBefore(turn + 1) /\ NotSentFrom(turn + 2)
    BY <1>2, <2>1, PlacesPass
  <2> QED
    BY <1>1, <1>2, <1>5, <2>2, BenchmarkMoves, BenchmarkPlaces
<1> QED
  BY <1>1, <1>2, <1>3, <1>4, <1>5

\* SendOneShot keeps the invariant.
LEMMA SendOneShotFits ==
  ASSUME PipelineInv, SendOneShot
  PROVE  PipelineInv'
<1> DEFINE s == StepOf[Stages[turn]]
<1>1. /\ pc = "do" /\ pc \in Benchmarking /\ Stages[turn] \in DOMAIN StepOf
      /\ UNCHANGED <<workload, memory, disk, guest, volume, token, ca, tampered, network, probe,
                     objects, seen>>
      /\ times' = [times EXCEPT ![s] = times[s] + 1]
      /\ \/ effect' = [effect EXCEPT ![s] = "running"] /\ pc' = "await" /\ turn' = turn
         \/ effect' \in {effect, [effect EXCEPT ![s] = "running"]} /\ pc' = "idle"
  BY DEF SendOneShot, Doing, Lost, Answered, Goto, journals, hosts, cluster, Benchmarking
<1>2. /\ memory.stage = Stages[turn] /\ StagePlace(workload, memory.stage) = turn /\ turn \in 1..6
      /\ ~memory.result /\ DoneBefore(turn) /\ NotSentFrom(turn + 1) /\ NotSentFrom(turn)
      /\ disk = memory /\ memory.stage \in StageNames
  BY <1>1, AtStage DEF PipelineInv, SupportFits
<1>3. /\ s \in OneShotStep /\ StepPlace(workload, s) = turn /\ NotSent(s)
      /\ \A r \in OneShotStep : StepPlace(workload, r) = turn => r = s
      /\ StepOf[memory.stage] = s
  BY <1>1, <1>2, StepsOfStages DEF NotSentFrom
<1>4. /\ effect \in [OneShotStep -> {"none", "running", "finished", "dead"}]
      /\ times \in [OneShotStep -> {0, 1}]
  BY DEF PipelineInv, SupportFits
<1> HIDE DEF s
<1>5. /\ effect' \in [OneShotStep -> {"none", "running", "finished", "dead"}]
      /\ times' \in [OneShotStep -> {0, 1}] /\ times'[s] = 1
      /\ \A r \in OneShotStep : r # s => times'[r] = times[r] /\ effect'[r] = effect[r]
  BY <1>1, <1>3, <1>4 DEF NotSent
<1>6. JobsFit'
  BY <1>1, BenchmarkPlaces, JoiningPlaces, PlacesApart DEF PipelineInv, JobsFit
<1>7. SupportFits'
  <2>1. \A r \in OneShotStep :
          /\ StepPlace(workload, r) < turn =>
               \/ effect'[r] = "finished" /\ times'[r] = 1
               \/ r = "warmup" /\ effect'[r] = "none" /\ times'[r] = 0
          /\ StepPlace(workload, r) >= turn + 1 => effect'[r] = "none" /\ times'[r] = 0
    <3>1. \A r \in OneShotStep : StepPlace(workload, r) \in 2..6
      BY StepsOfStages, StagesInOrder DEF OneShotStep, StepPlace
    <3>2. \A r \in OneShotStep : StepPlace(workload, r) # turn => r # s
      BY <1>3
    <3> QED
      BY <1>2, <1>5, <3>1, <3>2 DEF DoneBefore, NotSentFrom, Done, NotSent
  <2>2. \A r \in OneShotStep :
          IF times'[r] = 0 THEN effect'[r] = "none"
          ELSE StepPlace(workload', r) <= StagePlace(workload', disk'.stage)
    BY <1>1, <1>2, <1>3, <1>5 DEF PipelineInv, SupportFits
  <2>3. /\ \A job \in {memory', disk'} : job.result <=> job.stage = "measurement_complete"
        /\ StagePlace(workload', disk'.stage) <= StagePlace(workload', memory'.stage)
        /\ ~memory'.result
    BY <1>1, <1>2 DEF PipelineInv, SupportFits
  <2>4. CASE pc' = "await" /\ turn' = turn
    <3>1. DoneBefore(turn)'
      BY <1>1, <2>1, <2>4 DEF DoneBefore, Done, NotSent
    <3>2. NotSentFrom(turn + 1)'
      BY <1>1, <2>1, <2>4 DEF NotSentFrom, NotSent
    <3>3. memory'.stage \in DOMAIN StepOf /\ times'[StepOf[memory'.stage]] = 1
      BY <1>1, <1>2, <1>3, <1>5
    <3>4. turn' \in 1..6 /\ StagePlace(workload', memory'.stage) = turn'
      BY <1>1, <1>2, <2>4
    <3> QED
      BY <1>5, <2>2, <2>3, <2>4, <3>1, <3>2, <3>3, <3>4 DEF SupportFits
  <2>5. CASE pc' = "idle"
    <3>1. pc' \notin Benchmarking
      BY <2>5, BenchmarkPlaces, PlacesApart, PlaceSets
    <3> QED
      BY <1>5, <2>2, <2>3, <2>5, <3>1 DEF SupportFits
  <2> QED
    BY <1>1, <2>4, <2>5
<1> QED
  BY <1>1, <1>6, <1>7, BenchmarkRests, BenchmarkPlaces

\* AwaitOneShot keeps the invariant.
LEMMA AwaitOneShotFits ==
  ASSUME PipelineInv, AwaitOneShot \/ SnapshotPods
  PROVE  PipelineInv'
<1> DEFINE s == StepOf[memory.stage]
<1>1. /\ pc \in {"await", "before"} /\ pc \in Benchmarking
      /\ UNCHANGED <<workload, memory, disk, guest, volume, token, ca, tampered, network, probe,
                     objects, effect, times, seen>>
      /\ \/ pc = "await" /\ effect[StepOf[Stages[turn]]] = "finished" /\ turn' = turn
            /\ \/ Stages[turn] = "semantic_checks" /\ pc' = "before"
               \/ Stages[turn] = "measuring" /\ pc' = "complete"
         \/ /\ pc = "await" /\ effect[StepOf[Stages[turn]]] = "finished"
            /\ pc' = "stage" /\ turn' = turn + 1
         \/ pc = "before" /\ pc' = "stage" /\ turn' = turn + 1
         \/ pc' = "idle"
  BY DEF AwaitOneShot, SnapshotPods, Refuse, Lost, Answered, Goto, journals, remote, hosts, cluster,
         oneShot, Benchmarking
<1>2. /\ memory.stage = Stages[turn] /\ StagePlace(workload, memory.stage) = turn /\ turn \in 1..6
      /\ ~memory.result /\ DoneBefore(turn) /\ NotSentFrom(turn + 1)
      /\ pc = "await" => memory.stage \in DOMAIN StepOf /\ times[s] = 1
      /\ pc = "before" => memory.stage = "semantic_checks" /\ Done("check")
  BY <1>1, AtStage DEF PipelineInv, SupportFits
<1>3. CASE pc' = "idle"
  BY <1>1, <1>3, BenchmarkMoves, PlaceSets
<1>4. CASE /\ pc = "await" /\ effect[s] = "finished" /\ turn' = turn
           /\ \/ memory.stage = "semantic_checks" /\ pc' = "before"
              \/ memory.stage = "measuring" /\ pc' = "complete"
  <2>1. /\ memory.stage = "semantic_checks" => Done("check")
        /\ memory.stage = "measuring" => Done("measure")
    BY <1>2, <1>4, StepsOfStages DEF Done
  <2>2. pc' \in Benchmarking
    BY <1>4, BenchmarkPlaces
  <2> QED
    BY <1>1, <1>2, <1>4, <2>1, <2>2, BenchmarkMoves
<1>5. CASE /\ (pc = "await" /\ effect[s] = "finished") \/ pc = "before"
           /\ pc' = "stage" /\ turn' = turn + 1
  <2>1. \A r \in OneShotStep : StepPlace(workload, r) = turn => Done(r)
    BY <1>2, <1>5, StepsOfStages DEF Done
  <2>2. DoneBefore(turn + 1) /\ NotSentFrom(turn + 2)
    BY <1>2, <2>1, PlacesPass
  <2> QED
    BY <1>1, <1>2, <1>5, <2>2, BenchmarkMoves, BenchmarkPlaces
<1> QED
  BY <1>1, <1>2, <1>3, <1>4, <1>5

\* CompleteSupport keeps the invariant.
LEMMA CompleteSupportFits ==
  ASSUME PipelineInv, CompleteSupport
  PROVE  PipelineInv'
<1> DEFINE new == [memory EXCEPT !.result = TRUE, !.stage = "measurement_complete"]
<1>1. /\ pc = "complete" /\ pc \in Benchmarking
      /\ UNCHANGED <<workload, guest, volume, token, ca, tampered, network, probe, objects, effect,
                     times>>
      /\ Save(new, "completed", 1) \/ (UNCHANGED <<memory, disk, seen>> /\ pc' = "idle")
  BY DEF CompleteSupport, Keep, Refuse, Lost, Goto, journals, remote, hosts, cluster, oneShot,
         Benchmarking
<1>2. /\ turn = 6 /\ memory.stage = "measuring" /\ Done("measure") /\ DoneBefore(6) /\ disk = memory
      /\ ~memory.result
  BY <1>1, AtStage, StagesInOrder DEF PipelineInv, SupportFits
<1>3. CASE UNCHANGED <<memory, disk, seen>> /\ pc' = "idle"
  BY <1>1, <1>3, BenchmarkMoves, PlaceSets
<1>4. CASE Save(new, "completed", 1)
  <2>1. JobsFit /\ IsJob(memory)
    BY DEF PipelineInv, JobsFit
  <2>2. /\ DOMAIN new = DOMAIN memory /\ new.stage = "measurement_complete" /\ new.result = TRUE
        /\ new.k3s = memory.k3s /\ new.work = memory.work /\ new.evidence = memory.evidence
    BY <2>1 DEF IsJob
  <2> HIDE DEF new
  <2>3. IsJob(new)
    BY <2>1, <2>2 DEF IsJob, StageNames
  <2>4. /\ JobsFit' /\ memory' = new /\ disk' \in {disk, new} /\ seen' = seen
        /\ (pc' = "completed" /\ disk' = new) \/ (pc' = "idle" /\ disk' = disk)
    BY <1>4, <2>1, <2>3, JobSaves, BenchmarkPlaces, JoiningPlaces
  <2>5. SupportFits'
    <3>1. DoneBefore(7)
      <4>1. \A s \in OneShotStep : StepPlace(workload, s) = 6 => Done(s)
        BY <1>2, StepsOfStages, StagesInOrder
      <4> QED
        BY <1>2, <4>1, StagesInOrder DEF DoneBefore
    <3>2. DoneBefore(7)'
      BY <1>1, <3>1 DEF DoneBefore, Done, NotSent
    <3>3. /\ StagePlace(workload, "measurement_complete") = 7
          /\ StagePlace(workload, "measuring") = 6
          /\ "measurement_complete" \in StageNames
      BY DEF StagePlace, StageNames
    <3>4. /\ \A job \in {memory', disk'} : job.result <=> job.stage = "measurement_complete"
          /\ StagePlace(workload', disk'.stage) <= StagePlace(workload', memory'.stage)
      BY <1>1, <1>2, <2>2, <2>4, <3>3 DEF PipelineInv, SupportFits
    <3>5. \A s \in OneShotStep :
            IF times'[s] = 0 THEN effect'[s] = "none"
            ELSE StepPlace(workload', s) <= StagePlace(workload', disk'.stage)
      BY <1>1, <1>2, <2>2, <2>4, <3>3, StagesInOrder DEF PipelineInv, SupportFits
    <3>6. pc' \notin Benchmarking
      BY <2>4, PlaceSets, BenchmarkPlaces
    <3> QED
      BY <1>1, <3>2, <3>4, <3>5, <3>6 DEF PipelineInv, SupportFits, Benchmarking
  <2> QED
    BY <1>1, <2>2, <2>4, <2>5, BenchmarkRests, BenchmarkPlaces
<1> QED
  BY <1>1, <1>3, <1>4

-------------------------------------------------------------------------------
(* All steps together.                                                     *)

\* A fresh job satisfies the invariant.
LEMMA PipelineStarts ==
  ASSUME GuestsInit
  PROVE  PipelineInv
<1>1. pc = "idle" /\ memory = NoJob /\ disk = NoJob /\ ~tampered
  BY DEF GuestsInit
<1>2. /\ pc \in Places
      /\ pc \notin OnHosts \cup Starts \cup AfterSecret \cup Joining \cup Revisiting \cup Qualifies
                   \cup Benchmarking
  BY <1>1, PlacesApart, PlaceSets
<1>3. IsJob(NoJob)
  <2>1. NoK3s.state = "none"
    BY DEF NoK3s
  <2>2. ValidK3s(NoK3s)
    BY <2>1 DEF ValidK3s
  <2>3. /\ NoJob.k3s = NoK3s /\ NoJob.work = NoWork /\ NoJob.evidence = "none"
        /\ NoJob.stage = "none" /\ NoJob.result = FALSE
        /\ DOMAIN NoJob = {"k3s", "work", "evidence", "stage", "result"}
    BY DEF NoJob
  <2>4. /\ DOMAIN NoK3s = {"state", "prepared", "joined", "ca", "volume"}
        /\ NoK3s.prepared = 0 /\ NoK3s.joined = 0 /\ NoK3s.ca = 0 /\ NoK3s.volume = 0
        /\ DOMAIN NoWork = {"state", "applied", "storage"} /\ NoWork.applied = 0
        /\ NoWork.storage = 0
    BY DEF NoK3s, NoWork
  <2>5. NoJob.result \in BOOLEAN /\ ValidK3s(NoJob.k3s)
    BY <2>2, <2>3, Zenon
  <2>6. /\ NoJob.k3s.state \in K3sStates /\ NoJob.stage \in StageNames
        /\ NoJob.evidence \in {"none", "drop", "reject"}
    BY <2>1, <2>3 DEF K3sStates, StageNames
  <2>7. /\ DOMAIN NoJob.k3s = {"state", "prepared", "joined", "ca", "volume"}
        /\ NoJob.k3s.prepared \in 0..4 /\ NoJob.k3s.joined \in 0..3
        /\ NoJob.k3s.ca \in Nat /\ NoJob.k3s.volume \in Nat
        /\ DOMAIN NoJob.work = {"state", "applied", "storage"}
        /\ NoJob.work.applied \in 0..5 /\ NoJob.work.storage \in Nat
    BY <2>3, <2>4
  <2> QED
    BY <2>3, <2>5, <2>6, <2>7, Zenon DEF IsJob
<1>4. JobsFit
  BY <1>1, <1>2, <1>3 DEF JobsFit
<1>5. HostsFit
  BY <1>1, <1>2 DEF GuestsInit, HostsFit, NoJob, NoK3s, OnHosts
<1>6. VolumeFits
  BY <1>1, <1>2 DEF GuestsInit, VolumeFits, NoJob, NoK3s
<1>7. AuthorityFits
  BY <1>1, <1>2, HostNames DEF GuestsInit, AuthorityFits, NoJob, NoK3s, Absent
<1>8. WorkloadFits
  BY <1>1, <1>2 DEF GuestsInit, WorkloadFits, NoJob, NoWork
<1>9. PathsFit
  BY <1>1, <1>2 DEF GuestsInit, PathsFit, NoJob, Unseen
<1>10. SupportFits
  BY <1>1, <1>2 DEF GuestsInit, SupportFits, NoJob, StagePlace
<1> QED
  BY <1>4, <1>5, <1>6, <1>7, <1>8, <1>9, <1>10 DEF PipelineInv

PipelineNext == Attempt \/ Restart \/ Others

\* Every step of the program and of its surroundings keeps the invariant.
LEMMA PipelineStays ==
  ASSUME PipelineInv, [PipelineNext]_vars
  PROVE  PipelineInv'
<1>1. CASE Attempt
  <2>1. CASE K3sStep
    BY <2>1, PrepareHostFits, InstallArtifactFits, PreflightHostFits, HostsPreparedFits,
       MountVolumeFits, InitializeTokensFits, StartServerFits, ServerReadinessFits,
       ReadAgentTokenFits, BeginJoiningFits, InstallAgentTokenFits, JoinAgentFits,
       AgentReadinessFits, AgentsReadyFits DEF K3sStep
  <2>2. CASE SocialStep
    BY <2>2, BeginWorkloadFits, ReattestClusterFits, PrepareStorageFits, BeginPhaseFits,
       ApplyPhaseFits, AttestWorkloadFits DEF SocialStep
  <2>3. CASE NetworkStep
    BY <2>3, ReadProbePodFits, DeleteProbePodFits, ProbePathsFits, CreateFits, SaveEvidenceFits
       DEF NetworkStep
  <2>4. CASE SupportStep
    BY <2>4, BeginSupportFits, BeginStageFits, DeploySupportFits, SendOneShotFits,
       AwaitOneShotFits, CompleteSupportFits DEF SupportStep
  <2> QED
    BY <1>1, <2>1, <2>2, <2>3, <2>4, BeginFits DEF Attempt
<1>2. CASE UNCHANGED vars
  <2>1. UNCHANGED <<workload, pc, turn, first, failed, seen, memory, disk, guest, volume, token,
                    ca, objects, network, probe, effect, times, tampered>>
    BY <1>2 DEF vars, attempt, journals, remote, hosts, cluster, oneShot
  <2> QED
    BY <2>1, HostsSame, VolumeSame, AuthoritySame, WorkloadSame, PathsSame, SupportSame
       DEF PipelineInv, JobsFit
<1> QED
  BY <1>1, <1>2, RestartFits, OthersFit DEF PipelineNext

-------------------------------------------------------------------------------
(* What a step does not replace.                                           *)

\* A save carries on what the job in memory tells.
RecordKept ==
  /\ disk' \in {disk, memory'}
  /\ memory.k3s.volume \in {0, memory'.k3s.volume} /\ memory.k3s.ca \in {0, memory'.k3s.ca}
  /\ memory.evidence \in {"none", memory'.evidence}
  /\ \/ memory'.stage = memory.stage
     \/ StagePlace(workload, memory.stage) <= StagePlace(workload, memory'.stage)

\* What is found on the hosts.
HostsKept ==
  /\ volume.filesystem # 0 => volume'.filesystem = volume.filesystem
  /\ ca # 0 => ca' = ca
  /\ \A h \in HostSet : token[h] # Absent => token'[h] = token[h]

ForeignKept == \A n \in DOMAIN probe : probe[n] = "foreign" => probe'[n] = "foreign"

\* A step of an attempt, or beside it, that sends no one-shot command.
StepKept == RecordKept /\ HostsKept /\ ForeignKept /\ workload' = workload /\ times' = times

\* A step without a save keeps what it has.
LEMMA RecordSame ==
  ASSUME UNCHANGED <<memory, disk>>
  PROVE  RecordKept
BY DEF RecordKept

LEMMA HostsKeptSame ==
  ASSUME UNCHANGED <<volume, ca, token>>
  PROVE  HostsKept
BY DEF HostsKept

LEMMA ForeignKeptSame ==
  ASSUME probe' = probe
  PROVE  ForeignKept
BY DEF ForeignKept

\* A save replaces no record that it does not carry on.
LEMMA SavesKeep ==
  ASSUME PipelineInv, NEW j, NEW next, NEW n, Save(j, next, n),
         memory.k3s.volume \in {0, j.k3s.volume}, memory.k3s.ca \in {0, j.k3s.ca},
         memory.evidence \in {"none", j.evidence},
         \/ j.stage = memory.stage
         \/ StagePlace(workload, memory.stage) <= StagePlace(workload, j.stage)
  PROVE  RecordKept
BY DEF Save, RecordKept

\* A save of the journal of K3s carries on file system and authority.
LEMMA K3sSavesKeep ==
  ASSUME PipelineInv, NEW reached, NEW prepared, NEW joined, NEW authority, NEW filesystem,
         NEW next, NEW n, SaveK3s(reached, prepared, joined, authority, filesystem, next, n),
         memory.k3s.volume \in {0, filesystem}, memory.k3s.ca \in {0, authority}
  PROVE  RecordKept
<1> DEFINE j == K3sOf(reached, prepared, joined, authority, filesystem)
           new == [memory EXCEPT !.k3s = j]
<1>1. j.ca = authority /\ j.volume = filesystem
  BY K3sFields
<1>2. CASE ValidK3s(j)
  <2>1. Save(new, next, n)
    BY <1>2 DEF SaveK3s, K3sOf
  <2>2. new.k3s = j /\ new.evidence = memory.evidence /\ new.stage = memory.stage
    BY DEF PipelineInv, JobsFit, IsJob
  <2> HIDE DEF j, new
  <2> QED
    BY <1>1, <2>1, <2>2, SavesKeep
<1>3. CASE ~ValidK3s(j)
  BY <1>3, RecordSame DEF SaveK3s, K3sOf, journals
<1> QED
  BY <1>2, <1>3

\* A save of the journal of the deployment carries on everything else.
LEMMA WorkSavesKeep ==
  ASSUME PipelineInv, NEW reached, NEW applied, NEW storage, NEW next, NEW n,
         SaveWork(reached, applied, storage, next, n)
  PROVE  RecordKept
<1> DEFINE j == [state |-> reached, applied |-> applied, storage |-> storage]
           new == [memory EXCEPT !.work = j]
<1>1. CASE ValidWork(j, memory.k3s.volume)
  <2>1. Save(new, next, n)
    BY <1>1 DEF SaveWork
  <2>2. new.k3s = memory.k3s /\ new.evidence = memory.evidence /\ new.stage = memory.stage
    BY DEF PipelineInv, JobsFit, IsJob
  <2> HIDE DEF new
  <2> QED
    BY <2>1, <2>2, SavesKeep
<1>2. CASE ~ValidWork(j, memory.k3s.volume)
  BY <1>2, RecordSame DEF SaveWork, Keep, journals
<1> QED
  BY <1>1, <1>2

\* The beginning of an attempt replaces nothing.
LEMMA BeginKeeps ==
  ASSUME PipelineInv, Begin
  PROVE  StepKept
<1> DEFINE new == [memory EXCEPT !.k3s = [NoK3s EXCEPT !.state = "preparing_hosts"]]
<1>1. /\ UNCHANGED <<workload, volume, ca, token, probe, times>>
      /\ \/ memory.k3s = NoK3s /\ memory' = new /\ disk' \in {disk, new}
         \/ UNCHANGED <<memory, disk>>
  BY DEF Begin, ValidK3s, remote, hosts, cluster, oneShot, journals
<1>2. /\ NoK3s.volume = 0 /\ NoK3s.ca = 0 /\ new.evidence = memory.evidence
      /\ new.stage = memory.stage
  BY DEF NoK3s, PipelineInv, JobsFit, IsJob
<1> HIDE DEF new
<1>3. RecordKept
  BY <1>1, <1>2, RecordSame DEF RecordKept
<1> QED
  BY <1>1, <1>3, HostsKeptSame, ForeignKeptSame DEF StepKept

\* Behind the mount the record names what the attempt works on.
LEMMA RecordNamesHosts ==
  ASSUME PipelineInv
  PROVE  /\ pc \in Starts \cup AfterSecret => memory.k3s.volume = volume.filesystem
         /\ pc \in AfterSecret => memory.k3s.ca = ca
         /\ memory.k3s.volume = 0 => memory.k3s.ca = 0
         /\ first /\ pc \in OnHosts => memory.k3s.volume = 0
BY VolumesComeFirst DEF PipelineInv, VolumeFits, AuthorityFits, JobsFit

\* The steps of K3s that only save.
LEMMA K3sSaveSteps ==
  ASSUME PipelineInv,
         \/ PreflightHost \/ HostsPrepared \/ ReadAgentToken \/ BeginJoining \/ AgentReadiness
         \/ AgentsReady \/ AttestCluster
  PROVE  StepKept
<1>1. UNCHANGED <<workload, volume, ca, token, probe, times>>
  BY DEF PreflightHost, HostsPrepared, ReadAgentToken, BeginJoining, AgentReadiness, AgentsReady,
         AttestCluster, remote, hosts, cluster, oneShot
<1>2. \/ UNCHANGED <<memory, disk>>
      \/ \E reached, prepared, joined, authority, filesystem, next, n :
           /\ SaveK3s(reached, prepared, joined, authority, filesystem, next, n)
           /\ memory.k3s.volume \in {0, filesystem} /\ memory.k3s.ca \in {0, authority}
  <2>1. CASE PreflightHost
    BY <2>1, RecordNamesHosts DEF PreflightHost, Keep, journals, OnHosts
  <2>2. CASE HostsPrepared
    BY <2>2, RecordNamesHosts DEF HostsPrepared, Keep, journals
  <2>3. CASE ReadAgentToken
    BY <2>3, RecordNamesHosts DEF ReadAgentToken, Keep, journals, Starts
  <2>4. CASE BeginJoining
    BY <2>4, RecordNamesHosts DEF BeginJoining, AfterSecret
  <2>5. CASE AgentReadiness
    BY <2>5, RecordNamesHosts DEF AgentReadiness, Keep, journals, AfterSecret, Joining
  <2>6. CASE AgentsReady
    BY <2>6, RecordNamesHosts DEF AgentsReady, AfterSecret
  <2>7. CASE AttestCluster
    BY <2>7, RecordNamesHosts DEF AttestCluster, Keep, journals, AfterSecret
  <2> QED
    BY <2>1, <2>2, <2>3, <2>4, <2>5, <2>6, <2>7
<1>3. RecordKept
  BY <1>2, RecordSame, K3sSavesKeep
<1> QED
  BY <1>1, <1>3, HostsKeptSame, ForeignKeptSame DEF StepKept

\* A file system is made only where there is none.
LEMMA MountKeeps ==
  ASSUME PipelineInv, MountVolume
  PROVE  StepKept
<1>1. /\ volume' \in {volume, Formatted, Mounted}
      /\ UNCHANGED <<workload, token, ca, probe, times>>
      /\ \/ UNCHANGED <<memory, disk>>
         \/ /\ SameVolume(Mounted) /\ memory.k3s.ca = 0
            /\ SaveK3s("database_storage_ready", Len(Hosts), 0, 0, Mounted.filesystem, "tokens", 1)
  BY DEF MountVolume, Keep, journals, cluster, oneShot
<1>2. volume.filesystem # 0 => volume'.filesystem = volume.filesystem
  BY <1>1, Mounts DEF PipelineInv
<1>3. RecordKept
  BY <1>1, RecordSame, K3sSavesKeep DEF SameVolume
<1> QED
  BY <1>1, <1>2, <1>3, ForeignKeptSame DEF StepKept, HostsKept

\* A credential is written only where there is none.
LEMMA CredentialsAreKept ==
  ASSUME PipelineInv, NEW h \in HostSet, NEW authority,
         \/ GivenTo(h, authority) \/ UNCHANGED token
         \/ token[h] = Absent /\ token' = [token EXCEPT ![h] = Partial]
  PROVE  \A k \in HostSet : token[k] # Absent => token'[k] = token[k]
BY DEF PipelineInv, AuthorityFits, GivenTo

\* The steps of K3s replace nothing.
LEMMA K3sStepsKeep ==
  ASSUME PipelineInv, K3sStep
  PROVE  StepKept
<1>1. CASE PrepareHost \/ InstallArtifact \/ ServerReadiness \/ PinSystemServices \/ JoinAgent
  <2>1. UNCHANGED <<workload, memory, disk, volume, ca, token, probe, times>>
    BY <1>1 DEF PrepareHost, InstallArtifact, ServerReadiness, PinSystemServices, JoinAgent,
                journals, remote, hosts, cluster, oneShot
  <2> QED
    BY <2>1, RecordSame, HostsKeptSame, ForeignKeptSame DEF StepKept
<1>2. CASE InitializeTokens \/ InstallAgentToken
  <2>1. UNCHANGED <<workload, memory, disk, volume, ca, probe, times>>
    BY <1>2 DEF InitializeTokens, InstallAgentToken, journals, cluster, oneShot
  <2>2. CASE InitializeTokens
    <3>1. \/ GivenTo("control", 1) \/ UNCHANGED token
          \/ token["control"] = Absent /\ token' = [token EXCEPT !["control"] = Partial]
      BY <2>2 DEF InitializeTokens
    <3>2. \A k \in HostSet : token[k] # Absent => token'[k] = token[k]
      BY <3>1, HostNames, CredentialsAreKept
    <3> QED
      BY <2>1, <3>2, RecordSame, ForeignKeptSame DEF StepKept, HostsKept
  <2>3. CASE InstallAgentToken
    <3>1. /\ \/ GivenTo(Agents[turn], ca) \/ UNCHANGED token
             \/ token[Agents[turn]] = Absent /\ token' = [token EXCEPT ![Agents[turn]] = Partial]
          /\ pc = "agentToken"
      BY <2>3 DEF InstallAgentToken
    <3>2. Agents[turn] \in HostSet
      BY <3>1, HostNames DEF PipelineInv, AuthorityFits, Joining
    <3>3. \A k \in HostSet : token[k] # Absent => token'[k] = token[k]
      BY <3>1, <3>2, CredentialsAreKept
    <3> QED
      BY <2>1, <3>3, RecordSame, ForeignKeptSame DEF StepKept, HostsKept
  <2> QED
    BY <1>2, <2>2, <2>3
<1>3. CASE StartServer
  <2>1. /\ UNCHANGED <<workload, memory, disk, volume, token, probe, times>>
        /\ ca # 0 => ca' = ca
    BY <1>3 DEF StartServer, journals, cluster, oneShot
  <2> QED
    BY <2>1, RecordSame, ForeignKeptSame DEF StepKept, HostsKept
<1> QED
  BY <1>1, <1>2, <1>3, MountKeeps, K3sSaveSteps DEF K3sStep

\* The steps of the deployment replace nothing.
LEMMA SocialStepsKeep ==
  ASSUME PipelineInv, SocialStep
  PROVE  StepKept
<1>1. /\ UNCHANGED <<workload, ca, token, probe, times>>
      /\ volume'.filesystem = volume.filesystem
  <2>1. CASE PrepareStorage
    <3>1. /\ UNCHANGED <<workload, ca, token, probe, times>>
          /\ volume' \in {volume, StoreReady, [volume EXCEPT !.store = "marked"]}
      BY <2>1 DEF PrepareStorage, cluster, oneShot
    <3>2. DOMAIN volume = {"filesystem", "mounted", "store"}
      BY DEF PipelineInv, VolumeFits
    <3> QED
      BY <3>1, <3>2 DEF StoreReady
  <2>2. CASE BeginWorkload \/ ReattestCluster \/ BeginPhase \/ ApplyPhase \/ AttestWorkload
    BY <2>2 DEF BeginWorkload, ReattestCluster, BeginPhase, ApplyPhase, AttestWorkload, remote,
                hosts, cluster, oneShot
  <2> QED
    BY <2>1, <2>2 DEF SocialStep
<1>2. \/ UNCHANGED <<memory, disk>>
      \/ \E reached, applied, storage, next, n : SaveWork(reached, applied, storage, next, n)
  <2>1. CASE BeginWorkload
    BY <2>1 DEF BeginWorkload, Keep, journals
  <2>2. CASE ReattestCluster
    BY <2>2 DEF ReattestCluster, journals
  <2>3. CASE PrepareStorage
    BY <2>3 DEF PrepareStorage, Keep, journals
  <2>4. CASE BeginPhase
    BY <2>4 DEF BeginPhase
  <2>5. CASE ApplyPhase
    BY <2>5 DEF ApplyPhase, Keep, journals
  <2>6. CASE AttestWorkload
    BY <2>6 DEF AttestWorkload, Keep, journals
  <2> QED
    BY <2>1, <2>2, <2>3, <2>4, <2>5, <2>6 DEF SocialStep
<1>3. RecordKept
  BY <1>2, RecordSame, WorkSavesKeep
<1> QED
  BY <1>1, <1>3, ForeignKeptSame DEF StepKept, HostsKept

\* The qualification of the paths replaces no Pod of somebody else.
LEMMA NetworkStepsKeep ==
  ASSUME PipelineInv, NetworkStep
  PROVE  StepKept
<1>1. UNCHANGED <<workload, volume, ca, token, times>>
  BY DEF NetworkStep, ReadProbePod, DeleteProbePod, ProbePaths, PositiveControl, LosePod,
         DefaultDeny, SaveEvidence, remote, hosts, oneShot
<1>2. CASE SaveEvidence
  <2> DEFINE new == [memory EXCEPT !.evidence = seen.denied]
  <2>1. /\ probe' = probe
        /\ UNCHANGED <<memory, disk>> \/ (memory.evidence = "none" /\ Save(new, "measured", 1))
    BY <1>2 DEF SaveEvidence, Keep, journals, remote, cluster
  <2>2. new.k3s = memory.k3s /\ new.stage = memory.stage
    BY DEF PipelineInv, JobsFit, IsJob
  <2> HIDE DEF new
  <2>3. RecordKept
    BY <2>1, <2>2, RecordSame, SavesKeep
  <2> QED
    BY <1>1, <2>1, <2>3, HostsKeptSame, ForeignKeptSame DEF StepKept
<1>3. CASE ReadProbePod \/ ProbePaths
  <2>1. UNCHANGED <<memory, disk, probe>>
    BY <1>3 DEF ReadProbePod, ProbePaths, journals, remote, cluster
  <2> QED
    BY <1>1, <2>1, RecordSame, HostsKeptSame, ForeignKeptSame DEF StepKept
<1>4. CASE DeleteProbePod \/ PositiveControl \/ LosePod \/ DefaultDeny
  <2>1. UNCHANGED <<memory, disk>>
    BY <1>4 DEF DeleteProbePod, PositiveControl, LosePod, DefaultDeny, journals
  <2>2. \/ probe' = probe
        \/ probe[Pod] # "foreign" /\ probe' = [probe EXCEPT ![Pod] = "none"]
        \/ probe[Pod] = "none" /\ probe' = [probe EXCEPT ![Pod] = "ours"]
    BY <1>4 DEF DeleteProbePod, PositiveControl, LosePod, DefaultDeny, Created
  <2>3. \A n \in DOMAIN probe : probe[n] = "foreign" => probe'[n] = "foreign"
    <3> DEFINE pod == Pod
    <3> HIDE DEF pod
    <3>1. \/ probe' = probe
          \/ probe[pod] # "foreign" /\ probe' = [probe EXCEPT ![pod] = "none"]
          \/ probe[pod] # "foreign" /\ probe' = [probe EXCEPT ![pod] = "ours"]
      BY <2>2 DEF pod
    <3> QED
      BY <3>1
  <2> QED
    BY <1>1, <2>1, <2>3, RecordSame, HostsKeptSame DEF StepKept, ForeignKept
<1> QED
  BY <1>2, <1>3, <1>4 DEF NetworkStep

\* The steps of Hotel and Media replace nothing.
LEMMA SupportStepsKeep ==
  ASSUME PipelineInv, SupportStep
  PROVE  /\ RecordKept /\ HostsKept /\ ForeignKept /\ workload' = workload
         /\ times' = times \/ SendOneShot
<1>1. /\ UNCHANGED <<workload, volume, ca, token, probe>>
      /\ times' = times \/ SendOneShot
  BY DEF SupportStep, BeginSupport, BeginStage, DeploySupport, StartApplications, AwaitRollout,
         SendOneShot, AwaitOneShot, SnapshotPods, CompleteSupport, remote, hosts, cluster, oneShot
<1>2. CASE BeginStage
  <2> DEFINE new == [memory EXCEPT !.stage = Stages[turn]]
  <2>1. UNCHANGED <<memory, disk>> \/ Save(new, "do", turn)
    BY <1>2 DEF BeginStage, Keep, journals
  <2>2. /\ pc = "stage" /\ turn \in 1..6 /\ StagePlace(workload, memory.stage) < turn
    BY <1>2 DEF BeginStage, PipelineInv, SupportFits, Benchmarking
  <2>3. StagePlace(workload, Stages[turn]) = turn
    BY <2>2, StagesInOrder
  <2>4. /\ new.k3s = memory.k3s /\ new.evidence = memory.evidence /\ new.stage = Stages[turn]
    BY DEF PipelineInv, JobsFit, IsJob
  <2>5. StagePlace(workload, memory.stage) \in 0..7
    BY DEF StagePlace
  <2> HIDE DEF new
  <2>6. RecordKept
    BY <2>1, <2>2, <2>3, <2>4, <2>5, RecordSame, SavesKeep
  <2> QED
    BY <1>1, <2>6, HostsKeptSame, ForeignKeptSame
<1>3. CASE CompleteSupport
  <2> DEFINE new == [memory EXCEPT !.result = TRUE, !.stage = "measurement_complete"]
  <2>1. UNCHANGED <<memory, disk>> \/ Save(new, "completed", 1)
    BY <1>3 DEF CompleteSupport, Keep, journals
  <2>2. /\ new.k3s = memory.k3s /\ new.evidence = memory.evidence
        /\ new.stage = "measurement_complete"
    BY DEF PipelineInv, JobsFit, IsJob
  <2>3. StagePlace(workload, memory.stage) <= StagePlace(workload, "measurement_complete")
    BY DEF StagePlace
  <2> HIDE DEF new
  <2>4. RecordKept
    BY <2>1, <2>2, <2>3, RecordSame, SavesKeep
  <2> QED
    BY <1>1, <2>4, HostsKeptSame, ForeignKeptSame
<1>4. CASE \/ BeginSupport \/ DeploySupport \/ StartApplications \/ AwaitRollout \/ SendOneShot
           \/ AwaitOneShot \/ SnapshotPods
  <2>1. UNCHANGED <<memory, disk>>
    BY <1>4 DEF BeginSupport, DeploySupport, StartApplications, AwaitRollout, SendOneShot,
                AwaitOneShot, SnapshotPods, journals
  <2> QED
    BY <1>1, <2>1, RecordSame, HostsKeptSame, ForeignKeptSame
<1> QED
  BY <1>2, <1>3, <1>4 DEF SupportStep

\* What others do replaces nothing while an attempt runs.
LEMMA OthersKeep ==
  ASSUME PipelineInv, Others
  PROVE  /\ disk' = disk /\ workload' = workload /\ times' = times
         /\ pc # "idle" => HostsKept
         /\ ForeignKept
<1>1. CASE Tamper
  <2>1. pc = "idle" /\ UNCHANGED <<disk, workload, times, probe>>
    BY <1>1 DEF Tamper, journals, cluster, oneShot
  <2> QED
    BY <2>1, ForeignKeptSame
<1>2. CASE ServiceStops \/ PodFails \/ PodsStart \/ PathFails \/ PathReturns \/ EffectEnds
  <2>1. UNCHANGED <<disk, workload, times, volume, ca, token, probe>>
    BY <1>2 DEF ServiceStops, PodFails, PodsStart, PathFails, PathReturns, EffectEnds, journals,
                hosts, cluster, oneShot
  <2> QED
    BY <2>1, HostsKeptSame, ForeignKeptSame
<1>3. CASE ForeignPod
  <2>1. UNCHANGED <<disk, workload, times, volume, ca, token>>
    BY <1>3 DEF ForeignPod, journals, hosts, oneShot
  <2>2. ForeignKept
    BY <1>3 DEF ForeignPod, ForeignKept, PipelineInv, PathsFit
  <2> QED
    BY <2>1, <2>2, HostsKeptSame
<1> QED
  BY <1>1, <1>2, <1>3 DEF Others

\* No step of an attempt replaces anything.
LEMMA AttemptKeeps ==
  ASSUME PipelineInv, Attempt
  PROVE  /\ RecordKept /\ HostsKept /\ ForeignKept /\ workload' = workload
         /\ times' = times \/ SendOneShot
BY BeginKeeps, K3sStepsKeep, SocialStepsKeep, NetworkStepsKeep, SupportStepsKeep
   DEF Attempt, StepKept

\* A record that is carried on in memory is carried on on disk.
LEMMA DiskKeeps ==
  ASSUME PipelineInv, RecordKept
  PROVE  /\ disk.k3s.volume # 0 => disk'.k3s.volume = disk.k3s.volume
         /\ disk.k3s.ca # 0 => disk'.k3s.ca = disk.k3s.ca
         /\ disk.evidence # "none" => disk'.evidence = disk.evidence
         /\ StagePlace(workload, disk.stage) <= StagePlace(workload, disk'.stage)
<1>1. /\ disk.k3s.volume \in {0, memory.k3s.volume} /\ disk.k3s.ca \in {0, memory.k3s.ca}
      /\ disk.evidence \in {"none", memory.evidence}
      /\ StagePlace(workload, disk.stage) <= StagePlace(workload, memory.stage)
  BY DEF PipelineInv, VolumeFits, AuthorityFits, PathsFit, SupportFits
<1>2. \A stage : StagePlace(workload, stage) \in 0..7
  BY DEF StagePlace
<1> QED
  BY <1>1, <1>2 DEF RecordKept

\* The invariant makes every step one that replaces nothing.
LEMMA NothingGoes ==
  ASSUME PipelineInv, [PipelineNext]_vars
  PROVE  [ReplacesNothing]_vars
<1>1. CASE Attempt
  BY <1>1, AttemptKeeps, DiskKeeps DEF ReplacesNothing, HostsKept, ForeignKept
<1>2. CASE Restart
  <2>1. UNCHANGED <<disk, volume, ca, token, probe>>
    BY <1>2 DEF Restart, remote, hosts, cluster
  <2> QED
    BY <2>1, HostsKeptSame, ForeignKeptSame DEF ReplacesNothing, HostsKept, ForeignKept
<1>3. CASE Others
  BY <1>3, OthersKeep DEF ReplacesNothing, HostsKept, ForeignKept
<1> QED
  BY <1>1, <1>2, <1>3 DEF PipelineNext

-------------------------------------------------------------------------------
(* The one-shot steps of Hotel and Media.                                  *)

\* The rank of a stage is its place among the stages.
LEMMA RankIsPlace ==
  ASSUME NEW stage \in StageNames
  PROVE  Rank(stage) = StagePlace(workload, stage)
<1>1. CASE stage = "none"
  BY <1>1 DEF Rank, StagePlace
<1>2. CASE stage # "none"
  <2>1. StagePlace(workload, stage) \in 1..7 /\ Stages[StagePlace(workload, stage)] = stage
    BY <1>2, StagesInOrder
  <2>2. \A i \in 1..7 : Stages[i] = stage => i = StagePlace(workload, stage)
    BY StagesInOrder
  <2>3. (CHOOSE i \in 1..7 : Stages[i] = stage) = StagePlace(workload, stage)
    BY <2>1, <2>2
  <2> QED
    BY <1>2, <2>3 DEF Rank
<1> QED
  BY <1>1, <1>2

\* A stage announces the steps whose places it has reached.
LEMMA AnnouncedBy ==
  ASSUME NEW stage \in StageNames
  PROVE  {StepOf[g] : g \in {g \in DOMAIN StepOf : Rank(g) <= Rank(stage)}} =
           {s \in OneShotStep : StepPlace(workload, s) <= StagePlace(workload, stage)}
<1>1. DOMAIN StepOf \subseteq StageNames
  BY StepsOfStages DEF StageNames
<1>2. \A g \in DOMAIN StepOf : /\ Rank(g) = StepPlace(workload, StepOf[g])
                               /\ StepOf[g] \in OneShotStep
  BY <1>1, RankIsPlace, StepsOfStages
<1>3. \A s \in OneShotStep : \E g \in DOMAIN StepOf : StepOf[g] = s
  BY StepsOfStages DEF OneShotStep
<1> QED
  BY <1>2, <1>3, RankIsPlace

\* So the announced steps are read off the stage on disk,
LEMMA AnnouncedSteps ==
  ASSUME PipelineInv
  PROVE  Announced =
           {s \in OneShotStep : StepPlace(workload, s) <= StagePlace(workload, disk.stage)}
BY AnnouncedBy DEF Announced, PipelineInv, JobsFit, IsJob

\* and after a step off the stage that was saved.
LEMMA AnnouncedLater ==
  ASSUME PipelineInv', workload' = workload
  PROVE  Announced' =
           {s \in OneShotStep : StepPlace(workload, s) <= StagePlace(workload, disk'.stage)}
<1>1. disk'.stage \in StageNames
  BY DEF PipelineInv, JobsFit, IsJob
<1>2. Announced' = {StepOf[g] : g \in {g \in DOMAIN StepOf : Rank(g) <= Rank(disk'.stage)}}
  BY DEF Announced, Rank, Stages
<1> QED
  BY <1>1, <1>2, AnnouncedBy

\* At first nothing is announced and nothing sent.
LEMMA OneShotStarts ==
  ASSUME GuestsInit
  PROVE  Once!Init
<1>1. disk.stage = "none" /\ times = [s \in OneShotStep |-> 0]
  BY DEF GuestsInit, NoJob
<1>2. StagePlace(workload, "none") = 0 /\ \A s \in OneShotStep : StepPlace(workload, s) \in 2..6
  BY StagesInOrder DEF StagePlace
<1>3. Announced = {}
  BY <1>1, <1>2, PipelineStarts, AnnouncedSteps
<1> QED
  BY <1>1, <1>3 DEF Once!Init

\* Every step announces, sends what was announced before and not yet sent, or stutters.
LEMMA OneShotSteps ==
  ASSUME PipelineInv, PipelineInv', [PipelineNext]_vars
  PROVE  [Once!Next]_<<Announced, times>>
<1>1. workload' = workload
  BY AttemptKeeps, OthersKeep DEF PipelineNext, Restart, vars
<1>2. CASE times' = times
  <2>1. StagePlace(workload, disk.stage) <= StagePlace(workload, disk'.stage)
    <3>1. \A stage : StagePlace(workload, stage) \in 0..7
      BY DEF StagePlace
    <3>2. CASE disk' = disk
      BY <3>1, <3>2
    <3>3. CASE Attempt
      BY <3>3, AttemptKeeps, DiskKeeps
    <3>4. disk' = disk \/ Attempt
      BY OthersKeep DEF PipelineNext, Restart, vars, journals
    <3> QED
      BY <3>2, <3>3, <3>4
  <2>2. \A s \in OneShotStep : StepPlace(workload, s) \in 2..6
    BY StagesInOrder
  <2>3. Announced \subseteq Announced' /\ Announced' \subseteq OneShotStep
    <3>1. \A stage : StagePlace(workload, stage) \in 0..7
      BY DEF StagePlace
    <3> QED
      BY <1>1, <2>1, <2>2, <3>1, AnnouncedSteps, AnnouncedLater
  <2> QED
    BY <1>2, <2>3 DEF Once!Next, Once!Latch
<1>3. CASE SendOneShot
  <2> DEFINE s == StepOf[Stages[turn]]
  <2>1. /\ pc = "do" /\ pc \in Benchmarking /\ Stages[turn] \in DOMAIN StepOf /\ disk' = disk
        /\ times' = [times EXCEPT ![s] = times[s] + 1]
    BY <1>3 DEF SendOneShot, Doing, journals, Benchmarking
  <2>2. /\ StagePlace(workload, disk.stage) = turn /\ disk.stage = Stages[turn]
        /\ NotSentFrom(turn)
    BY <2>1, AtStage DEF PipelineInv, SupportFits
  <2>3. s \in OneShotStep /\ StepPlace(workload, s) = turn /\ turn \in 2..6
    BY <2>1, <2>2, StepsOfStages, StagesInOrder
  <2> HIDE DEF s
  <2>4. times[s] = 0
    BY <2>2, <2>3 DEF NotSentFrom, NotSent
  <2>5. s \in Announced /\ Announced' = Announced
    BY <1>1, <2>1, <2>2, <2>3, AnnouncedSteps, AnnouncedLater
  <2>6. times' = [times EXCEPT ![s] = 1]
    BY <2>1, <2>4
  <2> QED
    BY <2>3, <2>4, <2>5, <2>6 DEF Once!Next, Once!Begin
<1>4. times' = times \/ SendOneShot
  BY AttemptKeeps, OthersKeep DEF PipelineNext, Restart, vars, remote, oneShot
<1> QED
  BY <1>2, <1>3, <1>4

-------------------------------------------------------------------------------
(* What the invariant says.                                                *)

\* The invariant says that the claims are true,
LEMMA ClaimsFollow == PipelineInv => ClaimsAreTrue
<1> SUFFICES ASSUME PipelineInv PROVE ClaimsAreTrue
  OBVIOUS
<1>1. ASSUME NEW job \in {memory, disk}
      PROVE  /\ \A i \in 1..job.k3s.prepared : guest[Hosts[i]] = {"prepared", "installed"}
             /\ \A i \in 1..job.k3s.joined : token[Agents[i]] = job.k3s.ca
             /\ \A i \in 1..job.work.applied : WorkloadPhases[i] \in objects
             /\ ~tampered => /\ job.k3s.volume \in {0, volume.filesystem}
                             /\ job.k3s.ca \in {0, ca}
                             /\ job.work.storage # 0 => volume.store = "ready"
  BY <1>1 DEF PipelineInv, HostsFit, Full, AuthorityFits, VolumeFits, WorkloadFits
<1>2. pc \in {"reattest", "store", "apply", "send", "attest"} =>
        \A job \in {memory, disk} : job.work.state # "workload_ready"
  BY PlaceSets DEF PipelineInv, JobsFit, WorkloadFits, Revisiting
<1>3. \A h \in AgentSet : token[h] > 0 => token[h] = disk.k3s.ca
  BY DEF PipelineInv, AuthorityFits
<1> QED
  BY <1>1, <1>2, <1>3 DEF ClaimsAreTrue

\* that a denied path was denied by a policy,
LEMMA DenialFollows == PipelineInv => DenialIsReal
BY DEF PipelineInv, PathsFit, DenialIsReal, Denied

\* and that a result rests on steps that finished once.
LEMMA ResultFollows == PipelineInv => SupportResultIsEvidence
<1> SUFFICES ASSUME PipelineInv PROVE SupportResultIsEvidence
  OBVIOUS
<1>1. disk.result <=> disk.stage = "measurement_complete"
  BY DEF PipelineInv, SupportFits
<1>2. ASSUME memory.result
      PROVE  /\ effect["warmup"] \in {"none", "finished"}
             /\ \A s \in OneShotStep \ {"warmup"} : effect[s] = "finished" /\ times[s] = 1
  <2>1. /\ DoneBefore(7) /\ "warmup" \in OneShotStep
        /\ \A s \in OneShotStep : StepPlace(workload, s) \in 2..6
    BY <1>2, StagesInOrder DEF PipelineInv, SupportFits, OneShotStep
  <2> QED
    BY <2>1 DEF DoneBefore, Done, NotSent
<1> QED
  BY <1>1, <1>2 DEF SupportResultIsEvidence

-------------------------------------------------------------------------------
(* The theorems.                                                           *)

\* Whatever program runs, the part of it that is seen here is a step of PipelineNext.
LEMMA DistributedAlone ==
  ASSUME [RunNext]_run
  PROVE  [PipelineNext]_vars
BY DEF RunNext, Work, Awaited, Passing, Later, Distributed, CompactRun, Candidate, Operator, run,
       Others, PipelineNext

\* The invariant of the distributed run, at every step of every program.
THEOREM PipelineInvHolds == RunSpec => []PipelineInv
<1>1. RunInit => PipelineInv
  BY PipelineStarts DEF RunInit
<1>2. PipelineInv /\ [RunNext]_run => PipelineInv'
  BY DistributedAlone, PipelineStays
<1>3. QED
  BY <1>1, <1>2, PTL DEF RunSpec

\* Whatever a journal of the distributed run says was done has been done, in memory
\* and in state.json, after any failures, restarts and repeated attempts; and no
\* agent holds a credential of an authority that is not on disk.
THEOREM ClaimsStayTrue == RunSpec => []ClaimsAreTrue
<1>1. QED
  BY ClaimsFollow, PipelineInvHolds, PTL

\* Evidence that a policy cuts a path off comes from a policy that is in force, unless
\* a whole outage lay between the two positive controls; and no probe Pod is left.
THEOREM DenialsAreReal == RunSpec => []DenialIsReal
<1>1. QED
  BY DenialFollows, PipelineInvHolds, PTL

\* A result of Hotel or Media is on disk exactly with the last stage, and every step
\* it rests on was sent once and finished.
THEOREM SupportResultsAreEvidence == RunSpec => []SupportResultIsEvidence
<1>1. QED
  BY ResultFollows, PipelineInvHolds, PTL

\* No program writes over a file system of others, and no attempt of the distributed
\* run replaces a file system, an authority, a credential, evidence or a Pod that is on
\* record or that it finds.
THEOREM NothingIsEverLost == RunSpec => NothingIsLost
<1>1. PipelineInv /\ [RunNext]_run => [ReplacesNothing]_vars
  BY DistributedAlone, NothingGoes
<1>2. RunSpec => NothingIsReplaced
  BY <1>1, PipelineInvHolds, PTL DEF RunSpec, NothingIsReplaced
<1>3. QED
  BY <1>2, NothingIsFormattedAway DEF NothingIsLost

\* The one-shot steps of a public run, of a candidate and of a qualification are each
\* sent at most once, after their latch is on disk, over all attempts and processes.
THEOREM OneShotsAreSentOnce == RunSpec => OneShotsAreKept
<1>1. RunInit => Once!Init
  BY OneShotStarts DEF RunInit
<1>2. PipelineInv /\ PipelineInv' /\ [RunNext]_run => [Once!Next]_<<Announced, times>>
  BY DistributedAlone, OneShotSteps
<1>3. RunSpec => ImplementsOneShot
  BY <1>1, <1>2, PipelineInvHolds, PTL DEF RunSpec, ImplementsOneShot, Once!Spec
<1>4. QED
  BY <1>3, InitializationIsOneShot, QualificationSendsOnce DEF OneShotsAreKept
===============================================================================
