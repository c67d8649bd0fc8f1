-------------------------- MODULE RunBenchmarksProofs --------------------------
(***************************************************************************)
(* TLAPS proofs about the programs of RunBenchmarks, for any plans and any *)
(* number of failures.  The compact run: SuiteInv says for each place of   *)
(* the runner which disks, scripts, rows, failures and servers there are   *)
(* (StorageFits, RunnerFits, RowsFit, FailuresFit, StopFits, ServerFits);  *)
(* WorkFits is what every step of a benchmark has to show.                 *)
(* The candidate run: CandidateInv says for each place of its process what *)
(* the two copies of the job (the one in memory and state.json), the       *)
(* journal of Hotel, the phases of the support stage and the directories   *)
(* of the databases have to do with each other and with the cloud.         *)
(* The qualification of a provider: QualificationInv says for each point   *)
(* of its process what the job in memory, state.json, the machines of the  *)
(* provider, the steps that were sent, the evidence of an interruption and *)
(* the exit status have to do with each other.                             *)
(***************************************************************************)
EXTENDS RunBenchmarks, TLAPS


-------------------------------------------------------------------------------
(* The compact run: disks, and scripts on them.                            *)

DiskState == [content : Content, mount : {"none", "elsewhere", "/benchmark-local", "/data"}]
ScriptPlace ==
  {"look", "format", "place", "mount", "describe", "ok", "failed", "fallback", "described"}
Scripts == [disk : Disk, at : ScriptPlace]
Ready(d) == [content |-> "xfs", mount |-> MountPoint(d)]

\* The volume is new and nobody else's.
DisksFit ==
  /\ disks \in [Disk -> DiskState]
  /\ disks["data"].mount \in {"none", "/data"}
  /\ disks["data"].content \in (IF plan.volume THEN {"blank", "xfs"} ELSE {"absent"})

\* Where the runner stands tells of its script, and of those left behind.
ScriptsFit ==
  /\ leftovers \subseteq Scripts /\ \A s \in leftovers : Busy(s)
  /\ script = NoScript \/ script \in Scripts
  /\ \A s \in leftovers \cup {script} : s.disk = "data" => plan.volume
  /\ place \notin {"local", "mount", "describe"} => script = NoScript
  /\ place = "local" =>
       /\ script \in Scripts /\ script.disk = "local"
       /\ script.at \in {"look", "format", "mount", "ok", "failed", "fallback"}
       /\ script.at = "mount" => disks["local"].content = "xfs"
       /\ script.at = "ok" => disks["local"] = Ready("local")
  /\ place \in {"mount", "describe"} =>
       /\ script \in Scripts /\ script.disk = "data"
       /\ \A s \in leftovers : s.disk = "data"
  /\ place = "mount" => script.at \notin {"describe", "described"}
  /\ script.at = "described" => disks["data"] = Ready("data")

\* The target is on record once the runner is past the storage step, and is what
\* the record says; scripts that could still touch it find it mounted.
TargetFits ==
  /\ target \in Disk \cup {"none"}
  /\ target = "local" => disks["local"] = Ready("local") /\ leftovers = {}
  /\ target = "data" => disks["data"] = Ready("data") /\ \A s \in leftovers : s.disk = "data"
  /\ place = "prepare" /\ item <= 5 => target = "none" /\ leftovers = {}
  /\ place = "local" => target = "none" /\ leftovers = {}
  /\ place \in {"mount", "describe"} => target = "none"
  /\ "core" \in plan.benchmarks /\ (bench > 0 \/ (place = "prepare" /\ item > 5)) =>
       target \in Disk

StorageFits == DisksFit /\ ScriptsFit /\ TargetFits

\* Places of the runner.
SuitePlace ==
  {"idle", "prepare", "local", "mount", "describe", "measure", "pts", "addresses", "service",
   "client", "target", "probe", "mode", "handler", "finally", "stack", "dataset", "end",
   "returned", "failed", "stopped"}

RunnerFits ==
  /\ place \in SuitePlace
  /\ bench \in 0..7 /\ item \in 1..6
  /\ place = "idle" \/ plan \in Plans
  /\ place \in {"idle", "prepare", "local", "mount", "describe"} => bench = 0
  /\ place \in {"local", "mount", "describe"} => item = 5
  /\ bench > 0 => Current \in plan.benchmarks
  /\ place \in {"measure", "mode"} => Current \in Compact /\ item <= Len(Results[Current])
  /\ place \in {"end", "returned"} =>
       \A i \in 1..7 : i > bench => Order(plan.provider)[i] \notin plan.benchmarks

\* The last benchmark that is behind.
Behind == IF place \in {"end", "returned"} THEN bench ELSE bench - 1

\* What is behind has rows, and what comes at the end of one has them too.
RowsFit ==
  /\ rows \in [ResultIds -> SUBSET {"completed", "failed"}]
  /\ \A i \in 1..Behind :
       Order(plan.provider)[i] \in plan.benchmarks =>
         \A r \in RowsOf(Order(plan.provider)[i]) : rows[r] # {}
  /\ place \in {"measure", "mode"} =>
       \A i \in 1..(item - 1) : rows[Results[Current][i]] # {}
  /\ place = "finally" /\ raised = "none" => \A r \in RowsOf(Current) : rows[r] # {}

\* A failed row is raised, now or at the end, and comes from a failure.
FailuresFit ==
  /\ mishaps \in Nat
  /\ deferred \in BOOLEAN
  /\ raised \in {"none", "error", "stop"}
  /\ "failed" \in Statuses => (deferred \/ place = "failed") /\ mishaps > 0
  /\ place = "handler" => mishaps > 0
  /\ place = "returned" => ~deferred

\* What was decided when the stop was asked for stays so.
StopFits ==
  /\ stopAsked \in BOOLEAN /\ interrupted \in BOOLEAN
  /\ interrupted =>
       stopAsked /\ ("failed" \in Statuses \/ \E r \in Expected : "completed" \notin rows[r])
  /\ stopAsked /\ ~interrupted =>
       "failed" \in Statuses \/ (Statuses # {} /\ \A r \in Expected : "completed" \in rows[r])
  /\ place = "stopped" \/ raised = "stop" => stopAsked

\* A server that serves beside a DeathStarBench that is still to come is known to
\* the runner, or lost.
ServerFits ==
  /\ place \in {"client", "target", "probe", "mode"} => "installed" \in local
  /\ place \in {"addresses", "service"} => local = {}
  /\ "deathstarbench" \in plan.benchmarks /\ httpd = "serving" =>
       \/ stopLost
       \/ place \in {"probe", "mode", "handler", "finally"} /\ "installed" \in local
       \/ place \in {"failed", "stopped"}

SuiteInv ==
  StorageFits /\ RunnerFits /\ RowsFit /\ FailuresFit /\ StopFits /\ ServerFits

-------------------------------------------------------------------------------
(* The order of the benchmarks and the rows they owe.                      *)

LEMMA LeastOf ==
  ASSUME NEW S, S \subseteq 1..7, S # {}
  PROVE  Min(S) \in S /\ \A y \in S : Min(S) <= y
<1>1. \E x \in S : \A y \in S : x <= y
  <2>1. CASE 1 \in S
    BY <2>1
  <2>2. CASE 1 \notin S /\ 2 \in S
    BY <2>2
  <2>3. CASE 1 \notin S /\ 2 \notin S /\ 3 \in S
    BY <2>3
  <2>4. CASE 1 \notin S /\ 2 \notin S /\ 3 \notin S /\ 4 \in S
    BY <2>4
  <2>5. CASE 1 \notin S /\ 2 \notin S /\ 3 \notin S /\ 4 \notin S /\ 5 \in S
    BY <2>5
  <2>6. CASE S \cap (1..5) = {} /\ 6 \in S
    BY <2>6
  <2>7. CASE S \cap (1..6) = {}
    <3>1. \A y \in S : y = 7
      <4>1. TAKE y \in S
      <4>2. y \in 1..7 /\ y \notin 1..6
        BY <2>7
      <4>3. QED
        BY <4>2
    <3>2. PICK x \in S : TRUE
      OBVIOUS
    <3>3. \A y \in S : x <= y
      BY <3>1
    <3>4. QED
      BY <3>3
  <2>8. QED
    BY <2>1, <2>2, <2>3, <2>4, <2>5, <2>6, <2>7
<1>2. QED
  BY <1>1 DEF Min

LEMMA Orders ==
  ASSUME NEW p
  PROVE  /\ Len(Order(p)) = 7
         /\ \A i \in 1..7 : Order(p)[i] \in Compact
         /\ \A b \in Compact : \E i \in 1..7 : Order(p)[i] = b
<1>1. CASE p = "oci"
  BY <1>1 DEF Order, Compact
<1>2. CASE p # "oci"
  BY <1>2 DEF Order, Compact
<1>3. QED
  BY <1>1, <1>2

LEMMA RowLists ==
  /\ Results["core"] = <<"sysbench_cpu", "fio">> /\ Results["network"] = <<"iperf_tcp">>
  /\ Results["phoronix"] = <<"compress_7zip", "openssl">> /\ Results["llama"] = <<"llama_bench">>
  /\ Results["apachebench"] = <<"ab_new_connections", "ab_keep_alive">>
  /\ Results["hey"] = <<"hey_keep_alive">> /\ Results["deathstarbench"] = <<"deathstarbench">>
BY DEF Results

LEMMA RowLengths ==
  ASSUME NEW b \in Compact
  PROVE  /\ Len(Results[b]) \in 1..2
         /\ RowsOf(b) # {} /\ RowsOf(b) \subseteq ResultIds
         /\ \A i \in 1..Len(Results[b]) : Results[b][i] \in RowsOf(b)
         /\ \A r \in RowsOf(b) : \E i \in 1..Len(Results[b]) : r = Results[b][i]
<1>1. Len(Results[b]) \in 1..2
  BY RowLists DEF Compact
<1>2. RowsOf(b) \subseteq ResultIds
  BY DEF ResultIds
<1>3. \A i \in 1..Len(Results[b]) : Results[b][i] \in RowsOf(b)
  BY DEF RowsOf
<1>4. \A r \in RowsOf(b) : \E i \in 1..Len(Results[b]) : r = Results[b][i]
  BY DEF RowsOf
<1>5. Results[b][1] \in RowsOf(b)
  BY <1>1, <1>3
<1>6. QED
  BY <1>1, <1>2, <1>3, <1>4, <1>5

\* Only the core benchmarks have a row of fio, only DeathStarBench its own.
LEMMA RowsTell ==
  ASSUME NEW b \in Compact, NEW i \in 1..Len(Results[b])
  PROVE  /\ Results[b][i] = "fio" => b = "core"
         /\ Results[b][i] = "deathstarbench" => b = "deathstarbench"
BY RowLists DEF Compact

LEMMA Currents ==
  ASSUME bench \in 0..7
  PROVE  /\ bench = 0 => Current = "none"
         /\ bench > 0 => Current = Order(plan.provider)[bench] /\ Current \in Compact
         /\ "none" \notin Compact
BY Orders DEF Current, Compact

-------------------------------------------------------------------------------
(* How the runner goes on.                                                 *)

\* The next benchmark is one that was selected, and none is left out.
LEMMA NextSelected ==
  ASSUME RunnerFits, plan \in Plans, NextBenchmark, plan' = plan
  PROVE  /\ place' \in {"end", "pts", "addresses", "stack", "measure"}
         /\ item' = 1 /\ local' = {} /\ raised' = "none"
         /\ place' = "end" =>
              /\ bench' = bench
              /\ \A i \in 1..7 : i > bench => Order(plan.provider)[i] \notin plan.benchmarks
         /\ place' # "end" =>
              /\ bench' \in 1..7 /\ bench' > bench
              /\ Order(plan.provider)[bench'] \in plan.benchmarks
              /\ \A i \in 1..7 : i > bench /\ i < bench' =>
                   Order(plan.provider)[i] \notin plan.benchmarks
<1> DEFINE order == Order(plan.provider)
           rest == {i \in bench + 1 .. Len(order) : order[i] \in plan.benchmarks}
<1>1. Len(order) = 7
  BY Orders
<1>2. rest \subseteq 1..7 /\ \A i \in 1..7 : i > bench /\ order[i] \in plan.benchmarks => i \in rest
  BY <1>1 DEF RunnerFits
<1>3. item' = 1 /\ local' = {} /\ raised' = "none"
  BY DEF NextBenchmark
<1>4. CASE rest = {}
  <2>1. place' = "end" /\ bench' = bench
    BY <1>4 DEF NextBenchmark
  <2>2. QED
    BY <1>2, <1>3, <1>4, <2>1
<1>5. CASE rest # {}
  <2>1. place' = Entry(order[Min(rest)]) /\ bench' = Min(rest)
    BY <1>5 DEF NextBenchmark
  <2>2. Min(rest) \in rest /\ \A y \in rest : Min(rest) <= y
    BY <1>2, <1>5, LeastOf
  <2>3. place' \in {"pts", "addresses", "stack", "measure"}
    BY <2>1 DEF Entry
  <2>4. \A i \in 1..7 : i > bench /\ i < bench' => order[i] \notin plan.benchmarks
    BY <1>2, <2>1, <2>2 DEF RunnerFits
  <2>5. QED
    BY <1>2, <1>3, <2>1, <2>2, <2>3, <2>4 DEF RunnerFits
<1>6. QED
  BY <1>4, <1>5

\* A step of the preparation is followed by another that is wanted, or by the first
\* benchmark; the storage step is not passed over when a core benchmark needs it.
LEMMA NextPrepared ==
  ASSUME item \in 1..6, StepDone
  PROVE  \/ NextBenchmark /\ ("core" \in plan.benchmarks => item >= 5)
         \/ \E k \in 1..6 :
              /\ k > item /\ GoTo("prepare", k)
              /\ "core" \in plan.benchmarks /\ k > 5 => item >= 5
<1> DEFINE rest == {i \in item + 1 .. Len(Preparation) : Wanted(Preparation[i])}
<1>1. Len(Preparation) = 6 /\ Preparation[5] = "storage"
  BY DEF Preparation
<1>2. "core" \in plan.benchmarks /\ item < 5 => 5 \in rest
  BY <1>1 DEF Wanted
<1>3. CASE rest = {}
  BY <1>2, <1>3 DEF StepDone
<1>4. CASE rest # {}
  <2>1. rest \subseteq 1..7
    BY <1>1
  <2>2. Min(rest) \in rest /\ \A y \in rest : Min(rest) <= y
    BY <1>4, <2>1, LeastOf
  <2>3. GoTo("prepare", Min(rest))
    BY <1>4 DEF StepDone
  <2>4. Min(rest) \in 1..6 /\ Min(rest) > item
    BY <1>1, <2>2
  <2>5. QED
    BY <1>2, <2>2, <2>3, <2>4
<1>5. QED
  BY <1>3, <1>4

-------------------------------------------------------------------------------
(* The storage target.                                                     *)

\* What a step of a script does.
LEMMA DisksTyped ==
  ASSUME DisksFit
  PROVE  /\ \A d \in Disk : disks[d] \in DiskState
         /\ disks.local = disks["local"] /\ disks.data = disks["data"]
         /\ MountPoint("local") = "/benchmark-local" /\ MountPoint("data") = "/data"
BY DEF DisksFit, MountPoint, Disk

\* A disk that is mounted stays as it is, whatever script is at work on it.
LEMMA MountedStays ==
  ASSUME NEW s, s.disk \in Disk, disks[s.disk].mount # "none"
  PROVE  DisksAfter(s) = disks
BY DEF DisksAfter, Accepts

\* A script makes a file system on a blank disk, or on the volume of the run, or
\* mounts a disk; it leaves the other disk alone.
LEMMA ScriptChanges ==
  ASSUME DisksFit, NEW s \in Scripts, s.disk = "data" => plan.volume
  PROVE  /\ DisksAfter(s) \in [Disk -> DiskState]
         /\ \A d \in Disk : d # s.disk => DisksAfter(s)[d] = disks[d]
         /\ DisksAfter(s)["data"].mount \in {"none", "/data"}
         /\ DisksAfter(s)["data"].content \in (IF plan.volume THEN {"blank", "xfs"} ELSE {"absent"})
         /\ DisksAfter(s)[s.disk].content \in {disks[s.disk].content, "xfs"}
         /\ DisksAfter(s)[s.disk].content # disks[s.disk].content =>
              /\ DisksAfter(s)[s.disk].content = "xfs"
              /\ disks[s.disk] = [content |-> "blank", mount |-> "none"]
<1> DEFINE d == s.disk
           new == DisksAfter(s)
<1>1. d \in Disk /\ disks[d] \in DiskState
  BY DisksTyped DEF Scripts
<1>2. CASE s.at = "format" /\ Accepts(s)
  <2>1. new = [disks EXCEPT ![d].content = "xfs"]
    BY <1>2 DEF DisksAfter
  <2>2. new[d] = [disks[d] EXCEPT !.content = "xfs"] /\ \A e \in Disk : e # d => new[e] = disks[e]
    BY <1>1, <2>1 DEF DisksFit
  <2>3. new[d].content = "xfs" /\ new[d].mount = disks[d].mount /\ new[d] \in DiskState
    BY <1>1, <2>2 DEF DiskState, Content
  <2>4. d = "data" => plan.volume /\ disks[d].content \in {"blank", "xfs"}
    BY DEF DisksFit
  <2>5. disks[d].content # "xfs" => disks[d].content = "blank" /\ disks[d].mount = "none"
    BY <1>2, <2>4 DEF Accepts, Forced
  <2>6. disks[d].content # "xfs" => disks[d] = [content |-> "blank", mount |-> "none"]
    BY <1>1, <2>5 DEF DiskState
  <2>7. new \in [Disk -> DiskState]
    BY <2>1, <2>2, <2>3 DEF DisksFit
  <2>8. QED
    BY <1>1, <2>2, <2>3, <2>4, <2>6, <2>7 DEF DisksFit, Disk
<1>3. CASE s.at = "mount" /\ disks[d].mount = "none"
  <2>1. new = [disks EXCEPT ![d].mount = MountPoint(d)]
    BY <1>3 DEF DisksAfter
  <2>2. new[d] = [disks[d] EXCEPT !.mount = MountPoint(d)] /\ \A e \in Disk : e # d => new[e] = disks[e]
    BY <1>1, <2>1 DEF DisksFit
  <2>3. new[d].mount = MountPoint(d) /\ new[d].content = disks[d].content /\ new[d] \in DiskState
    BY <1>1, <2>2 DEF DiskState, MountPoint
  <2>4. new \in [Disk -> DiskState]
    BY <2>1, <2>2, <2>3 DEF DisksFit
  <2>5. QED
    BY <1>1, <2>2, <2>3, <2>4 DEF DisksFit, Disk, MountPoint
<1>4. CASE ~(s.at = "format" /\ Accepts(s)) /\ ~(s.at = "mount" /\ disks[d].mount = "none")
  <2>1. new = disks
    BY <1>4 DEF DisksAfter
  <2>2. QED
    BY <1>1, <2>1 DEF DisksFit
<1>5. QED
  BY <1>2, <1>3, <1>4

\* A script goes on to a place of its own.
LEMMA ScriptGoesOn ==
  ASSUME DisksFit, NEW s \in Scripts, Busy(s), plan \in Plans, s.disk = "data" => plan.volume
  PROVE  /\ After(s) \in ScriptPlace
         /\ s.at # "describe" => After(s) \notin {"describe", "described"}
         /\ s.at = "describe" => After(s) \in {"described", "failed"}
         /\ After(s) = "described" => disks["data"] = Ready("data")
<1>1. disks["data"] \in DiskState /\ disks.data = disks["data"]
  BY DisksTyped DEF Disk
<1>2. CASE s.at = "look" /\ s.disk = "local"
  <2>1. After(s) = LookAtLocal
    BY <1>2 DEF After
  <2>2. QED
    BY <1>2, <2>1 DEF LookAtLocal, ScriptPlace
<1>3. CASE s.at = "look" /\ s.disk # "local"
  <2>1. After(s) = LookAtData /\ s.disk = "data"
    BY <1>3 DEF After, Scripts, Disk
  <2>2. disks.data.mount \in {"none", "/data"} /\ disks.data.content \in {"blank", "xfs"}
    BY <2>1 DEF DisksFit
  <2>3. plan.provider \in {"oci", "aws", "gcp", "azure"}
    BY PlansAreValid
  <2>4. LookAtAws \in {"ok", "format", "mount", "failed"}
    BY DEF LookAtAws
  <2>5. LookAtOci \in {"ok", "format", "mount", "failed"}
    <3>1. InPlace("data") \/ disks.data.mount = "none"
      BY <2>2 DEF InPlace, MountPoint
    <3>2. disks.data.mount = "none" =>
            disks.data \in {[content |-> "blank", mount |-> "none"], [content |-> "xfs", mount |-> "none"]}
      BY <1>1, <2>2 DEF DiskState
    <3>3. QED
      BY <2>2, <3>1, <3>2 DEF LookAtOci
  <2>6. LookAtGcp \in {"format", "place", "failed"}
    BY DEF LookAtGcp
  <2>7. LookAtData \in {"ok", "format", "mount", "failed", "place"}
    BY <2>3, <2>4, <2>5, <2>6 DEF LookAtData, LookAtAzure
  <2>8. QED
    BY <1>3, <2>1, <2>7 DEF ScriptPlace
<1>4. CASE s.at = "format"
  BY <1>4 DEF After, ScriptPlace
<1>5. CASE s.at \in {"place", "mount"}
  BY <1>5 DEF After, ScriptPlace
<1>6. CASE s.at = "describe"
  <2>1. After(s) = IF disks["data"].mount = "/data" /\ disks["data"].content = "xfs"
                   THEN "described" ELSE "failed"
    BY <1>1, <1>6 DEF After, Describe, InPlace, MountPoint
  <2>2. QED
    BY <1>1, <1>6, <2>1 DEF ScriptPlace, Ready, MountPoint, DiskState
<1>7. QED
  BY <1>2, <1>3, <1>4, <1>5, <1>6 DEF Busy

\* A script of the runner or one left behind, and the agent of the image.
LEMMA ScriptsKeepStorage ==
  ASSUME StorageFits, RunnerFits, Guest(RunScript)
  PROVE  StorageFits'
<1> DEFINE d == script.disk
<1>1. /\ UNCHANGED <<plan, leftovers, target, bench, place, item>>
      /\ disks' = DisksAfter(script) /\ Busy(script)
      /\ script' = [script EXCEPT !.at = After(script)]
  BY DEF Guest, RunScript, runner
<1>2. script \in Scripts /\ place \in {"local", "mount", "describe"} /\ plan \in Plans
  BY <1>1 DEF StorageFits, ScriptsFit, NoScript, Busy, RunnerFits
<1>3. DisksFit /\ (d = "data" => plan.volume)
  BY DEF StorageFits, ScriptsFit
<1>4. /\ script' \in Scripts /\ script'.disk = d /\ script'.at = After(script)
      /\ script.at # "describe" => script'.at \notin {"describe", "described"}
      /\ script.at = "describe" => script'.at \in {"described", "failed"}
      /\ script'.at = "described" => disks["data"] = Ready("data")
  BY <1>1, <1>2, <1>3, ScriptGoesOn DEF Scripts
<1>5. DisksFit'
  BY <1>1, <1>2, <1>3, ScriptChanges DEF DisksFit
<1>6. \A e \in Disk : disks[e].mount # "none" => disks'[e] = disks[e]
  BY <1>1, <1>2, <1>3, ScriptChanges, MountedStays DEF Scripts
<1>7. \A e \in Disk : disks[e] = Ready(e) => disks'[e] = Ready(e)
  BY <1>6 DEF Ready, MountPoint, Disk
<1>8. TargetFits'
  BY <1>1, <1>7 DEF StorageFits, TargetFits, Disk, Ready, MountPoint
<1>9. place = "local" =>
        /\ script'.at \in {"look", "format", "mount", "ok", "failed", "fallback"}
        /\ script'.at = "mount" => disks'["local"].content = "xfs"
        /\ script'.at = "ok" => disks'["local"] = Ready("local")
  <2> SUFFICES ASSUME place = "local"
               PROVE  /\ script'.at \in {"look", "format", "mount", "ok", "failed", "fallback"}
                      /\ script'.at = "mount" => disks'["local"].content = "xfs"
                      /\ script'.at = "ok" => disks'["local"] = Ready("local")
    OBVIOUS
  <2>1. /\ d = "local" /\ script.at \in {"look", "format", "mount"}
        /\ script.at = "mount" => disks["local"].content = "xfs"
    BY <1>1 DEF StorageFits, ScriptsFit, Busy
  <2>2. disks["local"] \in DiskState /\ disks.local = disks["local"]
    BY <1>3, DisksTyped DEF Disk
  <2>3. CASE script.at = "look"
    BY <1>4, <2>1, <2>3 DEF After, LookAtLocal
  <2>4. CASE script.at = "format"
    <3>1. After(script) = IF Accepts(script) THEN "mount" ELSE "failed"
      BY <2>1, <2>4 DEF After, Rocky
    <3>2. Accepts(script) => disks' = [disks EXCEPT !["local"].content = "xfs"]
      BY <1>1, <2>1, <2>4 DEF DisksAfter
    <3>3. Accepts(script) => disks'["local"].content = "xfs"
      BY <1>3, <2>2, <3>2 DEF DisksFit, Disk, DiskState
    <3>4. QED
      BY <1>4, <2>1, <3>1, <3>3
  <2>5. CASE script.at = "mount"
    <3>1. After(script) = IF disks["local"].mount = "none" THEN "ok" ELSE "failed"
      BY <2>1, <2>5 DEF After
    <3>2. disks["local"].mount = "none" =>
            disks' = [disks EXCEPT !["local"].mount = MountPoint("local")]
      BY <1>1, <2>1, <2>5 DEF DisksAfter
    <3>3. disks["local"].mount = "none" => disks'["local"] = Ready("local")
      BY <1>3, <2>1, <2>2, <2>5, <3>2 DEF DisksFit, Disk, DiskState, Ready
    <3>4. QED
      BY <1>4, <2>1, <2>5, <3>1, <3>3
  <2>6. QED
    BY <2>1, <2>3, <2>4, <2>5
<1>10. place = "mount" => script'.at # "described"
  <2>1. place = "mount" => script.at \notin {"describe", "described"}
    BY DEF StorageFits, ScriptsFit
  <2>2. QED
    BY <1>4, <2>1
<1>11. ScriptsFit'
  BY <1>1, <1>2, <1>3, <1>4, <1>7, <1>9, <1>10 DEF StorageFits, ScriptsFit, Disk, Ready, MountPoint
<1>12. QED
  BY <1>5, <1>8, <1>11 DEF StorageFits

LEMMA LeftoversKeepStorage ==
  ASSUME StorageFits, RunnerFits, Guest(RunLeftover)
  PROVE  StorageFits'
<1>1. PICK s \in leftovers :
        /\ disks' = DisksAfter(s)
        /\ leftovers' = (leftovers \ {s}) \cup
             (IF Busy([s EXCEPT !.at = After(s)]) THEN {[s EXCEPT !.at = After(s)]} ELSE {})
  BY DEF Guest, RunLeftover
<1>2. UNCHANGED <<plan, script, target, bench, place, item>>
  BY DEF Guest, RunLeftover, runner
<1>3. s \in Scripts /\ Busy(s) /\ DisksFit /\ (s.disk = "data" => plan.volume)
  BY DEF StorageFits, ScriptsFit
<1>4. place # "local" /\ (place = "prepare" => item > 5) /\ target # "local" /\ plan \in Plans
  BY DEF Guest, Running, StorageFits, TargetFits, RunnerFits
<1>5. \A t \in leftovers' : t \in Scripts /\ Busy(t) /\ (t \in leftovers \/ t.disk = s.disk)
  <2>1. [s EXCEPT !.at = After(s)] \in Scripts /\ [s EXCEPT !.at = After(s)].disk = s.disk
    BY <1>3, <1>4, ScriptGoesOn DEF Scripts
  <2>2. QED
    BY <1>1, <1>3, <2>1 DEF StorageFits, ScriptsFit
<1>6. DisksFit'
  BY <1>1, <1>2, <1>3, ScriptChanges DEF DisksFit
<1>7. \A e \in Disk : disks[e].mount # "none" => disks'[e] = disks[e]
  BY <1>1, <1>3, ScriptChanges, MountedStays DEF Scripts
<1>8. disks["data"] = Ready("data") => disks'["data"] = Ready("data")
  BY <1>7 DEF Ready, MountPoint, Disk
<1>9. TargetFits'
  BY <1>2, <1>4, <1>5, <1>8 DEF StorageFits, TargetFits
<1>10. ScriptsFit'
  BY <1>2, <1>3, <1>4, <1>5, <1>8 DEF StorageFits, ScriptsFit
<1>11. QED
  BY <1>6, <1>9, <1>10 DEF StorageFits

LEMMA AgentKeepsStorage ==
  ASSUME StorageFits, RunnerFits, Guest(Agent)
  PROVE  StorageFits'
<1>1. /\ UNCHANGED <<plan, script, leftovers, target, bench, place, item>>
      /\ place = "local"
      /\ disks.local = [content |-> "blank", mount |-> "none"]
      /\ disks' = [disks EXCEPT !.local = [content |-> "foreign", mount |-> "elsewhere"]]
  BY DEF Guest, Agent, AgentTakesLocal, runner
<1>2. disks["local"].content # "xfs" /\ disks["local"] # Ready("local")
  BY <1>1, DisksTyped DEF StorageFits, Ready
<1>3. disks'["data"] = disks["data"]
  BY <1>1, DisksTyped DEF StorageFits, DisksFit, Disk
<1>4. DisksFit'
  <2>1. disks' = [disks EXCEPT !["local"] = [content |-> "foreign", mount |-> "elsewhere"]]
    BY <1>1
  <2>2. [content |-> "foreign", mount |-> "elsewhere"] \in DiskState
    BY DEF DiskState, Content
  <2>3. disks' \in [Disk -> DiskState]
    BY <2>1, <2>2 DEF StorageFits, DisksFit, Disk
  <2>4. QED
    BY <1>1, <1>3, <2>3 DEF StorageFits, DisksFit
<1>5. TargetFits'
  BY <1>1, <1>3 DEF StorageFits, TargetFits
<1>6. ScriptsFit'
  BY <1>1, <1>2, <1>3 DEF StorageFits, ScriptsFit
<1>7. QED
  BY <1>4, <1>5, <1>6 DEF StorageFits

\* Steps that leave the disks alone.
LEMMA StorageRests ==
  ASSUME StorageFits, UNCHANGED <<plan, guestDisks>>,
         place \notin {"local", "mount", "describe"}, place' \notin {"local", "mount", "describe"},
         place' = "prepare" /\ item' <= 5 => place = "prepare" /\ item <= 5,
         "core" \in plan.benchmarks /\ (bench' > 0 \/ (place' = "prepare" /\ item' > 5)) =>
           bench > 0 \/ (place = "prepare" /\ item > 5)
  PROVE  StorageFits'
<1>1. UNCHANGED <<plan, disks, script, leftovers, target>>
  BY DEF guestDisks
<1>2. DisksFit'
  BY <1>1 DEF StorageFits, DisksFit
<1>3. ScriptsFit'
  <2>1. script = NoScript
    BY DEF StorageFits, ScriptsFit
  <2>2. script' = NoScript /\ NoScript.at = "none" /\ NoScript.disk = "none"
    BY <1>1, <2>1 DEF NoScript
  <2>3. QED
    BY <1>1, <2>2 DEF StorageFits, ScriptsFit
<1>4. TargetFits'
  BY <1>1 DEF StorageFits, TargetFits
<1>5. QED
  BY <1>2, <1>3, <1>4 DEF StorageFits

\* Rows are only added to.
RowsGrow ==
  /\ rows' \in [ResultIds -> SUBSET {"completed", "failed"}]
  /\ \A r \in ResultIds : rows[r] \subseteq rows'[r]

LEMMA StatusOf == \A s : s \in Statuses <=> \E r \in ResultIds : s \in rows[r]
BY DEF Statuses

\* A benchmark is over and has its rows: the next one begins.
LEMMA NextFits ==
  ASSUME RunnerFits, RowsFit, plan \in Plans, NextBenchmark, plan' = plan, RowsGrow,
         place \notin {"idle", "end", "returned"},
         bench > 0 => \A r \in RowsOf(Current) : rows'[r] # {}
  PROVE  /\ RunnerFits' /\ RowsFit'
         /\ place' \in {"end", "pts", "addresses", "stack", "measure"}
         /\ item' = 1 /\ local' = {} /\ raised' = "none"
         /\ bench' > 0 => place' # "end" \/ bench > 0
<1> DEFINE order == Order(plan.provider)
<1>1. /\ place' \in {"end", "pts", "addresses", "stack", "measure"}
      /\ item' = 1 /\ local' = {} /\ raised' = "none"
      /\ place' = "end" =>
           /\ bench' = bench
           /\ \A i \in 1..7 : i > bench => order[i] \notin plan.benchmarks
      /\ place' # "end" =>
           /\ bench' \in 1..7 /\ bench' > bench
           /\ order[bench'] \in plan.benchmarks
           /\ \A i \in 1..7 : i > bench /\ i < bench' => order[i] \notin plan.benchmarks
  BY NextSelected
<1>2. bench \in 0..7 /\ bench' \in 0..7
  BY <1>1 DEF RunnerFits
<1>3. \A i \in 1..7 : order[i] \in Compact
  BY Orders
<1>4. Current' = IF bench' = 0 THEN "none" ELSE order[bench']
  BY DEF Current
<1>5. Current = IF bench = 0 THEN "none" ELSE order[bench]
  BY DEF Current
<1>6. bench' > 0 => Current' \in plan.benchmarks
  <2>1. CASE place' = "end"
    BY <1>1, <1>2, <1>4, <1>5, <2>1 DEF RunnerFits
  <2>2. CASE place' # "end"
    BY <1>1, <1>2, <1>4, <2>2
  <2>3. QED
    BY <2>1, <2>2
<1>7. place' = "measure" => Current' \in Compact /\ 1 <= Len(Results[Current'])
  <2>1. place' = "measure" => Current' \in Compact
    BY <1>1, <1>2, <1>3, <1>4
  <2>2. QED
    BY <2>1, RowLengths
<1>8. RunnerFits'
  BY <1>1, <1>2, <1>6, <1>7 DEF RunnerFits, SuitePlace
<1>9. ASSUME NEW i \in 1..Behind', order[i] \in plan.benchmarks, NEW r \in RowsOf(order[i])
      PROVE  rows'[r] # {}
  <2>1. i \in 1..bench
    <3>1. CASE place' = "end"
      BY <1>1, <1>2, <1>9, <3>1 DEF Behind
    <3>2. CASE place' # "end"
      <4>1. Behind' = bench' - 1
        BY <1>1, <3>2 DEF Behind
      <4>2. i \in 1..7 /\ i < bench'
        BY <1>2, <4>1
      <4>3. ~(i > bench)
        BY <1>1, <1>9, <3>2, <4>2
      <4>4. QED
        BY <1>2, <4>2, <4>3
    <3>3. QED
      BY <3>1, <3>2
  <2>2. CASE i = bench
    BY <1>2, <1>5, <1>9, <2>1, <2>2
  <2>3. CASE i < bench
    <3>1. i \in 1..Behind
      BY <1>2, <2>1, <2>3 DEF Behind
    <3>2. rows[r] # {}
      BY <1>9, <3>1 DEF RowsFit
    <3>3. r \in ResultIds
      BY <1>2, <1>3, <2>1, RowLengths
    <3>4. QED
      BY <3>2, <3>3 DEF RowsGrow
  <2>4. QED
    BY <1>2, <2>1, <2>2, <2>3
<1>10. RowsFit'
  BY <1>1, <1>9 DEF RowsFit, RowsGrow
<1>11. QED
  BY <1>1, <1>8, <1>10

\* The runner goes on within a benchmark.
LEMMA StayFits ==
  ASSUME RunnerFits, RowsFit, plan' = plan, bench' = bench, item' \in 1..6, RowsGrow,
         place \notin {"idle", "end", "returned"},
         place' \in SuitePlace \ {"idle", "end", "returned"},
         place' \in {"prepare", "local", "mount", "describe"} => bench = 0,
         place' \in {"local", "mount", "describe"} => item' = 5,
         place' \in {"measure", "mode"} =>
           /\ Current \in Compact /\ item' <= Len(Results[Current])
           /\ \A i \in 1..(item' - 1) : rows'[Results[Current][i]] # {},
         place' = "finally" /\ raised' = "none" => \A r \in RowsOf(Current) : rows'[r] # {}
  PROVE  RunnerFits' /\ RowsFit'
<1>1. Current' = Current /\ Behind' = bench - 1 /\ Behind = bench - 1
  BY DEF Current, Behind
<1>2. RunnerFits'
  BY <1>1 DEF RunnerFits, SuitePlace
<1>3. ASSUME NEW i \in 1..Behind', Order(plan.provider)[i] \in plan.benchmarks,
             NEW r \in RowsOf(Order(plan.provider)[i])
      PROVE  rows'[r] # {}
  <2>1. rows[r] # {}
    BY <1>1, <1>3 DEF RowsFit
  <2>2. i \in 1..7
    BY <1>1, <1>3 DEF RunnerFits
  <2>3. r \in ResultIds
    BY <1>3, <2>2, Orders, RowLengths
  <2>4. QED
    BY <2>1, <2>3 DEF RowsGrow
<1>4. RowsFit'
  BY <1>1, <1>3 DEF RowsFit, RowsGrow
<1>5. QED
  BY <1>2, <1>4

\* After a stop rows are only added to by failures.
LEMMA StopsStay ==
  ASSUME StopFits, RowsFit, RowsGrow, UNCHANGED <<plan, interrupted, stopAsked>>,
         stopAsked => rows' = rows \/ "failed" \in Statuses',
         place' = "stopped" \/ raised' = "stop" => stopAsked
  PROVE  StopFits'
<1>1. Expected' = Expected
  BY DEF Expected
<1>2. \A s : s \in Statuses => s \in Statuses'
  BY StatusOf DEF Statuses, RowsGrow
<1>3. interrupted => "failed" \in Statuses' \/ \E r \in Expected : "completed" \notin rows'[r]
  BY <1>2 DEF StopFits
<1>4. stopAsked /\ ~interrupted =>
        "failed" \in Statuses' \/ (Statuses' # {} /\ \A r \in Expected : "completed" \in rows'[r])
  BY <1>2 DEF StopFits
<1>5. QED
  BY <1>1, <1>3, <1>4 DEF StopFits

LEMMA SameRowsGrow ==
  ASSUME RowsFit, rows' = rows
  PROVE  RowsGrow /\ Statuses' = Statuses
BY DEF RowsFit, RowsGrow, Statuses

\* Nothing new has failed.
LEMMA FailuresStay ==
  ASSUME FailuresFit, rows' = rows, deferred' = deferred,
         mishaps' \in Nat, mishaps' >= mishaps,
         raised' \in {"none", "error", "stop"}, place # "failed",
         place' = "handler" => mishaps' > 0,
         place' # "returned"
  PROVE  FailuresFit'
<1>1. Statuses' = Statuses
  BY DEF Statuses
<1>2. QED
  BY <1>1 DEF FailuresFit

\* No server serves, but one that was lost.
LEMMA ServerRests ==
  ASSUME ServerFits, UNCHANGED <<plan, httpd, stopLost>>,
         place \notin {"probe", "mode", "handler", "finally", "failed", "stopped"},
         place' \in {"client", "target", "probe", "mode"} => "installed" \in local',
         place' \in {"addresses", "service"} => local' = {}
  PROVE  ServerFits'
BY DEF ServerFits

LEMMA StepDoneFits ==
  ASSUME RunnerFits, RowsFit, place \in {"prepare", "local", "mount", "describe"},
         StepDone, plan' = plan, rows' = rows
  PROVE  /\ RunnerFits' /\ RowsFit'
         /\ place' \in {"prepare", "end", "pts", "addresses", "stack", "measure"}
         /\ place' = "prepare" => item' > item
         /\ "core" \in plan.benchmarks /\ (bench' > 0 \/ (place' = "prepare" /\ item' > 5)) => item >= 5
         /\ raised' \in {raised, "none"}
         /\ place' = "addresses" => local' = {}
<1>1. plan \in Plans /\ item \in 1..6 /\ bench = 0 /\ RowsGrow
  BY SameRowsGrow DEF RunnerFits
<1>2. ASSUME NextBenchmark, "core" \in plan.benchmarks => item >= 5
      PROVE  /\ RunnerFits' /\ RowsFit'
             /\ place' \in {"end", "pts", "addresses", "stack", "measure"}
             /\ "core" \in plan.benchmarks => item >= 5
             /\ raised' = "none" /\ local' = {}
  BY <1>1, <1>2, NextFits
<1>3. ASSUME NEW k \in 1..6, k > item, GoTo("prepare", k), "core" \in plan.benchmarks /\ k > 5 => item >= 5
      PROVE  /\ RunnerFits' /\ RowsFit'
             /\ place' = "prepare" /\ item' = k /\ bench' = 0 /\ raised' = raised
             /\ "core" \in plan.benchmarks /\ item' > 5 => item >= 5
  <2>1. place' = "prepare" /\ item' = k /\ bench' = bench /\ raised' = raised
    BY <1>3 DEF GoTo
  <2>2. QED
    BY <1>1, <1>3, <2>1, StayFits DEF SuitePlace
<1>4. QED
  BY <1>1, <1>2, <1>3, NextPrepared

\* Connecting, and commands that must go well.
LEMMA PreparesFit ==
  ASSUME SuiteInv, ConnectTransport \/ (\E s \in {"readiness", "install", "peer", "topology"} : PreparationStep(s))
  PROVE  SuiteInv'
<1>1. /\ UNCHANGED <<plan, interrupted, stopAsked, rows, deferred, guestDisks, httpd, stopLost>>
      /\ place = "prepare" /\ item # 5
      /\ \/ Works /\ StepDone
         \/ Fails(1) /\ GoTo("prepare", item)
         \/ Fails(1) /\ Raise
         \/ Stopped /\ Cancelled
  BY DEF ConnectTransport, PreparationStep, Preparing, Step, Preparation, untouched, guests, web
<1>2. RunnerFits /\ RowsFit /\ StorageFits /\ StopFits /\ FailuresFit /\ ServerFits /\ RowsGrow
  BY <1>1, SameRowsGrow DEF SuiteInv
<1>3. mishaps' \in Nat /\ mishaps' >= mishaps
  BY <1>1, <1>2 DEF Works, Fails, Stopped, FailuresFit
<1>4. CASE StepDone
  <2>1. /\ RunnerFits' /\ RowsFit'
        /\ place' \in {"prepare", "end", "pts", "addresses", "stack", "measure"}
        /\ place' = "prepare" => item' > item
        /\ "core" \in plan.benchmarks /\ (bench' > 0 \/ (place' = "prepare" /\ item' > 5)) => item >= 5
        /\ raised' \in {raised, "none"}
        /\ place' = "addresses" => local' = {}
    BY <1>1, <1>2, <1>4, StepDoneFits
  <2>2. item \in 1..6 /\ item' \in 1..6
    BY <1>2, <2>1 DEF RunnerFits
  <2>3. StorageFits'
    BY <1>1, <1>2, <2>1, <2>2, StorageRests
  <2>4. FailuresFit'
    BY <1>1, <1>2, <1>3, <2>1, FailuresStay DEF FailuresFit
  <2>5. StopFits'
    BY <1>1, <1>2, <2>1, StopsStay DEF StopFits
  <2>6. ServerFits'
    BY <1>1, <1>2, <2>1, ServerRests
  <2>7. QED
    BY <2>1, <2>3, <2>4, <2>5, <2>6 DEF SuiteInv
<1>5. CASE GoTo("prepare", item) \/ Raise \/ (Stopped /\ Cancelled)
  <2>1. /\ place' \in {"prepare", "failed", "stopped"} /\ bench' = bench /\ local' = local /\ raised' = raised
        /\ place' = "prepare" => item' = item
        /\ place' = "stopped" => stopAsked
        /\ item' \in 1..6 /\ bench = 0
    BY <1>1, <1>2, <1>5 DEF GoTo, Raise, Cancelled, Stopped, RunnerFits
  <2>2. RunnerFits' /\ RowsFit'
    BY <1>1, <1>2, <2>1, StayFits DEF SuitePlace
  <2>3. StorageFits'
    BY <1>1, <1>2, <2>1, StorageRests
  <2>4. FailuresFit'
    BY <1>1, <1>2, <1>3, <2>1, FailuresStay DEF FailuresFit
  <2>5. StopFits'
    BY <1>1, <1>2, <2>1, StopsStay DEF StopFits
  <2>6. ServerFits'
    BY <1>1, <1>2, <2>1, ServerRests
  <2>7. QED
    BY <2>2, <2>3, <2>4, <2>5, <2>6 DEF SuiteInv
<1>6. QED
  BY <1>1, <1>4, <1>5

\* The command for the first target is sent.
LEMMA BeginStorageFits ==
  ASSUME SuiteInv, BeginStorage
  PROVE  SuiteInv'
<1>1. /\ UNCHANGED <<plan, interrupted, stopAsked, rows, deferred, disks, leftovers, target, httpd, stopLost>>
      /\ place = "prepare"
      /\ UNCHANGED <<bench, local, raised>>
      /\ \/ Works \/ Fails(1) \/ Stopped
      /\ \/ script' = Sent("local") /\ place' = "local" /\ item' = item
         \/ plan.volume /\ script' = Sent("data") /\ place' = "mount" /\ item' = item
         \/ script' = NoScript /\ place' = "failed" /\ item' = 1
         \/ script' = NoScript /\ place' = "stopped" /\ item' = 1 /\ stopAsked
  BY DEF BeginStorage, Preparing, untouched, web, ToVolume, Send, Drop, Raise, Cancelled, GoTo, Stopped
<1>2. RunnerFits /\ RowsFit /\ StorageFits /\ StopFits /\ FailuresFit /\ ServerFits /\ RowsGrow
  BY <1>1, SameRowsGrow DEF SuiteInv
<1>3. mishaps' \in Nat /\ mishaps' >= mishaps
  BY <1>1, <1>2 DEF Works, Fails, Stopped, FailuresFit
<1>4. item = 5 /\ bench = 0
  <2>1. item \in 1..6 /\ Preparation[item] = "storage"
    BY <1>2 DEF BeginStorage, Preparing, Step, RunnerFits
  <2>2. QED
    BY <1>1, <1>2, <2>1 DEF Preparation, RunnerFits
<1>5. RunnerFits' /\ RowsFit'
  BY <1>1, <1>2, <1>4, StayFits DEF SuitePlace
<1>6. FailuresFit'
  BY <1>1, <1>2, <1>3, FailuresStay DEF FailuresFit
<1>7. StopFits'
  BY <1>1, <1>2, StopsStay DEF StopFits
<1>8. ServerFits'
  BY <1>1, <1>2, ServerRests
<1>9. target = "none" /\ leftovers = {}
  BY <1>1, <1>2, <1>4 DEF StorageFits, TargetFits
<1>10. StorageFits'
  <2>1. DisksFit'
    BY <1>1, <1>2 DEF StorageFits, DisksFit
  <2>2. TargetFits'
    BY <1>1, <1>2, <1>4, <1>9 DEF StorageFits, TargetFits
  <2>3. /\ Sent("local") \in Scripts /\ Sent("data") \in Scripts
        /\ Sent("local").disk = "local" /\ Sent("data").disk = "data"
        /\ Sent("local").at = "look" /\ Sent("data").at = "look"
        /\ NoScript.disk = "none" /\ NoScript.at = "none"
    BY DEF Sent, Scripts, Disk, ScriptPlace, NoScript
  <2>4. ScriptsFit'
    BY <1>1, <1>9, <2>3 DEF ScriptsFit
  <2>5. QED
    BY <2>1, <2>2, <2>4 DEF StorageFits
<1>11. QED
  BY <1>5, <1>6, <1>7, <1>8, <1>10 DEF SuiteInv

\* What the storage step ends with.
LEMMA StorageEnds ==
  ASSUME StorageFits, RunnerFits, place \in {"local", "mount", "describe"}, plan' = plan, disks' = disks,
         script' = NoScript,
         \A s \in leftovers' : s \in leftovers \/ (s = script /\ Busy(s)),
         place' \notin {"local", "mount", "describe"},
         place' = "prepare" => item' \in Nat /\ item' > 5,
         target' \in {target} \cup Disk,
         target' # target => disks[target'] = Ready(target'),
         "core" \in plan.benchmarks /\ (bench' > 0 \/ (place' = "prepare" /\ item' > 5)) => target' \in Disk,
         target' = "local" => leftovers' = {},
         target' = "data" => \A s \in leftovers' : s.disk = "data"
  PROVE  StorageFits'
<1>1. target = "none" /\ DisksFit /\ TargetFits /\ ScriptsFit
  BY DEF StorageFits, TargetFits
<1>2. DisksFit'
  BY <1>1 DEF DisksFit
<1>3. NoScript.disk = "none" /\ NoScript.at = "none"
  BY DEF NoScript
<1>4. script \in Scripts /\ \A s \in leftovers' : s \in Scripts /\ Busy(s) /\ (s.disk = "data" => plan.volume)
  BY <1>1 DEF ScriptsFit
<1>5. ScriptsFit'
  BY <1>1, <1>3, <1>4 DEF ScriptsFit
<1>6. target' = "local" => disks["local"] = Ready("local")
  BY <1>1
<1>7. target' = "data" => disks["data"] = Ready("data")
  BY <1>1
<1>8. Ready("local")' = Ready("local") /\ Ready("data")' = Ready("data")
  BY DEF Ready, MountPoint
<1>9. TargetFits'
  BY <1>1, <1>6, <1>7, <1>8 DEF TargetFits
<1>10. QED
  BY <1>2, <1>5, <1>9 DEF StorageFits

\* A command for the volume, or one that looks at it, is sent.
LEMMA VolumeAsked ==
  ASSUME StorageFits, RunnerFits, place \in {"local", "mount", "describe"}, plan' = plan, disks' = disks,
         UNCHANGED <<bench, target>>,
         \/ place' = "mount" /\ script' = Sent("data")
         \/ place' = "describe" /\ script' = [disk |-> "data", at |-> "describe"],
         plan.volume,
         \A s \in leftovers' : (s \in leftovers \/ (s = script /\ Busy(s))) /\ s.disk = "data"
  PROVE  StorageFits'
<1>1. target = "none" /\ DisksFit /\ TargetFits /\ ScriptsFit /\ bench = 0
  BY DEF StorageFits, TargetFits, RunnerFits
<1>2. DisksFit'
  BY <1>1 DEF DisksFit
<1>3. script' \in Scripts /\ script'.disk = "data" /\ script'.at \in {"look", "describe"}
      /\ (place' = "mount" => script'.at = "look")
  BY DEF Sent, Scripts, Disk, ScriptPlace
<1>4. script \in Scripts /\ \A s \in leftovers' : s \in Scripts /\ Busy(s) /\ (s.disk = "data" => plan.volume)
  BY <1>1 DEF ScriptsFit
<1>5. ScriptsFit'
  BY <1>1, <1>3, <1>4 DEF ScriptsFit
<1>6. TargetFits'
  BY <1>1 DEF TargetFits
<1>7. QED
  BY <1>2, <1>5, <1>6 DEF StorageFits

\* The runner leaves a step of the storage target.
LEMMA StorageLeft ==
  ASSUME SuiteInv, place \in {"local", "mount", "describe"},
         UNCHANGED <<plan, interrupted, stopAsked, rows, deferred, httpd, stopLost>>,
         Works \/ Fails(1) \/ Stopped,
         \/ StepDone
         \/ Raise
         \/ Stopped /\ Cancelled
         \/ GoTo("mount", item)
         \/ GoTo("describe", item)
  PROVE  /\ RunnerFits' /\ RowsFit' /\ FailuresFit' /\ StopFits' /\ ServerFits'
         /\ StepDone =>
              /\ place' \in {"prepare", "end", "pts", "addresses", "stack", "measure"}
              /\ place' = "prepare" => item' \in Nat /\ item' > 5
         /\ ~StepDone /\ ~GoTo("mount", item) /\ ~GoTo("describe", item) =>
              place' \in {"failed", "stopped"} /\ bench' = 0
<1>2. RunnerFits /\ RowsFit /\ StorageFits /\ StopFits /\ FailuresFit /\ ServerFits /\ RowsGrow
  BY SameRowsGrow DEF SuiteInv
<1>3. mishaps' \in Nat /\ mishaps' >= mishaps
  BY <1>2 DEF Works, Fails, Stopped, FailuresFit
<1>4. item = 5 /\ bench = 0
  BY <1>2 DEF RunnerFits
<1>5. CASE StepDone
  <2>1. /\ RunnerFits' /\ RowsFit'
        /\ place' \in {"prepare", "end", "pts", "addresses", "stack", "measure"}
        /\ place' = "prepare" => item' > item
        /\ raised' \in {raised, "none"}
        /\ place' = "addresses" => local' = {}
    BY <1>2, <1>5, StepDoneFits
  <2>2. item' \in 1..6
    BY <2>1 DEF RunnerFits
  <2>3. FailuresFit'
    BY <1>2, <1>3, <2>1, FailuresStay DEF FailuresFit
  <2>4. StopFits'
    BY <1>2, <2>1, StopsStay DEF StopFits
  <2>5. ServerFits'
    BY <1>2, <2>1, ServerRests
  <2>6. QED
    BY <1>4, <1>5, <2>1, <2>2, <2>3, <2>4, <2>5
<1>6. CASE ~StepDone
  <2>1. /\ place' \in {"mount", "describe", "failed", "stopped"}
        /\ UNCHANGED <<bench, local, raised>>
        /\ place' = "stopped" => stopAsked
        /\ place' \in {"mount", "describe"} => item' = 5
        /\ item' \in 1..6
        /\ ~GoTo("mount", item) /\ ~GoTo("describe", item) => place' \in {"failed", "stopped"}
    BY <1>4, <1>6 DEF GoTo, Raise, Cancelled, Stopped
  <2>2. RunnerFits' /\ RowsFit'
    BY <1>2, <1>4, <2>1, StayFits DEF SuitePlace
  <2>3. FailuresFit'
    BY <1>2, <1>3, <2>1, FailuresStay DEF FailuresFit
  <2>4. StopFits'
    BY <1>2, <2>1, StopsStay DEF StopFits
  <2>5. ServerFits'
    BY <1>2, <2>1, ServerRests
  <2>6. QED
    BY <1>4, <1>6, <2>1, <2>2, <2>3, <2>4, <2>5
<1>7. QED
  BY <1>5, <1>6

\* The local disk is taken, or the volume in its place.
LEMMA AwaitLocalFits ==
  ASSUME SuiteInv, AwaitLocal
  PROVE  SuiteInv'
<1>1. /\ UNCHANGED <<plan, interrupted, stopAsked, rows, deferred, disks, httpd, stopLost>>
      /\ place = "local" /\ (Works \/ Fails(1) \/ Stopped)
  BY DEF AwaitLocal, untouched, web
<1>2. /\ StorageFits /\ RunnerFits /\ target = "none" /\ leftovers = {}
      /\ script \in Scripts /\ script.disk = "local"
      /\ script.at = "ok" => disks["local"] = Ready("local")
  BY <1>1 DEF SuiteInv, StorageFits, TargetFits, ScriptsFit
<1>3. CASE script.at = "ok" /\ target' = "local" /\ Drop /\ UNCHANGED leftovers /\ (StepDone \/ Raise)
  <2>1. /\ RunnerFits' /\ RowsFit' /\ FailuresFit' /\ StopFits' /\ ServerFits'
        /\ place' \notin {"local", "mount", "describe"}
        /\ place' = "prepare" => item' \in Nat /\ item' > 5
    BY <1>1, <1>3, StorageLeft DEF GoTo, Raise
  <2>2. StorageFits'
    BY <1>1, <1>2, <1>3, <2>1, StorageEnds DEF Drop, Disk
  <2>3. QED
    BY <2>1, <2>2 DEF SuiteInv
<1>4. CASE UNCHANGED <<target, leftovers>> /\ plan.volume /\ Send("data", "mount")
  <2>1. RunnerFits' /\ RowsFit' /\ FailuresFit' /\ StopFits' /\ ServerFits'
    BY <1>1, <1>4, StorageLeft DEF Send
  <2>2. StorageFits'
    BY <1>1, <1>2, <1>4, VolumeAsked DEF Send, GoTo
  <2>3. QED
    BY <2>1, <2>2 DEF SuiteInv
<1>5. CASE /\ UNCHANGED target /\ (Raise \/ (Stopped /\ Cancelled))
           /\ script' = NoScript
           /\ \A s \in leftovers' : s \in leftovers \/ (s = script /\ Busy(s))
  <2>1. place' \in {"failed", "stopped"} /\ bench' = bench
    BY <1>5 DEF Raise, Cancelled, GoTo
  <2>2. RunnerFits' /\ RowsFit' /\ FailuresFit' /\ StopFits' /\ ServerFits' /\ bench' = 0
    BY <1>1, <1>2, <1>5, <2>1, StorageLeft DEF RunnerFits
  <2>3. StorageFits'
    BY <1>1, <1>2, <1>5, <2>1, <2>2, StorageEnds
  <2>4. QED
    BY <2>2, <2>3 DEF SuiteInv
<1>6. QED
  BY <1>3, <1>4, <1>5 DEF AwaitLocal, ToVolume, Drop, Abandon

\* The command for the volume is answered, or sent again.
LEMMA AwaitMountFits ==
  ASSUME SuiteInv, AwaitMount
  PROVE  SuiteInv'
<1>1. /\ UNCHANGED <<plan, interrupted, stopAsked, rows, deferred, disks, target, httpd, stopLost>>
      /\ place = "mount" /\ (Works \/ Fails(1) \/ Stopped)
  BY DEF AwaitMount, untouched, web
<1>2. /\ StorageFits /\ RunnerFits /\ target = "none"
      /\ script \in Scripts /\ script.disk = "data" /\ plan.volume
      /\ \A s \in leftovers : s.disk = "data"
  BY <1>1 DEF SuiteInv, StorageFits, TargetFits, ScriptsFit
<1>3. CASE Works /\ UNCHANGED leftovers /\ ~Measures /\ Drop /\ StepDone
  <2>1. /\ RunnerFits' /\ RowsFit' /\ FailuresFit' /\ StopFits' /\ ServerFits'
        /\ place' \notin {"local", "mount", "describe"}
        /\ place' = "prepare" => item' \in Nat /\ item' > 5
    BY <1>1, <1>3, StorageLeft
  <2>2. StorageFits'
    BY <1>1, <1>2, <1>3, <2>1, StorageEnds DEF Drop, Measures
  <2>3. QED
    BY <2>1, <2>2 DEF SuiteInv
<1>4. CASE /\ \/ Send("data", "mount")
              \/ script' = [disk |-> "data", at |-> "describe"] /\ GoTo("describe", item)
           /\ \A s \in leftovers' : s \in leftovers \/ (s = script /\ Busy(s))
  <2>1. RunnerFits' /\ RowsFit' /\ FailuresFit' /\ StopFits' /\ ServerFits'
    BY <1>1, <1>4, StorageLeft DEF Send
  <2>2. StorageFits'
    BY <1>1, <1>2, <1>4, VolumeAsked DEF Send, GoTo
  <2>3. QED
    BY <2>1, <2>2 DEF SuiteInv
<1>5. CASE /\ Raise \/ (Stopped /\ Cancelled)
           /\ script' = NoScript
           /\ \A s \in leftovers' : s \in leftovers \/ (s = script /\ Busy(s))
  <2>1. place' \in {"failed", "stopped"} /\ bench' = bench
    BY <1>5 DEF Raise, Cancelled, GoTo
  <2>2. RunnerFits' /\ RowsFit' /\ FailuresFit' /\ StopFits' /\ ServerFits' /\ bench' = 0
    BY <1>1, <1>2, <1>5, <2>1, StorageLeft DEF RunnerFits
  <2>3. StorageFits'
    BY <1>1, <1>2, <1>5, <2>1, <2>2, StorageEnds
  <2>4. QED
    BY <2>2, <2>3 DEF SuiteInv
<1>6. QED
  BY <1>3, <1>4, <1>5 DEF AwaitMount, Drop, Abandon

\* What is mounted is described, and becomes the target.
LEMMA AwaitDescriptionFits ==
  ASSUME SuiteInv, AwaitDescription
  PROVE  SuiteInv'
<1>1. /\ UNCHANGED <<plan, interrupted, stopAsked, rows, deferred, disks, leftovers, httpd, stopLost>>
      /\ place = "describe" /\ (Works \/ Fails(1) \/ Stopped)
      /\ script' = NoScript
  BY DEF AwaitDescription, untouched, web, Drop
<1>2. /\ StorageFits /\ RunnerFits /\ target = "none"
      /\ script.at = "described" => disks["data"] = Ready("data")
      /\ \A s \in leftovers : s.disk = "data"
  BY <1>1 DEF SuiteInv, StorageFits, TargetFits, ScriptsFit
<1>3. CASE script.at = "described" /\ target' = "data" /\ (StepDone \/ Raise)
  <2>1. /\ RunnerFits' /\ RowsFit' /\ FailuresFit' /\ StopFits' /\ ServerFits'
        /\ place' \notin {"local", "mount", "describe"}
        /\ place' = "prepare" => item' \in Nat /\ item' > 5
    BY <1>1, <1>3, StorageLeft DEF GoTo, Raise
  <2>2. StorageFits'
    BY <1>1, <1>2, <1>3, <2>1, StorageEnds DEF Disk
  <2>3. QED
    BY <2>1, <2>2 DEF SuiteInv
<1>4. CASE UNCHANGED target /\ (Raise \/ (Stopped /\ Cancelled))
  <2>1. place' \in {"failed", "stopped"} /\ bench' = bench
    BY <1>4 DEF Raise, Cancelled, GoTo
  <2>2. RunnerFits' /\ RowsFit' /\ FailuresFit' /\ StopFits' /\ ServerFits' /\ bench' = 0
    BY <1>1, <1>2, <1>4, <2>1, StorageLeft DEF RunnerFits
  <2>3. StorageFits'
    BY <1>1, <1>2, <1>4, <2>1, <2>2, StorageEnds
  <2>4. QED
    BY <2>2, <2>3 DEF SuiteInv
<1>5. QED
  BY <1>3, <1>4 DEF AwaitDescription

-------------------------------------------------------------------------------
(* The benchmarks.                                                         *)

WorkPlace ==
  {"measure", "pts", "addresses", "service", "client", "target", "probe", "mode", "handler",
   "finally", "stack", "dataset"}

\* A step of a benchmark: it goes on to the next one when its rows are there, or stays
\* within its own; what fails is raised, now or at the end.
LEMMA WorkFits ==
  ASSUME SuiteInv, place \in WorkPlace, Current \in Compact,
         UNCHANGED <<plan, interrupted, stopAsked, guestDisks>>, RowsGrow,
         mishaps' \in Nat, mishaps' >= mishaps, deferred' \in BOOLEAN, deferred => deferred',
         \/ NextBenchmark /\ \A r \in RowsOf(Current) : rows'[r] # {}
         \/ /\ bench' = bench /\ item' \in 1..6
            /\ place' \in WorkPlace \cup {"failed", "stopped"}
            /\ raised' \in {"none", "error", "stop"}
            /\ place' \in {"measure", "mode"} =>
                 /\ item' <= Len(Results[Current])
                 /\ \A i \in 1..(item' - 1) : rows'[Results[Current][i]] # {}
            /\ place' = "finally" /\ raised' = "none" => \A r \in RowsOf(Current) : rows'[r] # {},
         "failed" \in Statuses' =>
           "failed" \in Statuses \/ (mishaps' > 0 /\ (deferred' \/ place' = "failed")),
         place' = "handler" => mishaps' > 0,
         stopAsked => rows' = rows \/ "failed" \in Statuses',
         place' = "stopped" \/ raised' = "stop" => stopAsked,
         ServerFits'
  PROVE  SuiteInv'
<1>1. RunnerFits /\ RowsFit /\ StorageFits /\ StopFits /\ FailuresFit /\ ServerFits
  BY DEF SuiteInv
<1>2. bench \in 1..7 /\ plan \in Plans
  BY <1>1, Currents DEF RunnerFits, WorkPlace
<1>3. \/ NextBenchmark /\ \A r \in RowsOf(Current) : rows'[r] # {}
      \/ bench' = bench /\ place' \in WorkPlace \cup {"failed", "stopped"}
  OBVIOUS
<1>4. /\ RunnerFits' /\ RowsFit'
      /\ place' \notin {"idle", "prepare", "local", "mount", "describe", "returned"}
      /\ raised' \in {"none", "error", "stop"}
  <2>1. CASE NextBenchmark /\ \A r \in RowsOf(Current) : rows'[r] # {}
    <3>1. place \notin {"idle", "end", "returned"}
      BY DEF WorkPlace
    <3>2. QED
      BY <1>1, <1>2, <2>1, <3>1, NextFits
  <2>2. CASE ~(NextBenchmark /\ \A r \in RowsOf(Current) : rows'[r] # {})
    <3>1. /\ place \notin {"idle", "end", "returned"}
          /\ place' \in SuitePlace \ {"idle", "end", "returned"}
          /\ place' \notin {"idle", "prepare", "local", "mount", "describe", "returned"}
      BY <2>2 DEF WorkPlace, SuitePlace
    <3>2. QED
      BY <1>1, <1>2, <2>2, <3>1, StayFits
  <2>3. QED
    BY <2>1, <2>2
<1>5. StorageFits'
  <2>1. place \notin {"local", "mount", "describe"}
    BY DEF WorkPlace
  <2>2. QED
    BY <1>1, <1>2, <1>4, <2>1, StorageRests
<1>6. \A s : s \in Statuses => s \in Statuses'
  BY DEF Statuses, RowsGrow
<1>8. FailuresFit'
  <2>1. place \notin {"failed", "returned"} /\ mishaps \in Nat
    BY <1>1 DEF WorkPlace, FailuresFit
  <2>2. "failed" \in Statuses' => (deferred' \/ place' = "failed") /\ mishaps' > 0
    BY <1>1, <2>1 DEF FailuresFit
  <2>3. QED
    BY <1>4, <2>1, <2>2 DEF FailuresFit
<1>9. StopFits'
  BY <1>1, StopsStay
<1>10. QED
  BY <1>4, <1>5, <1>8, <1>9 DEF SuiteInv

\* What is appended to a row, and what fills the rows that are missing.
LEMMA Appended ==
  ASSUME RowsFit, Current \in Compact, item \in 1..Len(Results[Current]),
         NEW s \in SUBSET {"completed", "failed"}, Append1(Row, s)
  PROVE  /\ RowsGrow /\ Row \in ResultIds
         /\ rows'[Row] = rows[Row] \cup s
         /\ s = {} => rows' = rows
         /\ "failed" \in s => "failed" \in Statuses'
         /\ "failed" \notin s /\ "failed" \in Statuses' => "failed" \in Statuses
<1>1. Row \in ResultIds
  BY RowLengths DEF Row
<1>2. rows \in [ResultIds -> SUBSET {"completed", "failed"}]
  BY DEF RowsFit
<1>3. rows' = [rows EXCEPT ![Row] = rows[Row] \cup s]
  BY DEF Append1
<1>4. /\ rows'[Row] = rows[Row] \cup s
      /\ \A r \in ResultIds : r # Row => rows'[r] = rows[r]
      /\ rows' \in [ResultIds -> SUBSET {"completed", "failed"}]
  BY <1>1, <1>2, <1>3
<1>5. s = {} => rows' = rows
  BY <1>1, <1>2, <1>3
<1>6. "failed" \in s => "failed" \in Statuses'
  BY <1>1, <1>4 DEF Statuses
<1>7. "failed" \notin s /\ "failed" \in Statuses' => "failed" \in Statuses
  BY <1>1, <1>4 DEF Statuses
<1>8. QED
  BY <1>1, <1>4, <1>5, <1>6, <1>7 DEF RowsGrow

LEMMA Filled ==
  ASSUME RowsFit, Current \in Compact, FailMissing
  PROVE  /\ RowsGrow
         /\ \A r \in RowsOf(Current) : rows'[r] # {}
         /\ rows' = rows \/ "failed" \in Statuses'
         /\ (\A r \in RowsOf(Current) : rows[r] # {}) => rows' = rows
<1>1. RowsOf(Current) \subseteq ResultIds
  BY RowLengths
<1>2. rows \in [ResultIds -> SUBSET {"completed", "failed"}]
  BY DEF RowsFit
<1>3. \A r \in ResultIds : rows'[r] = IF r \in RowsOf(Current) /\ rows[r] = {} THEN {"failed"} ELSE rows[r]
  BY DEF FailMissing
<1>4. RowsGrow
  BY <1>2, <1>3 DEF RowsGrow, FailMissing
<1>5. \A r \in RowsOf(Current) : rows'[r] # {}
  BY <1>1, <1>3
<1>6. (\A r \in RowsOf(Current) : rows[r] # {}) => rows' = rows
  <2>1. SUFFICES ASSUME \A r \in RowsOf(Current) : rows[r] # {}
                 PROVE  rows' = rows
    OBVIOUS
  <2>2. \A r \in ResultIds : rows'[r] = rows[r]
    BY <1>3, <2>1
  <2>3. rows' \in [ResultIds -> SUBSET {"completed", "failed"}]
    BY <1>4 DEF RowsGrow
  <2>4. QED
    BY <1>2, <2>2, <2>3
<1>7. (\E r \in RowsOf(Current) : rows[r] = {}) => "failed" \in Statuses'
  BY <1>1, <1>3 DEF Statuses
<1>8. QED
  BY <1>4, <1>5, <1>6, <1>7

\* The rows of a benchmark, once the last one is there.
LEMMA RowsDone ==
  ASSUME RowsFit, RunnerFits, place \in {"measure", "mode"}, Current \in Compact, RowsGrow, rows'[Row] # {}
  PROVE  /\ item \in 1..Len(Results[Current])
         /\ \A i \in 1..item : rows'[Results[Current][i]] # {}
         /\ ~(item < Len(Results[Current])) => \A r \in RowsOf(Current) : rows'[r] # {}
<1>1. item \in 1..Len(Results[Current]) /\ Len(Results[Current]) \in 1..2
  BY RowLengths DEF RunnerFits
<1>2. \A i \in 1..Len(Results[Current]) : Results[Current][i] \in ResultIds
  BY RowLengths
<1>3. \A i \in 1..(item - 1) : rows[Results[Current][i]] # {}
  BY DEF RowsFit
<1>4. \A i \in 1..item : rows'[Results[Current][i]] # {}
  <2>1. TAKE i \in 1..item
  <2>2. CASE i = item
    BY <2>2 DEF Row
  <2>3. CASE i # item
    <3>1. i \in 1..(item - 1) /\ Results[Current][i] \in ResultIds
      BY <1>1, <1>2, <2>3
    <3>2. QED
      BY <1>3, <3>1 DEF RowsGrow
  <2>4. QED
    BY <2>2, <2>3
<1>5. ~(item < Len(Results[Current])) => \A r \in RowsOf(Current) : rows'[r] # {}
  BY <1>1, <1>4, RowLengths
<1>6. QED
  BY <1>1, <1>4, <1>5

\* What runs beside DeathStarBench is left as it was.
LEMMA ServerStays ==
  ASSUME ServerFits, UNCHANGED <<plan, httpd, stopLost>>,
         place \notin {"failed", "stopped"},
         \/ place \notin {"probe", "mode", "handler", "finally"}
         \/ place' \in {"mode", "handler", "finally", "failed", "stopped"} /\ local' = local,
         place' \in {"client", "target", "probe", "mode"} => "installed" \in local',
         place' \in {"addresses", "service"} => local' = {}
  PROVE  ServerFits'
BY DEF ServerFits

\* Mishaps are counted.
LEMMA MishapsCount ==
  ASSUME FailuresFit
  PROVE  /\ Works \/ Stopped => mishaps' = mishaps
         /\ Fails(1) \/ Fails(2) => mishaps' \in Nat /\ mishaps' > mishaps /\ mishaps' > 0 /\ ~stopAsked
         /\ Works => ~stopAsked
         /\ Stopped => stopAsked
         /\ mishaps \in Nat
BY DEF FailuresFit, Works, Stopped, Fails

\* Workloads where a failure ends the run.
LEMMA MeasureFits ==
  ASSUME SuiteInv, Measure
  PROVE  SuiteInv'
<1>1. /\ place = "measure" /\ Current \in Compact /\ place \in WorkPlace
      /\ UNCHANGED <<plan, interrupted, stopAsked, deferred, guestDisks, httpd, stopLost>>
  BY DEF Measure, At, Compact, WorkPlace, untouched, guests, web
<1>2. RunnerFits /\ RowsFit /\ StopFits /\ FailuresFit /\ ServerFits
  BY DEF SuiteInv
<1>3. item \in 1..Len(Results[Current]) /\ Len(Results[Current]) \in 1..2
  BY <1>1, <1>2, RowLengths DEF RunnerFits
<1>4. CASE Works /\ Append1(Row, {"completed"}) /\ Onward("measure")
  <2>1. /\ RowsGrow /\ rows'[Row] # {}
        /\ "failed" \in Statuses' => "failed" \in Statuses
    BY <1>1, <1>2, <1>3, <1>4, Appended
  <2>2. /\ \A i \in 1..item : rows'[Results[Current][i]] # {}
        /\ ~(item < Len(Results[Current])) => \A r \in RowsOf(Current) : rows'[r] # {}
    BY <1>1, <1>2, <2>1, RowsDone
  <2>3. mishaps' = mishaps /\ mishaps \in Nat /\ ~stopAsked
    BY <1>2, <1>4, MishapsCount
  <2>4. CASE item < Len(Results[Current])
    <3>1. place' = "measure" /\ item' = item + 1 /\ UNCHANGED <<bench, local, raised>>
      BY <1>4, <2>4 DEF Onward, GoTo
    <3>2. ServerFits'
      BY <1>1, <1>2, <3>1, ServerStays
    <3>3. /\ item' \in 1..6 /\ item' <= Len(Results[Current])
          /\ \A i \in 1..(item' - 1) : rows'[Results[Current][i]] # {}
      BY <1>3, <2>2, <2>4, <3>1
    <3>4. QED
      BY <1>1, <1>2, <2>1, <2>3, <3>1, <3>2, <3>3, WorkFits DEF FailuresFit, StopFits
  <2>5. CASE ~(item < Len(Results[Current]))
    <3>1. NextBenchmark
      BY <1>4, <2>5 DEF Onward
    <3>2. place' \notin {"handler", "stopped", "client", "target", "probe", "mode"} /\ local' = {} /\ raised' = "none"
      BY <1>1, <1>2, <3>1, NextSelected DEF RunnerFits
    <3>3. ServerFits'
      BY <1>1, <1>2, <3>2, ServerStays
    <3>4. QED
      BY <1>1, <1>2, <2>1, <2>2, <2>3, <2>5, <3>1, <3>2, <3>3, WorkFits DEF FailuresFit
  <2>6. QED
    BY <2>4, <2>5
<1>5. CASE Fails(1) /\ (\E s \in {{}, {"failed"}, {"completed"}} : Append1(Row, s)) /\ Raise
  <2>1. PICK s \in {{}, {"failed"}, {"completed"}} : Append1(Row, s)
    BY <1>5
  <2>2. RowsGrow
    BY <1>1, <1>2, <1>3, <2>1, Appended
  <2>3. place' = "failed" /\ item' = 1 /\ UNCHANGED <<bench, local, raised>>
    BY <1>5 DEF Raise, GoTo
  <2>4. mishaps' \in Nat /\ mishaps' > mishaps /\ mishaps' > 0 /\ mishaps \in Nat /\ ~stopAsked
    BY <1>2, <1>5, MishapsCount
  <2>5. ServerFits'
    BY <1>1, <1>2, <2>3, ServerStays
  <2>6. QED
    BY <1>1, <1>2, <2>2, <2>3, <2>4, <2>5, WorkFits DEF FailuresFit, StopFits
<1>6. CASE Stopped /\ UNCHANGED rows /\ Cancelled
  <2>1. place' = "stopped" /\ item' = 1 /\ UNCHANGED <<bench, local, raised>>
    BY <1>6 DEF Cancelled, GoTo
  <2>2. RowsGrow /\ Statuses' = Statuses /\ mishaps' = mishaps /\ mishaps \in Nat /\ stopAsked
    BY <1>2, <1>6, MishapsCount, SameRowsGrow
  <2>3. ServerFits'
    BY <1>1, <1>2, <2>1, ServerStays
  <2>4. QED
    BY <1>1, <1>2, <1>6, <2>1, <2>2, <2>3, WorkFits DEF FailuresFit
<1>7. QED
  BY <1>4, <1>5, <1>6 DEF Measure

\* A step of a benchmark that adds no row.
LEMMA RowlessFits ==
  ASSUME SuiteInv, place \in WorkPlace, Current \in Compact,
         UNCHANGED <<plan, interrupted, stopAsked, guestDisks, rows, deferred, bench>>,
         Works \/ Fails(1) \/ Fails(2) \/ Stopped \/ UNCHANGED mishaps,
         place' \in WorkPlace \cup {"failed", "stopped"}, item' \in {1, item},
         place' \in {"measure", "mode"} => item' = 1,
         place' = "finally" => raised' # "none",
         place' = "handler" => Fails(1) \/ Fails(2),
         \/ raised' = raised
         \/ raised' = "error"
         \/ raised' = "stop" /\ Stopped,
         place' = "stopped" => Stopped,
         ServerFits'
  PROVE  SuiteInv'
<1>1. RowsGrow /\ Statuses' = Statuses /\ FailuresFit /\ StopFits /\ RunnerFits
  BY SameRowsGrow DEF SuiteInv
<1>2. mishaps' \in Nat /\ mishaps' >= mishaps /\ (Fails(1) \/ Fails(2) => mishaps' > 0) /\ (Stopped => stopAsked)
  BY <1>1, MishapsCount
<1>3. raised' \in {"none", "error", "stop"} /\ (raised' = "stop" => stopAsked)
  BY <1>1, <1>2 DEF FailuresFit, StopFits
<1>4. item' \in 1..6
  BY <1>1 DEF RunnerFits
<1>5. place' \in {"measure", "mode"} =>
        /\ item' <= Len(Results[Current])
        /\ \A i \in 1..(item' - 1) : rows'[Results[Current][i]] # {}
  <2>1. Len(Results[Current]) \in 1..2
    BY RowLengths
  <2>2. SUFFICES ASSUME item' = 1
                 PROVE  /\ item' <= Len(Results[Current])
                        /\ \A i \in 1..(item' - 1) : rows'[Results[Current][i]] # {}
    OBVIOUS
  <2>3. item' <= Len(Results[Current])
    <3>1. \A n \in 1..2 : 1 <= n
      OBVIOUS
    <3>2. 1 <= Len(Results[Current])
      BY <2>1, <3>1
    <3>3. QED
      BY <2>2, <3>2
  <2>4. \A i \in 1..(item' - 1) : rows'[Results[Current][i]] # {}
    <3>1. item' - 1 = 0
      BY <2>2
    <3>2. QED
      BY <3>1
  <2>5. QED
    BY <2>3, <2>4
<1>6. deferred' \in BOOLEAN /\ (deferred => deferred')
  BY <1>1 DEF FailuresFit
<1>7. QED
  BY <1>1, <1>2, <1>3, <1>4, <1>5, <1>6, WorkFits

\* Phoronix is prepared, or all its profiles have failed.
LEMMA PreparePhoronixFits ==
  ASSUME SuiteInv, PreparePhoronix
  PROVE  SuiteInv'
<1>1. /\ place = "pts" /\ Current \in Compact /\ place \in WorkPlace
      /\ UNCHANGED <<plan, interrupted, stopAsked, guestDisks, httpd, stopLost>>
  BY DEF PreparePhoronix, At, Compact, WorkPlace, untouched, guests, web
<1>2. RunnerFits /\ RowsFit /\ StopFits /\ FailuresFit /\ ServerFits
  BY DEF SuiteInv
<1>3. CASE Fails(1) /\ FailMissing /\ deferred' = TRUE /\ NextBenchmark
  <2>1. RowsGrow /\ \A r \in RowsOf(Current) : rows'[r] # {}
    BY <1>1, <1>2, <1>3, Filled
  <2>2. mishaps' \in Nat /\ mishaps' > mishaps /\ mishaps' > 0 /\ mishaps \in Nat /\ ~stopAsked
    BY <1>2, <1>3, MishapsCount
  <2>3. place' \in {"end", "pts", "addresses", "stack", "measure"} /\ local' = {} /\ raised' = "none"
    BY <1>1, <1>2, <1>3, NextSelected DEF RunnerFits
  <2>4. ServerFits'
    BY <1>1, <1>2, <2>3, ServerStays
  <2>5. QED
    BY <1>1, <1>3, <2>1, <2>2, <2>3, <2>4, WorkFits
<1>4. CASE /\ UNCHANGED <<rows, deferred>>
           /\ \/ Works /\ GoTo("measure", 1)
              \/ Fails(1) /\ Raise
              \/ Stopped /\ Cancelled
  <2>1. /\ place' \in {"measure", "failed", "stopped"} /\ place' \in WorkPlace \cup {"failed", "stopped"}
        /\ item' = 1 /\ UNCHANGED <<bench, local, raised>>
        /\ place' = "stopped" => Stopped
    BY <1>4 DEF GoTo, Raise, Cancelled, WorkPlace
  <2>2. ServerFits'
    BY <1>1, <1>2, <2>1, ServerStays
  <2>3. QED
    BY <1>1, <1>4, <2>1, <2>2, RowlessFits
<1>5. QED
  BY <1>3, <1>4 DEF PreparePhoronix

\* A profile has a row, whatever became of it.
LEMMA MeasureProfileFits ==
  ASSUME SuiteInv, MeasureProfile
  PROVE  SuiteInv'
<1>1. /\ place = "measure" /\ Current \in Compact /\ place \in WorkPlace
      /\ UNCHANGED <<plan, interrupted, stopAsked, guestDisks, httpd, stopLost>>
  BY DEF MeasureProfile, At, Compact, WorkPlace, untouched, guests, web
<1>2. RunnerFits /\ RowsFit /\ StopFits /\ FailuresFit /\ ServerFits
  BY DEF SuiteInv
<1>3. item \in 1..Len(Results[Current]) /\ Len(Results[Current]) \in 1..2
  BY <1>1, <1>2, RowLengths DEF RunnerFits
<1>4. ASSUME NEW s \in {{"failed"}, {"completed"}}, Append1(Row, s), deferred' \in BOOLEAN, deferred => deferred',
             \/ Works /\ s = {"completed"} /\ Onward("measure")
             \/ (Fails(1) \/ Fails(2)) /\ deferred' /\ (Onward("measure") \/ Raise)
      PROVE  SuiteInv'
  <2>1. /\ RowsGrow /\ rows'[Row] # {}
        /\ s = {"completed"} => ("failed" \in Statuses' => "failed" \in Statuses)
    BY <1>1, <1>2, <1>3, <1>4, Appended
  <2>2. /\ \A i \in 1..item : rows'[Results[Current][i]] # {}
        /\ ~(item < Len(Results[Current])) => \A r \in RowsOf(Current) : rows'[r] # {}
    BY <1>1, <1>2, <2>1, RowsDone
  <2>3. /\ mishaps' \in Nat /\ mishaps' >= mishaps /\ mishaps \in Nat /\ ~stopAsked
        /\ "failed" \in Statuses' => "failed" \in Statuses \/ (mishaps' > 0 /\ deferred')
    BY <1>2, <1>4, <2>1, MishapsCount
  <2>4. CASE Onward("measure") /\ item < Len(Results[Current])
    <3>1. place' = "measure" /\ item' = item + 1 /\ UNCHANGED <<bench, local, raised>>
      BY <2>4 DEF Onward, GoTo
    <3>2. ServerFits'
      BY <1>1, <1>2, <3>1, ServerStays
    <3>3. /\ item' \in 1..6 /\ item' <= Len(Results[Current])
          /\ \A i \in 1..(item' - 1) : rows'[Results[Current][i]] # {}
      BY <1>3, <2>2, <2>4, <3>1
    <3>4. QED
      BY <1>1, <1>2, <1>4, <2>1, <2>3, <3>1, <3>2, <3>3, WorkFits DEF FailuresFit, StopFits
  <2>5. CASE Onward("measure") /\ ~(item < Len(Results[Current]))
    <3>1. NextBenchmark
      BY <2>5 DEF Onward
    <3>2. place' \in {"end", "pts", "addresses", "stack", "measure"} /\ local' = {} /\ raised' = "none"
      BY <1>1, <1>2, <3>1, NextSelected DEF RunnerFits
    <3>3. ServerFits'
      BY <1>1, <1>2, <3>2, ServerStays
    <3>4. QED
      BY <1>1, <1>4, <2>1, <2>2, <2>3, <2>5, <3>1, <3>2, <3>3, WorkFits
  <2>6. CASE Raise
    <3>1. place' = "failed" /\ item' = 1 /\ UNCHANGED <<bench, local, raised>>
      BY <2>6 DEF Raise, GoTo
    <3>2. ServerFits'
      BY <1>1, <1>2, <3>1, ServerStays
    <3>3. QED
      BY <1>1, <1>2, <1>4, <2>1, <2>3, <3>1, <3>2, WorkFits DEF FailuresFit, StopFits
  <2>7. QED
    BY <1>4, <2>4, <2>5, <2>6
<1>5. CASE Stopped /\ UNCHANGED <<rows, deferred>> /\ Cancelled
  <2>1. /\ place' = "stopped" /\ item' = 1 /\ UNCHANGED <<bench, local, raised>>
    BY <1>5 DEF Cancelled, GoTo
  <2>2. ServerFits'
    BY <1>1, <1>2, <2>1, ServerStays
  <2>3. QED
    BY <1>1, <1>5, <2>1, <2>2, RowlessFits
<1>6. QED
  <2>1. CASE Works /\ Append1(Row, {"completed"}) /\ Onward("measure") /\ UNCHANGED deferred
    BY <1>2, <1>4, <2>1 DEF FailuresFit
  <2>2. CASE /\ \E s \in {{"failed"}, {"completed"}} : Append1(Row, s)
             /\ deferred' = TRUE
             /\ (Fails(1) /\ Onward("measure")) \/ (Fails(2) /\ Raise)
    BY <1>4, <2>2
  <2>3. QED
    BY <1>5, <2>1, <2>2 DEF MeasureProfile

\* Addresses and a capacity are there, or all its modes have failed.
LEMMA CheckAddressesFits ==
  ASSUME SuiteInv, CheckAddresses
  PROVE  SuiteInv'
<1>1. /\ place = "addresses" /\ Current \in Compact /\ place \in WorkPlace
      /\ UNCHANGED <<plan, interrupted, stopAsked, guestDisks, httpd, stopLost>>
  BY DEF CheckAddresses, At, Compact, Http, WorkPlace, untouched, guests, web
<1>2. RunnerFits /\ RowsFit /\ StopFits /\ FailuresFit /\ ServerFits
  BY DEF SuiteInv
<1>3. CASE GoTo("service", 1) /\ UNCHANGED <<rows, deferred, mishaps>>
  <2>1. place' = "service" /\ item' = 1 /\ UNCHANGED <<bench, local, raised>> /\ place' \in WorkPlace
    BY <1>3 DEF GoTo, WorkPlace
  <2>2. local = {}
    BY <1>1, <1>2 DEF ServerFits
  <2>3. ServerFits'
    BY <1>1, <1>2, <2>1, <2>2, ServerStays
  <2>4. QED
    BY <1>1, <1>3, <2>1, <2>3, RowlessFits
<1>4. CASE FailMissing /\ Fails(1) /\ deferred' = TRUE /\ NextBenchmark
  <2>1. RowsGrow /\ \A r \in RowsOf(Current) : rows'[r] # {}
    BY <1>1, <1>2, <1>4, Filled
  <2>2. mishaps' \in Nat /\ mishaps' > mishaps /\ mishaps' > 0 /\ mishaps \in Nat /\ ~stopAsked
    BY <1>2, <1>4, MishapsCount
  <2>3. place' \in {"end", "pts", "addresses", "stack", "measure"} /\ local' = {} /\ raised' = "none"
    BY <1>1, <1>2, <1>4, NextSelected DEF RunnerFits
  <2>4. ServerFits'
    BY <1>1, <1>2, <2>3, ServerStays
  <2>5. QED
    BY <1>1, <1>4, <2>1, <2>2, <2>3, <2>4, WorkFits
<1>5. CASE FailMissing /\ Fails(2) /\ UNCHANGED deferred /\ Raise
  <2>1. RowsGrow
    BY <1>1, <1>2, <1>5, Filled
  <2>2. mishaps' \in Nat /\ mishaps' > mishaps /\ mishaps' > 0 /\ mishaps \in Nat /\ ~stopAsked
    BY <1>2, <1>5, MishapsCount
  <2>3. place' = "failed" /\ item' = 1 /\ UNCHANGED <<bench, local, raised>>
    BY <1>5 DEF Raise, GoTo
  <2>4. ServerFits'
    BY <1>1, <1>2, <2>3, ServerStays
  <2>5. QED
    BY <1>1, <1>2, <1>5, <2>1, <2>2, <2>3, <2>4, WorkFits DEF FailuresFit, StopFits
<1>6. QED
  BY <1>3, <1>4, <1>5 DEF CheckAddresses

\* The server is installed; one that an earlier benchmark left serves on.
LEMMA InstallServerFits ==
  ASSUME SuiteInv, InstallServer
  PROVE  SuiteInv'
<1>1. /\ place = "service" /\ Current \in Compact /\ place \in WorkPlace
      /\ UNCHANGED <<plan, interrupted, stopAsked, guestDisks, rows, deferred, bench, stopLost>>
      /\ item' \in {1, item}
  BY DEF InstallServer, At, Compact, Http, WorkPlace, untouched, GoTo, Unwind
<1>2. ServerFits
  BY DEF SuiteInv
<1>3. /\ place' \in {"client", "handler", "finally"} /\ place' \in WorkPlace
      /\ place' = "client" => local' = {"installed"} /\ raised' = raised /\ Works
      /\ place' = "handler" => Fails(1) /\ raised' = raised
      /\ place' = "finally" => Stopped /\ raised' = "stop"
      /\ httpd' \in {httpd, Present(httpd)}
      /\ Works \/ Fails(1) \/ Stopped
  BY DEF InstallServer, GoTo, Unwind, WorkPlace
<1>4. ServerFits'
  <2>1. httpd' = "serving" => httpd = "serving"
    BY <1>3 DEF Present
  <2>2. QED
    BY <1>1, <1>2, <1>3, <2>1 DEF ServerFits
<1>5. QED
  BY <1>1, <1>3, <1>4, RowlessFits

\* A step with the server installed that leaves it alone.
LEMMA InstallClientFits ==
  ASSUME SuiteInv, InstallClient \/ ProbeTarget
  PROVE  SuiteInv'
<1>1. /\ place \in {"client", "probe"} /\ Current \in Compact /\ place \in WorkPlace
      /\ UNCHANGED <<plan, interrupted, stopAsked, guestDisks, rows, deferred, bench, local, httpd, stopLost>>
      /\ item' \in {1, item}
  BY DEF InstallClient, ProbeTarget, At, Compact, Http, WorkPlace, untouched, guests, web, GoTo, Unwind
<1>2. ServerFits
  BY DEF SuiteInv
<1>3. /\ place' \in {"target", "mode", "handler", "finally"} /\ place' \in WorkPlace
      /\ place = "probe" => place' # "target"
      /\ place = "client" => place' # "mode"
      /\ place' \in {"target", "mode"} => raised' = raised /\ item' = 1 /\ Works
      /\ place' = "handler" => Fails(1) /\ raised' = raised
      /\ place' = "finally" => Stopped /\ raised' = "stop"
      /\ Works \/ Fails(1) \/ Stopped
  BY DEF InstallClient, ProbeTarget, At, GoTo, Unwind, WorkPlace
<1>4. ServerFits'
  BY <1>1, <1>2, <1>3 DEF ServerFits
<1>5. QED
  BY <1>1, <1>3, <1>4, RowlessFits

\* The server is started.
LEMMA PrepareTargetFits ==
  ASSUME SuiteInv, PrepareTarget
  PROVE  SuiteInv'
<1>1. /\ place = "target" /\ Current \in Compact /\ place \in WorkPlace
      /\ UNCHANGED <<plan, interrupted, stopAsked, guestDisks, rows, deferred, bench, stopLost>>
      /\ item' \in {1, item} /\ local \subseteq local'
  BY DEF PrepareTarget, At, Compact, Http, WorkPlace, untouched, GoTo, Unwind
<1>2. ServerFits
  BY DEF SuiteInv
<1>3. /\ place' \in {"probe", "handler", "finally"} /\ place' \in WorkPlace
      /\ place' = "probe" => raised' = raised /\ Works
      /\ place' = "handler" => Fails(1) /\ raised' = raised
      /\ place' = "finally" => Stopped /\ raised' = "stop"
      /\ Works \/ Fails(1) \/ Stopped
  BY DEF PrepareTarget, GoTo, Unwind, WorkPlace
<1>4. ServerFits'
  BY <1>1, <1>2, <1>3 DEF ServerFits
<1>5. QED
  BY <1>1, <1>3, <1>4, RowlessFits

\* A mode has a row, whatever became of it.
LEMMA MeasureModeFits ==
  ASSUME SuiteInv, MeasureMode
  PROVE  SuiteInv'
<1>1. /\ place = "mode" /\ Current \in Compact /\ place \in WorkPlace
      /\ UNCHANGED <<plan, interrupted, stopAsked, guestDisks, httpd, stopLost>>
  BY DEF MeasureMode, At, Compact, Http, WorkPlace, untouched, guests, web
<1>2. RunnerFits /\ RowsFit /\ StopFits /\ FailuresFit /\ ServerFits /\ "installed" \in local
  BY <1>1 DEF SuiteInv, ServerFits
<1>3. item \in 1..Len(Results[Current]) /\ Len(Results[Current]) \in 1..2
  BY <1>1, <1>2, RowLengths DEF RunnerFits
<1>4. ASSUME NEW s \in {{"failed"}, {"completed"}, {"completed", "failed"}}, Append1(Row, s),
             deferred' \in BOOLEAN, deferred => deferred',
             \/ Works /\ s = {"completed"} /\ OnwardMode
             \/ (Fails(1) \/ Fails(2)) /\ deferred' /\ (OnwardMode \/ GoTo("handler", item))
      PROVE  SuiteInv'
  <2>1. /\ RowsGrow /\ rows'[Row] # {}
        /\ s = {"completed"} => ("failed" \in Statuses' => "failed" \in Statuses)
    BY <1>1, <1>2, <1>3, <1>4, Appended
  <2>2. /\ \A i \in 1..item : rows'[Results[Current][i]] # {}
        /\ ~(item < Len(Results[Current])) => \A r \in RowsOf(Current) : rows'[r] # {}
    BY <1>1, <1>2, <2>1, RowsDone
  <2>3. /\ mishaps' \in Nat /\ mishaps' >= mishaps /\ mishaps \in Nat /\ ~stopAsked
        /\ "failed" \in Statuses' => "failed" \in Statuses \/ (mishaps' > 0 /\ deferred')
    BY <1>2, <1>4, <2>1, MishapsCount
  <2>4. CASE OnwardMode /\ item < Len(Results[Current])
    <3>1. place' = "mode" /\ item' = item + 1 /\ UNCHANGED <<bench, local, raised>>
      BY <2>4 DEF OnwardMode, GoTo
    <3>2. ServerFits'
      BY <1>1, <1>2, <3>1, ServerStays
    <3>3. /\ item' \in 1..6 /\ item' <= Len(Results[Current])
          /\ \A i \in 1..(item' - 1) : rows'[Results[Current][i]] # {}
      BY <1>3, <2>2, <2>4, <3>1
    <3>4. QED
      BY <1>1, <1>2, <1>4, <2>1, <2>3, <3>1, <3>2, <3>3, WorkFits DEF FailuresFit, StopFits
  <2>5. CASE OnwardMode /\ ~(item < Len(Results[Current]))
    <3>1. place' = "finally" /\ item' = 1 /\ UNCHANGED <<bench, local, raised>> /\ place' \in WorkPlace
      BY <2>5 DEF OnwardMode, GoTo, WorkPlace
    <3>2. ServerFits'
      BY <1>1, <1>2, <3>1, ServerStays
    <3>3. QED
      BY <1>1, <1>2, <1>4, <2>1, <2>2, <2>3, <2>5, <3>1, <3>2, WorkFits DEF FailuresFit, StopFits
  <2>6. CASE (Fails(1) \/ Fails(2)) /\ GoTo("handler", item)
    <3>1. place' = "handler" /\ item' = item /\ UNCHANGED <<bench, local, raised>> /\ place' \in WorkPlace
      BY <2>6 DEF GoTo, WorkPlace
    <3>2. ServerFits'
      BY <1>1, <1>2, <3>1, ServerStays
    <3>3. item' \in 1..6
      BY <1>2, <3>1 DEF RunnerFits
    <3>4. mishaps' > 0
      BY <1>2, <2>6, MishapsCount
    <3>5. QED
      BY <1>1, <1>2, <1>4, <2>1, <2>3, <3>1, <3>2, <3>3, <3>4, WorkFits DEF FailuresFit, StopFits
  <2>7. QED
    BY <1>4, <2>4, <2>5, <2>6
<1>5. CASE Stopped /\ UNCHANGED <<rows, deferred>> /\ Unwind("stop")
  <2>1. place' = "finally" /\ raised' = "stop" /\ UNCHANGED <<bench, item, local>> /\ place' \in WorkPlace
    BY <1>5 DEF Unwind, WorkPlace
  <2>2. ServerFits'
    BY <1>1, <1>2, <2>1, ServerStays
  <2>3. QED
    BY <1>1, <1>5, <2>1, <2>2, RowlessFits
<1>6. QED
  <2>1. CASE Works /\ Append1(Row, {"completed"}) /\ OnwardMode /\ UNCHANGED deferred
    BY <1>2, <1>4, <2>1 DEF FailuresFit
  <2>2. CASE /\ \E s \in {{"failed"}, {"completed", "failed"}} : Append1(Row, s)
             /\ deferred' = TRUE
             /\ (Fails(1) /\ OnwardMode) \/ (Fails(2) /\ GoTo("handler", item))
    BY <1>4, <2>2
  <2>3. QED
    BY <1>5, <2>1, <2>2 DEF MeasureMode

\* The modes that have no row fail with the setup.
LEMMA HandleFailureFits ==
  ASSUME SuiteInv, HandleFailure
  PROVE  SuiteInv'
<1>1. /\ place = "handler" /\ Current \in Compact /\ place \in WorkPlace
      /\ UNCHANGED <<plan, interrupted, stopAsked, guestDisks, httpd, stopLost>>
      /\ FailMissing
      /\ deferred' = (deferred \/ \E r \in RowsOf(Current) : rows[r] = {})
      /\ place' = "finally" /\ place' \in WorkPlace
      /\ UNCHANGED <<bench, local>> /\ item' \in {1, item}
      /\ \/ raised' = raised /\ mishaps' = mishaps
         \/ raised' = "error" /\ mishaps' = mishaps + 1
  BY DEF HandleFailure, At, Compact, Http, WorkPlace, untouched, guests, web, GoTo, Unwind
<1>2. RunnerFits /\ RowsFit /\ StopFits /\ FailuresFit /\ ServerFits
  BY DEF SuiteInv
<1>3. /\ RowsGrow
      /\ \A r \in RowsOf(Current) : rows'[r] # {}
      /\ rows' = rows \/ "failed" \in Statuses'
      /\ (\A r \in RowsOf(Current) : rows[r] # {}) => rows' = rows
  BY <1>1, <1>2, Filled
<1>4. deferred' \in BOOLEAN /\ (deferred => deferred')
  BY <1>1, <1>2 DEF FailuresFit
<1>5. rows' = rows => Statuses' = Statuses
  BY DEF Statuses
<1>6. mishaps \in Nat /\ mishaps > 0 /\ mishaps' \in Nat /\ mishaps' >= mishaps /\ mishaps' > 0
  BY <1>1, <1>2 DEF FailuresFit
<1>7. "failed" \in Statuses' => "failed" \in Statuses \/ (mishaps' > 0 /\ deferred')
  BY <1>1, <1>3, <1>5, <1>6
<1>8. ServerFits'
  BY <1>1, <1>2, ServerStays
<1>9. item' \in 1..6 /\ raised' \in {"none", "error", "stop"} /\ (raised' = "stop" => stopAsked)
  BY <1>1, <1>2 DEF RunnerFits, FailuresFit, StopFits
<1>10. QED
  BY <1>1, <1>3, <1>4, <1>6, <1>7, <1>8, <1>9, WorkFits

\* The finally clause: a server that would serve beside DeathStarBench is stopped, or
\* known to be lost.
LEMMA LookAfterServerFits ==
  ASSUME SuiteInv, LookAfterServer
  PROVE  SuiteInv'
<1>1. /\ place = "finally" /\ Current \in Compact /\ place \in WorkPlace
      /\ UNCHANGED <<plan, interrupted, stopAsked, guestDisks, rows, deferred>>
  BY DEF LookAfterServer, At, Compact, Http, WorkPlace, untouched
<1>2. RunnerFits /\ RowsFit /\ StopFits /\ FailuresFit /\ ServerFits /\ plan \in Plans
  BY <1>1 DEF SuiteInv, RunnerFits
<1>3. /\ (NextBenchmark /\ raised = "none") \/ Raise \/ Cancelled
      /\ Cancelled => (Stopped \/ raised = "stop")
      /\ Works \/ Stopped \/ Fails(1) \/ Fails(2) \/ UNCHANGED mishaps \/ mishaps' = mishaps + 1
      /\ \/ "deathstarbench" \notin plan.benchmarks
         \/ httpd' = "installed"
         \/ stopLost'
         \/ Cancelled
         \/ "installed" \notin local /\ UNCHANGED <<httpd, stopLost>>
  <2>1. Leave => (NextBenchmark /\ raised = "none") \/ Raise \/ (Cancelled /\ raised = "stop")
    BY <1>2 DEF Leave, FailuresFit
  <2>2. Raise => ~Cancelled
    BY DEF Raise, Cancelled, GoTo
  <2>3. NextBenchmark => ~Cancelled
    BY <1>2, NextSelected DEF Cancelled, GoTo, untouched, LookAfterServer
  <2>4. CASE Retain /\ UNCHANGED <<httpd, stopLost>> /\ Leave /\ UNCHANGED mishaps
    BY <2>1, <2>2, <2>3, <2>4 DEF Retain
  <2>5. CASE Retain /\ UNCHANGED <<httpd, stopLost>> /\ mishaps' = mishaps + 1 /\ Raise
    BY <2>2, <2>5 DEF Retain
  <2>6. CASE Works /\ httpd' = "installed" /\ Leave /\ UNCHANGED stopLost
    BY <2>1, <2>2, <2>3, <2>6
  <2>7. CASE stopLost' = TRUE /\ Fails(1) /\ Leave
    BY <2>1, <2>2, <2>3, <2>7
  <2>8. CASE stopLost' = TRUE /\ Fails(2) /\ Raise
    BY <2>2, <2>8
  <2>9. CASE Stopped /\ Cancelled
    BY <2>9
  <2>10. CASE "installed" \notin local /\ Leave /\ UNCHANGED <<httpd, stopLost, mishaps>>
    BY <2>1, <2>2, <2>3, <2>10
  <2>11. QED
    BY <2>4, <2>5, <2>6, <2>7, <2>8, <2>9, <2>10 DEF LookAfterServer
<1>4. RowsGrow /\ Statuses' = Statuses /\ deferred' \in BOOLEAN /\ mishaps \in Nat
  BY <1>1, <1>2, SameRowsGrow DEF FailuresFit
<1>5. mishaps' \in Nat /\ mishaps' >= mishaps
  BY <1>2, <1>3, <1>4, MishapsCount
<1>6. CASE NextBenchmark /\ raised = "none"
  <2>1. place' \in {"end", "pts", "addresses", "stack", "measure"} /\ local' = {} /\ raised' = "none"
    BY <1>1, <1>2, <1>6, NextSelected
  <2>2. \A r \in RowsOf(Current) : rows'[r] # {}
    BY <1>1, <1>2, <1>6 DEF RowsFit
  <2>3. ~Cancelled
    BY <2>1 DEF Cancelled, GoTo
  <2>4. ServerFits'
    BY <1>1, <1>2, <1>3, <2>1, <2>3 DEF ServerFits
  <2>5. QED
    BY <1>1, <1>4, <1>5, <1>6, <2>1, <2>2, <2>4, WorkFits
<1>7. CASE Raise \/ Cancelled
  <2>1. /\ place' \in {"failed", "stopped"} /\ item' = 1 /\ UNCHANGED <<bench, local, raised>>
        /\ place' = "stopped" => Cancelled
    BY <1>7 DEF Raise, Cancelled, GoTo
  <2>2. ServerFits'
    BY <1>1, <2>1 DEF ServerFits
  <2>3. (place' = "stopped" => stopAsked) /\ raised' \in {"none", "error", "stop"} /\ (raised' = "stop" => stopAsked)
    BY <1>2, <1>3, <2>1 DEF Stopped, StopFits, FailuresFit
  <2>4. QED
    BY <1>1, <1>4, <1>5, <2>1, <2>2, <2>3, WorkFits
<1>8. QED
  BY <1>3, <1>6, <1>7

\* DeathStarBench is deployed and loaded, or has a failed row.
LEMMA DeployFits ==
  ASSUME SuiteInv, DeployStack \/ LoadDataset
  PROVE  SuiteInv'
<1>1. /\ place \in {"stack", "dataset"} /\ Current = "deathstarbench" /\ place \in WorkPlace
      /\ UNCHANGED <<plan, interrupted, stopAsked, guestDisks, deferred, httpd, stopLost>>
      /\ \/ Works /\ UNCHANGED rows /\ (GoTo("dataset", 1) \/ GoTo("measure", 1))
         \/ FailStack
         \/ Stopped /\ UNCHANGED rows /\ Cancelled
  BY DEF DeployStack, LoadDataset, At, WorkPlace, untouched, guests, web
<1>2. RunnerFits /\ RowsFit /\ StopFits /\ FailuresFit /\ ServerFits /\ Current \in Compact
  BY <1>1 DEF SuiteInv, Compact
<1>3. CASE FailStack
  <2>1. RowsGrow
    <3>1. rows' = [rows EXCEPT ![Row] = rows[Row] \cup {"failed"}]
      BY <1>3 DEF FailStack, Append1
    <3>2. rows \in [ResultIds -> SUBSET {"completed", "failed"}]
      BY <1>2 DEF RowsFit
    <3>3. \A r \in ResultIds : rows'[r] = IF r = Row THEN rows[r] \cup {"failed"} ELSE rows[r]
      BY <3>1, <3>2
    <3>4. QED
      BY <3>1, <3>2, <3>3 DEF RowsGrow
  <2>2. place' = "failed" /\ item' = 1 /\ UNCHANGED <<bench, local, raised>>
    BY <1>3 DEF FailStack, Raise, GoTo
  <2>3. mishaps' \in Nat /\ mishaps' > mishaps /\ mishaps' > 0 /\ mishaps \in Nat /\ ~stopAsked
    BY <1>2, <1>3, MishapsCount DEF FailStack
  <2>4. ServerFits'
    BY <1>1, <1>2, <2>2, ServerStays
  <2>5. QED
    BY <1>1, <1>2, <2>1, <2>2, <2>3, <2>4, WorkFits DEF FailuresFit, StopFits
<1>4. CASE UNCHANGED rows /\ ~FailStack
  <2>1. /\ place' \in WorkPlace \cup {"failed", "stopped"} /\ place' \in {"dataset", "measure", "stopped"}
        /\ item' = 1 /\ UNCHANGED <<bench, local, raised>>
        /\ place' = "stopped" => Stopped
        /\ Works \/ Stopped
    BY <1>1, <1>4 DEF GoTo, Cancelled, WorkPlace
  <2>2. ServerFits'
    BY <1>1, <1>2, <2>1, ServerStays
  <2>3. QED
    BY <1>1, <1>2, <1>4, <2>1, <2>2, RowlessFits
<1>5. QED
  BY <1>1, <1>3, <1>4

-------------------------------------------------------------------------------
(* The end, a stop, and the guest.                                         *)

\* The runner returns when nothing was deferred.
LEMMA RaiseDeferredFits ==
  ASSUME SuiteInv, RaiseDeferred
  PROVE  SuiteInv'
<1>1. /\ place = "end" /\ item' = 1
      /\ UNCHANGED <<plan, interrupted, stopAsked, rows, deferred, guestDisks, httpd, stopLost, mishaps,
                     bench, local, raised>>
      /\ IF deferred THEN place' = "failed" ELSE place' = "returned"
  BY DEF RaiseDeferred, untouched, guests, web, GoTo, Raise
<1>2. StorageFits /\ RunnerFits /\ RowsFit /\ FailuresFit /\ StopFits /\ ServerFits
  BY DEF SuiteInv
<1>3. place' \in {"failed", "returned"} /\ (place' = "returned" <=> ~deferred)
  BY <1>1
<1>4. StorageFits'
  BY <1>1, <1>2, <1>3, StorageRests
<1>5. Current' = Current /\ Statuses' = Statuses /\ Expected' = Expected /\ Behind = bench
      /\ Behind' \in {bench, bench - 1}
  BY <1>1, <1>3 DEF Current, Statuses, Expected, Behind
<1>6. RunnerFits'
  BY <1>1, <1>2, <1>3, <1>5 DEF RunnerFits, SuitePlace
<1>7. RowsFit'
  <2>1. \A i \in 1..Behind' : i \in 1..Behind
    BY <1>2, <1>5 DEF RunnerFits
  <2>2. QED
    BY <1>1, <1>2, <1>3, <2>1 DEF RowsFit
<1>8. FailuresFit'
  BY <1>1, <1>2, <1>3, <1>5 DEF FailuresFit
<1>9. StopFits'
  BY <1>1, <1>2, <1>3, <1>5 DEF StopFits
<1>10. ServerFits'
  BY <1>1, <1>2, <1>3 DEF ServerFits
<1>11. QED
  BY <1>4, <1>6, <1>7, <1>8, <1>9, <1>10 DEF SuiteInv

\* A plan expects rows.
LEMMA ExpectedRows ==
  ASSUME plan \in Plans
  PROVE  Expected # {} /\ Expected \subseteq ResultIds
<1>1. plan.benchmarks \subseteq Compact /\ plan.benchmarks # {}
  BY PlansAreValid
<1>2. PICK b \in plan.benchmarks : b \in Compact
  BY <1>1
<1>3. RowsOf(b) # {}
  BY <1>2, RowLengths
<1>4. Expected # {}
  BY <1>2, <1>3 DEF Expected
<1>5. Expected \subseteq ResultIds
  BY <1>1 DEF Expected, ResultIds
<1>6. QED
  BY <1>4, <1>5

\* A run is interrupted when it is stopped before it is complete or has failed.
LEMMA AskStopFits ==
  ASSUME SuiteInv, AskStop
  PROVE  SuiteInv'
<1>1. /\ UNCHANGED <<plan, bench, place, item, local, raised, rows, deferred, guestDisks, httpd, stopLost, mishaps>>
      /\ stopAsked' = TRUE /\ ~stopAsked /\ place \notin {"idle", "returned", "failed", "stopped"}
      /\ interrupted' = (Outcome \notin {"complete", "failed"})
  BY DEF AskStop, runner, guests, web, Running
<1>2. StorageFits /\ RunnerFits /\ RowsFit /\ FailuresFit /\ StopFits /\ ServerFits
  BY DEF SuiteInv
<1>3. Current' = Current /\ Statuses' = Statuses /\ Expected' = Expected /\ Behind = Behind'
  BY <1>1 DEF Current, Statuses, Expected, Behind
<1>4. StorageFits'
  BY <1>1, <1>2 DEF StorageFits, DisksFit, ScriptsFit, TargetFits, guestDisks
<1>5. RunnerFits'
  BY <1>1, <1>2, <1>3 DEF RunnerFits
<1>6. RowsFit'
  BY <1>1, <1>2, <1>3 DEF RowsFit
<1>7. FailuresFit'
  BY <1>1, <1>2, <1>3 DEF FailuresFit
<1>8. ServerFits'
  BY <1>1, <1>2 DEF ServerFits
<1>9. StopFits'
  <2>1. ~interrupted
    BY <1>1, <1>2 DEF StopFits
  <2>2. Outcome = IF "failed" \in Statuses THEN "failed"
                  ELSE IF Statuses # {} /\ \A r \in Expected : "completed" \in rows[r] THEN "complete"
                  ELSE "pending"
    BY <1>1, <2>1 DEF Outcome
  <2>3. interrupted' <=>
          "failed" \notin Statuses /\ ~(Statuses # {} /\ \A r \in Expected : "completed" \in rows[r])
    BY <1>1, <2>2
  <2>4. interrupted' \in BOOLEAN
    BY <1>1
  <2>5. interrupted' => \E r \in Expected : "completed" \notin rows[r]
    <3>1. plan \in Plans
      BY <1>1, <1>2 DEF RunnerFits
    <3>2. PICK r \in Expected : r \in ResultIds
      BY <3>1, ExpectedRows
    <3>3. Statuses = {} => "completed" \notin rows[r]
      BY <3>2 DEF Statuses
    <3>4. QED
      BY <2>3, <3>2, <3>3
  <2>6. QED
    BY <1>1, <1>2, <1>3, <2>3, <2>4, <2>5 DEF StopFits
<1>10. QED
  BY <1>4, <1>5, <1>6, <1>7, <1>8, <1>9 DEF SuiteInv

\* The guest goes on while the runner waits.
LEMMA GuestFits ==
  ASSUME SuiteInv, Guest(RunScript) \/ Guest(RunLeftover) \/ Guest(Agent)
  PROVE  SuiteInv'
<1>1. UNCHANGED <<plan, bench, place, item, local, raised, rows, deferred, interrupted, stopAsked, httpd,
                  stopLost, mishaps>>
  BY DEF Guest, runner, web, RunScript, RunLeftover, Agent, AgentTakesLocal
<1>2. StorageFits /\ RunnerFits /\ RowsFit /\ FailuresFit /\ StopFits /\ ServerFits
  BY DEF SuiteInv
<1>3. Current' = Current /\ Statuses' = Statuses /\ Expected' = Expected /\ Behind = Behind'
  BY <1>1 DEF Current, Statuses, Expected, Behind
<1>4. StorageFits'
  BY <1>2, ScriptsKeepStorage, LeftoversKeepStorage, AgentKeepsStorage
<1>5. RunnerFits'
  BY <1>1, <1>2, <1>3 DEF RunnerFits
<1>6. RowsFit'
  BY <1>1, <1>2, <1>3 DEF RowsFit
<1>7. FailuresFit'
  BY <1>1, <1>2, <1>3 DEF FailuresFit
<1>8. StopFits'
  BY <1>1, <1>2, <1>3 DEF StopFits
<1>9. ServerFits'
  BY <1>1, <1>2 DEF ServerFits
<1>10. QED
  BY <1>4, <1>5, <1>6, <1>7, <1>8, <1>9 DEF SuiteInv

\* The other programs leave the suite alone.
LEMMA SuiteRests ==
  ASSUME SuiteInv, UNCHANGED suite
  PROVE  SuiteInv'
<1>1. UNCHANGED <<plan, bench, place, item, local, raised, rows, deferred, interrupted, stopAsked, httpd,
                  stopLost, mishaps, disks, script, leftovers, target>>
  BY DEF suite, runner, guestDisks
<1>2. StorageFits /\ RunnerFits /\ RowsFit /\ FailuresFit /\ StopFits /\ ServerFits
  BY DEF SuiteInv
<1>3. Current' = Current /\ Statuses' = Statuses /\ Expected' = Expected /\ Behind = Behind'
  BY <1>1 DEF Current, Statuses, Expected, Behind
<1>4. StorageFits'
  BY <1>1, <1>2 DEF StorageFits, DisksFit, ScriptsFit, TargetFits
<1>5. RunnerFits' /\ RowsFit'
  BY <1>1, <1>2, <1>3 DEF RunnerFits, RowsFit
<1>6. FailuresFit' /\ StopFits'
  BY <1>1, <1>2, <1>3 DEF FailuresFit, StopFits
<1>7. ServerFits'
  BY <1>1, <1>2 DEF ServerFits
<1>8. QED
  BY <1>4, <1>5, <1>6, <1>7 DEF SuiteInv

LEMMA SuiteStepFits ==
  ASSUME SuiteInv, SuiteStep
  PROVE  SuiteInv'
<1>1. CASE ConnectTransport \/ WaitForReadiness \/ InstallTools \/ WaitForPeer \/ RecordTopology
  BY <1>1, PreparesFit DEF WaitForReadiness, InstallTools, WaitForPeer, RecordTopology
<1>2. CASE BeginStorage \/ AwaitLocal \/ AwaitMount \/ AwaitDescription
  BY <1>2, BeginStorageFits, AwaitLocalFits, AwaitMountFits, AwaitDescriptionFits
<1>3. CASE Measure \/ PreparePhoronix \/ MeasureProfile
  BY <1>3, MeasureFits, PreparePhoronixFits, MeasureProfileFits
<1>4. CASE CheckAddresses \/ InstallServer \/ InstallClient \/ PrepareTarget \/ ProbeTarget
  BY <1>4, CheckAddressesFits, InstallServerFits, InstallClientFits, PrepareTargetFits
<1>5. CASE MeasureMode \/ HandleFailure \/ LookAfterServer
  BY <1>5, MeasureModeFits, HandleFailureFits, LookAfterServerFits
<1>6. CASE DeployStack \/ LoadDataset \/ RaiseDeferred
  BY <1>6, DeployFits, RaiseDeferredFits
<1>7. QED
  BY <1>1, <1>2, <1>3, <1>4, <1>5, <1>6 DEF SuiteStep

\* A run of a plan begins with its preparation; the other programs have no plan.
LEMMA SuiteBegins ==
  ASSUME SuiteInit,
         \/ plan \in Plans /\ place = "prepare"
         \/ plan = NoPlan /\ place = "idle"
  PROVE  SuiteInv
<1>1. /\ bench = 0 /\ item \in {1, 2} /\ local = {} /\ raised = "none"
      /\ rows = [r \in ResultIds |-> {}] /\ deferred = FALSE
      /\ interrupted = FALSE /\ stopAsked = FALSE
      /\ httpd = "absent" /\ stopLost = FALSE /\ mishaps = 0
      /\ script = NoScript /\ leftovers = {} /\ target = "none"
  BY DEF SuiteInit, DisksInit
<1>2. Statuses = {}
  BY <1>1 DEF Statuses
<1>3. DisksFit
  <2>1. PICK c \in {"absent", "blank", "foreign"} :
          disks = [local |-> [content |-> c, mount |-> "none"],
                   data |-> [content |-> IF plan.volume THEN "blank" ELSE "absent", mount |-> "none"]]
    BY DEF SuiteInit, DisksInit
  <2>2. /\ disks = [d \in Disk |-> IF d = "local" THEN [content |-> c, mount |-> "none"]
                      ELSE [content |-> IF plan.volume THEN "blank" ELSE "absent", mount |-> "none"]]
    BY <2>1 DEF Disk
  <2>3. QED
    BY <2>2 DEF DisksFit, Disk, DiskState, Content
<1>4. NoScript.disk = "none" /\ NoScript.at = "none"
  BY DEF NoScript
<1>5. ScriptsFit
  BY <1>1, <1>4 DEF ScriptsFit
<1>6. TargetFits
  BY <1>1 DEF TargetFits
<1>7. RunnerFits
  BY <1>1 DEF RunnerFits, SuitePlace
<1>8. RowsFit
  BY <1>1 DEF RowsFit, Behind
<1>9. FailuresFit
  BY <1>1, <1>2 DEF FailuresFit
<1>10. StopFits
  BY <1>1 DEF StopFits
<1>11. ServerFits
  BY <1>1 DEF ServerFits
<1>12. QED
  BY <1>3, <1>5, <1>6, <1>7, <1>8, <1>9, <1>10, <1>11 DEF SuiteInv, StorageFits

LEMMA SuiteInvStep ==
  ASSUME SuiteInv, [RunNext]_run
  PROVE  SuiteInv'
<1>1. CASE CompactRun(SuiteStep)
  BY <1>1, SuiteStepFits DEF CompactRun
<1>2. CASE CompactRun(AskStop)
  BY <1>2, AskStopFits DEF CompactRun
<1>3. CASE CompactRun(Guest(RunScript)) \/ CompactRun(Guest(RunLeftover)) \/ CompactRun(Guest(Agent))
  BY <1>3, GuestFits DEF CompactRun
<1>4. CASE UNCHANGED suite
  BY <1>4, SuiteRests
<1>5. RunNext => CompactRun(SuiteStep) \/ CompactRun(AskStop) \/ CompactRun(Guest(RunScript))
                 \/ CompactRun(Guest(RunLeftover)) \/ CompactRun(Guest(Agent)) \/ UNCHANGED suite
  BY DEF RunNext, Work, Awaited, Passing, Later, Distributed, Candidate, Operator
<1>6. UNCHANGED run => UNCHANGED suite
  BY DEF run
<1>7. QED
  BY <1>1, <1>2, <1>3, <1>4, <1>5, <1>6

\* What the compact run goes by, at every step.
THEOREM SuiteInvHolds == RunSpec => []SuiteInv
<1>1. RunInit => SuiteInv
  BY SuiteBegins DEF RunInit
<1>2. SuiteInv /\ [RunNext]_run => SuiteInv'
  BY SuiteInvStep
<1>3. QED
  BY <1>1, <1>2, PTL DEF RunSpec

-------------------------------------------------------------------------------
(* What follows for the compact run.                                       *)

\* A runner that returns has completed every row the plan expects, a stop leaves no
\* failed row, and no workload of a benchmark that is behind is without a row.
THEOREM RunsAreHonest == RunSpec => []OutcomeIsHonest
<1>1. SuiteInv => OutcomeIsHonest
  <2> SUFFICES ASSUME SuiteInv PROVE OutcomeIsHonest
    OBVIOUS
  <2>1. RunnerFits /\ RowsFit /\ FailuresFit /\ StopFits
    BY DEF SuiteInv
  <2>2. NoWorkloadIsForgotten
    BY <2>1 DEF NoWorkloadIsForgotten, Running, RowsFit, Behind
  <2>3. mishaps = 0 => "failed" \notin Statuses
    BY <2>1 DEF FailuresFit
  <2>4. place = "returned" => Outcome = "complete"
    <3> SUFFICES ASSUME place = "returned" PROVE Outcome = "complete"
      OBVIOUS
    <3>1. plan \in Plans /\ ~deferred /\ "failed" \notin Statuses
      BY <2>1 DEF RunnerFits, FailuresFit
    <3>2. plan.benchmarks \subseteq Compact
      BY <3>1, PlansAreValid
    <3>3. ASSUME NEW r \in Expected PROVE "completed" \in rows[r]
      <4>1. PICK b \in plan.benchmarks : r \in RowsOf(b)
        BY <3>3 DEF Expected
      <4>2. PICK i \in 1..7 : Order(plan.provider)[i] = b
        BY <3>2, Orders
      <4>3. i \in 1..Behind
        BY <2>1, <4>2 DEF RunnerFits, Behind
      <4>4. rows[r] # {}
        BY <2>1, <4>1, <4>2, <4>3 DEF RowsFit
      <4>5. r \in ResultIds
        BY <3>2, <4>1, RowLengths
      <4>6. "failed" \notin rows[r]
        BY <3>1, <4>5, StatusOf
      <4>7. rows[r] \subseteq {"completed", "failed"}
        BY <2>1, <4>5 DEF RowsFit
      <4>8. QED
        BY <4>4, <4>6, <4>7
    <3>4. Expected # {} /\ Expected \subseteq ResultIds
      BY <3>1, ExpectedRows
    <3>5. Statuses # {}
      BY <3>3, <3>4, StatusOf
    <3>6. ~interrupted
      BY <2>1, <3>1, <3>3 DEF StopFits
    <3>7. QED
      BY <3>1, <3>3, <3>5, <3>6 DEF Outcome
  <2>5. place = "stopped" => Outcome # "pending"
    <3> SUFFICES ASSUME place = "stopped" PROVE Outcome # "pending"
      OBVIOUS
    <3>1. stopAsked
      BY <2>1 DEF StopFits
    <3>2. CASE "failed" \in Statuses
      BY <3>2 DEF Outcome
    <3>3. CASE "failed" \notin Statuses /\ interrupted
      BY <3>3 DEF Outcome
    <3>4. CASE "failed" \notin Statuses /\ ~interrupted
      <4>1. Statuses # {} /\ \A r \in Expected : "completed" \in rows[r]
        BY <2>1, <3>1, <3>4 DEF StopFits
      <4>2. QED
        BY <3>4, <4>1 DEF Outcome
    <3>5. QED
      BY <2>1, <3>2, <3>3, <3>4 DEF StopFits
  <2>6. QED
    BY <2>2, <2>3, <2>4, <2>5 DEF OutcomeIsHonest
<1>2. QED
  BY <1>1, SuiteInvHolds, PTL

\* fio writes to the storage on record, mounted where the record says and out of the
\* reach of scripts left behind; no other web server runs beside DeathStarBench.
THEOREM TargetsAreReady == RunSpec => []TargetIsReady
<1>1. SuiteInv => TargetIsReady
  <2> SUFFICES ASSUME SuiteInv, place = "measure" PROVE
        /\ Row = "fio" =>
             /\ target \in Disk /\ disks[target] = [content |-> "xfs", mount |-> MountPoint(target)]
             /\ \A s \in leftovers : DisksAfter(s) = disks
        /\ Row = "deathstarbench" /\ httpd = "serving" => stopLost
    BY DEF TargetIsReady
  <2>1. RunnerFits /\ DisksFit /\ ScriptsFit /\ TargetFits /\ ServerFits
    BY DEF SuiteInv, StorageFits
  <2>2. Current \in Compact /\ item \in 1..Len(Results[Current]) /\ Row = Results[Current][item]
    BY <2>1, RowLengths DEF RunnerFits, Row
  <2>3. bench > 0 /\ Current \in plan.benchmarks
    BY <2>1, <2>2, Currents DEF RunnerFits
  <2>4. ASSUME Row = "fio"
        PROVE  /\ target \in Disk /\ disks[target] = [content |-> "xfs", mount |-> MountPoint(target)]
               /\ \A s \in leftovers : DisksAfter(s) = disks
    <3>1. Current = "core"
      BY <2>2, <2>4, RowsTell
    <3>2. target \in Disk
      BY <2>1, <2>3, <3>1 DEF TargetFits
    <3>3. disks[target] = Ready(target)
      BY <2>1, <3>2 DEF TargetFits, Disk
    <3>4. ASSUME NEW s \in leftovers PROVE DisksAfter(s) = disks
      <4>1. target = "data" /\ s.disk = "data" /\ disks["data"] = Ready("data")
        BY <2>1, <3>2, <3>3, <3>4 DEF TargetFits, Disk
      <4>2. disks[s.disk].mount # "none" /\ s.disk \in Disk
        BY <4>1 DEF Ready, MountPoint, Disk
      <4>3. QED
        BY <4>2, MountedStays
    <3>5. QED
      BY <3>2, <3>3, <3>4 DEF Ready
  <2>5. ASSUME Row = "deathstarbench", httpd = "serving"
        PROVE  stopLost
    <3>1. Current = "deathstarbench"
      BY <2>2, <2>5, RowsTell
    <3>2. QED
      BY <2>1, <2>3, <2>5, <3>1 DEF ServerFits
  <2>6. QED
    BY <2>4, <2>5
<1>2. QED
  BY <1>1, SuiteInvHolds, PTL

\* No file system is made where there was something, or under a mount, not even by a
\* script whose look is long past.
THEOREM NothingIsFormattedAway == RunSpec => NothingIsOverwritten
<1> DEFINE Keeps == \A d \in Disk :
             disks'[d].content # disks[d].content /\ disks'[d].content = "xfs"
               => disks[d] = [content |-> "blank", mount |-> "none"]
<1>1. ASSUME SuiteInv, [RunNext]_run
      PROVE  [Keeps]_guestDisks
  <2>1. StorageFits /\ DisksFit /\ ScriptsFit /\ RunnerFits
    BY <1>1 DEF SuiteInv, StorageFits
  <2>2. ASSUME NEW s \in Scripts, s.disk = "data" => plan.volume, disks' = DisksAfter(s)
        PROVE  Keeps
    <3>1. /\ \A d \in Disk : d # s.disk => disks'[d] = disks[d]
          /\ disks'[s.disk].content # disks[s.disk].content =>
               disks[s.disk] = [content |-> "blank", mount |-> "none"]
      BY <2>1, <2>2, ScriptChanges
    <3>2. QED
      BY <3>1
  <2>3. CASE Guest(RunScript)
    <3>1. disks' = DisksAfter(script) /\ Busy(script)
      BY <2>3 DEF Guest, RunScript
    <3>2. script \in Scripts /\ (script.disk = "data" => plan.volume)
      BY <2>1, <3>1 DEF ScriptsFit, NoScript, Busy
    <3>3. QED
      BY <2>2, <3>1, <3>2
  <2>4. CASE Guest(RunLeftover)
    <3>1. PICK s \in leftovers : disks' = DisksAfter(s)
      BY <2>4 DEF Guest, RunLeftover
    <3>2. s \in Scripts /\ (s.disk = "data" => plan.volume)
      BY <2>1, <3>1 DEF ScriptsFit
    <3>3. QED
      BY <2>2, <3>1, <3>2
  <2>5. CASE Guest(Agent)
    <3>1. disks' = [disks EXCEPT !["local"] = [content |-> "foreign", mount |-> "elsewhere"]]
      BY <2>5 DEF Guest, Agent, AgentTakesLocal
    <3>2. disks'["local"].content = "foreign" /\ disks'["data"] = disks["data"]
      BY <2>1, <3>1 DEF DisksFit, Disk
    <3>3. QED
      BY <3>2 DEF Disk
  <2>6. CASE disks' = disks
    BY <2>6
  <2>7. SuiteStep => disks' = disks
    <3>1. \A s : PreparationStep(s) => disks' = disks
      BY DEF PreparationStep, guests, guestDisks
    <3>2. ConnectTransport \/ Measure \/ PreparePhoronix \/ MeasureProfile \/ CheckAddresses => disks' = disks
      BY DEF ConnectTransport, Measure, PreparePhoronix, MeasureProfile, CheckAddresses, guests, guestDisks
    <3>3. BeginStorage \/ AwaitLocal \/ AwaitMount \/ AwaitDescription => disks' = disks
      BY DEF BeginStorage, AwaitLocal, AwaitMount, AwaitDescription
    <3>4. InstallServer \/ InstallClient \/ PrepareTarget \/ ProbeTarget \/ MeasureMode => disks' = disks
      BY DEF InstallServer, InstallClient, PrepareTarget, ProbeTarget, MeasureMode, guests, guestDisks
    <3>5. HandleFailure \/ LookAfterServer \/ DeployStack \/ LoadDataset \/ RaiseDeferred => disks' = disks
      BY DEF HandleFailure, LookAfterServer, DeployStack, LoadDataset, RaiseDeferred, guests, guestDisks
    <3>6. QED
      BY <3>1, <3>2, <3>3, <3>4, <3>5
         DEF SuiteStep, WaitForReadiness, InstallTools, WaitForPeer, RecordTopology
  <2>8. AskStop \/ UNCHANGED suite => disks' = disks
    BY DEF AskStop, guests, guestDisks, suite
  <2>9. \/ SuiteStep \/ AskStop \/ UNCHANGED suite
        \/ Guest(RunScript) \/ Guest(RunLeftover) \/ Guest(Agent)
    BY <1>1 DEF RunNext, Work, Awaited, Passing, Later, Distributed, CompactRun, Candidate, Operator, run
  <2>10. QED
    BY <2>3, <2>4, <2>5, <2>6, <2>7, <2>8, <2>9
<1>2. QED
  BY <1>1, SuiteInvHolds, PTL DEF RunSpec, NothingIsOverwritten

-------------------------------------------------------------------------------
(* The candidate run: its places, its job, and the invariant.              *)

First == {"allocate", "accept", "provision", "contract", "create"}
StagePlaces ==
  {"stage", "attest", "storage", "prepareStorage", "storagePrepared", "reconcile", "apply", "sendPhase",
   "reconciled"}
PhasePlaces == {"reconcile", "apply", "sendPhase", "reconciled"}
CandidatePlaces ==
  Ended \cup Acceptance \cup First \cup {"adopt", "prepare", "validate", "failHotel"} \cup StagePlaces
  \cup HotelPlaces \cup Teardown

Seen == [uid : 0..2, whole : BOOLEAN]
StageStates ==
  {"absent", "preflight", "preparing", "storage_prepared", "revalidating", "reconciling", "applying",
   "attesting", "ready"}
HotelStates == {"absent", "preflight", "creating", "blocked", "intent", "exit", "verified", "failed"}
JobStates ==
  {"unwritten", "queued", "accepted", "provisioning", "preparing_runtime", "staging_support",
   "support_observed", "cleanup_pending", "cleaning", "cleanup_complete", "cleanup_failed"}
ExitCodes == {"none", "0", "1", "2", "130", "128+n"}
Traces == {"none", "active", "cleared"}
Failures == {"none", "error", "interrupted"}

StageJournals == [state : StageStates, receipts : Seq(0..2), pending : SUBSET Seen, prepared : BOOLEAN]
Hotels == [state : HotelStates, executed : {"no", "unknown", "yes"}, verified : BOOLEAN]
Jobs ==
  [state : JobStates, identity : 0..2, contract : Traces, stage : StageJournals, archive : StageJournals,
   source : Traces, proof : BOOLEAN, hotel : Hotels]
Calls ==
  [cleanupOnly : BOOLEAN, failure : Failures, signal : BOOLEAN, cleanupFailed : BOOLEAN,
   proved : BOOLEAN, exit : ExitCodes]

CandidateTyped ==
  /\ at \in CandidatePlaces
  /\ candidate \in Jobs /\ recorded \in Jobs
  /\ call \in Calls /\ guarded \in BOOLEAN
  /\ live \in [StagePhases -> Seen]
  /\ databases \in {"blank", "prepared", "opened"}
  /\ applying \in StagePhases \cup {"none"}
  /\ meddled \in BOOLEAN
  /\ machines \in {"none", "partial", "ready", "replaced", "lingering"}

\* The journal, the latches and the Pods, for each place of the controller.
JournalFits ==
  /\ files \in [events : 0..6, latches : SUBSET Modes]
  /\ jobPods \in [Modes -> {"absent", "gated", "released", "succeeded", "failed"}]
  /\ released \in [Modes -> {0, 1}]
  /\ \A m \in Modes : released[m] > 0 <=> jobPods[m] \in {"released", "succeeded", "failed"}
  /\ files.events = 0 => \A m \in Modes : jobPods[m] = "absent"
  /\ at = "openJournal" => files.events = 0
  /\ at \in {"createPods", "sendPods"} => files.events = 1 /\ \A m \in Modes : jobPods[m] = "absent"
  /\ at = "pinPods" => files.events = 1
  /\ at \in {"gate", "latch", "intent"} => files.events \in {2, 4}
  /\ at \in {"saveIntent", "release", "poll", "exit"} => files.events \in {3, 5}
  /\ at \in {"intent", "saveIntent", "release"} => Mode \in files.latches
  /\ at \in {"latch", "intent", "saveIntent", "release", "poll", "exit"} /\ Mode = "verify" =>
       Completed("initialize-empty")
  /\ at = "exit" => Completed(Mode)
  /\ released["verify"] > 0 => Completed("initialize-empty")

\* What the journal in memory, or on disk, says of Hotel.
HotelTold(h) ==
  /\ h.executed = "no" => released["initialize-empty"] = 0
  /\ h.executed = "yes" => Completed("initialize-empty")
  /\ h.verified => Completed("verify")

HotelFits ==
  /\ HotelTold(recorded.hotel)
  /\ at \notin Ended => HotelTold(candidate.hotel)
  /\ at = "release" => recorded.hotel.executed # "no" /\ candidate.hotel.executed # "no"

\* The phases on record are there.
Intact(s) ==
  \A i \in 1..Len(s.receipts) : live[Phases[i]] = [uid |-> s.receipts[i], whole |-> TRUE]

PhasesFit ==
  /\ \A p \in StagePhases : live[p].whole => live[p].uid # 0
  /\ ~AuditPasses => live = EmptyCluster /\ databases = "blank" /\ applying = "none"
  /\ at \in {"prepare", "validate"} \cup StagePlaces \cup HotelPlaces => AuditPasses
  /\ at \in First => candidate.stage = NoStage /\ recorded.stage = NoStage
  /\ Len(candidate.stage.receipts) <= 6 /\ Len(recorded.stage.receipts) <= 6
  /\ at \in {"apply", "sendPhase", "reconciled"} => Len(candidate.stage.receipts) < 6
  /\ machines = "ready" /\ ~meddled => Intact(recorded.stage) /\ Intact(candidate.stage)
  /\ at \in HotelPlaces \cup {"validate"} => candidate.stage.state = "ready" /\ Intact(candidate.stage)

\* Directories are prepared before they can be opened, and that is on record.
DatabasesFit ==
  /\ at \in PhasePlaces \/ databases = "opened" \/ applying # "none" =>
       /\ recorded.state \in TeardownStates \/ recorded.stage.prepared
       /\ at \in Ended \cup Teardown \/ candidate.stage.prepared
  /\ at \in {"prepareStorage", "storagePrepared"} => ~candidate.stage.prepared

\* What was provisioned is named by the record, and by the copy when it goes.
CustodyFor(job) ==
  /\ job.contract = "none" => machines = "none" /\ job.source = "none"
  /\ job.contract = "cleared" => job.source = "active"
  /\ job.contract # "none" => job.state \notin {"unwritten", "queued"}
  /\ job.source # "none" => job.state \in TeardownStates
  /\ job.source # "cleared"

CustodyFits ==
  /\ CustodyFor(recorded) /\ (at \notin Ended => CustodyFor(candidate))
  /\ at \notin Ended \cup {"allocate", "accept"} => candidate.state \notin {"unwritten", "queued"}
  /\ at = "create" => candidate.contract = "active" /\ recorded.contract = "active"
  /\ at \in Ended \cup Teardown \/ (candidate.state \notin TeardownStates /\ recorded.state \notin TeardownStates)
  /\ at \in Teardown \ {"pend"} => candidate.state \in TeardownStates
  /\ at \in {"delete", "clear", "absence"} =>
       /\ recorded.state \in TeardownStates
       /\ candidate.source = (IF candidate.contract = "none" THEN "none" ELSE "active")
  /\ at \in {"pend", "archive", "removeKey", "clean", "source"} /\ candidate.source # "none" =>
       recorded.state \in TeardownStates
  /\ at = "clear" => candidate.contract = "active"
  /\ call.proved => at \in {"finish", "late", "returned"} /\ candidate.stage = NoStage /\ machines = "none"
  /\ recorded.proof =>
       /\ at \in {"late"} \cup Ended /\ recorded.state = "cleanup_complete"
       /\ machines = "none" /\ recorded.stage = NoStage
  /\ candidate.proof => at \in {"late"} \cup Ended
  /\ at = "late" /\ Complete => recorded = candidate /\ recorded.proof
  /\ at = "returned" /\ call.exit # "2" => recorded.proof

\* The journal of the stage is on disk, or archived there.
ArchiveFits ==
  /\ at \notin Ended \cup Teardown /\ recorded.stage # NoStage => candidate.stage # NoStage
  /\ at \in Teardown /\ candidate.stage = NoStage /\ recorded.stage # NoStage =>
       candidate.archive = recorded.stage
  /\ at \notin Ended /\ recorded.archive # NoStage => candidate.archive = recorded.archive
  /\ at = "removeKey" => recorded = candidate /\ candidate.archive = candidate.stage

\* A process that failed knows it; one that did not has seen what it says.
SuccessFits ==
  /\ at = "failHotel" => call.failure # "none"
  /\ at \in Teardown /\ call.failure = "none" /\ ~call.cleanupOnly /\ ~call.cleanupFailed =>
       /\ guarded => candidate.hotel.verified
       /\ at \in {"pend", "archive"} => candidate.stage.state = "ready"
       /\ at \notin {"pend", "archive"} => candidate.archive.state = "ready"
  /\ at = "returned" /\ call.exit = "0" =>
       /\ recorded.archive.state = "ready" \/ call.cleanupOnly
       /\ guarded /\ ~call.cleanupOnly => recorded.hotel.verified


CandidateInv ==
  /\ CandidateTyped /\ JournalFits /\ HotelFits /\ PhasesFit
  /\ DatabasesFit /\ CustodyFits /\ ArchiveFits /\ SuccessFits

-------------------------------------------------------------------------------
(* Jobs, and the outcomes of a step.                                       *)

LEMMA EmptyRecords ==
  /\ NoStage \in StageJournals /\ NoStage.receipts = <<>> /\ NoStage.state = "absent" /\ NoStage.prepared = FALSE
  /\ NoHotel \in Hotels /\ NoHotel.executed = "no" /\ NoHotel.verified = FALSE
  /\ Queued \in Jobs /\ Queued.state = "queued" /\ Queued.contract = "none" /\ Queued.source = "none"
  /\ Queued.stage = NoStage /\ Queued.archive = NoStage /\ Queued.proof = FALSE /\ Queued.hotel = NoHotel
  /\ Unwritten \in Jobs /\ Unwritten.state = "unwritten" /\ Unwritten.contract = "none"
  /\ Unwritten.source = "none" /\ Unwritten.stage = NoStage /\ Unwritten.archive = NoStage
  /\ Unwritten.proof = FALSE /\ Unwritten.hotel = NoHotel
  /\ NoCall \in Calls /\ NoCall.failure = "none" /\ NoCall.cleanupFailed = FALSE /\ NoCall.proved = FALSE
  /\ NoCall.cleanupOnly = FALSE /\ NoCall.signal = FALSE /\ NoCall.exit = "none"
<1>1. NoStage.receipts = <<>> /\ NoStage.state = "absent" /\ NoStage.prepared = FALSE
  BY DEF NoStage
<1>2. NoStage \in StageJournals
  <2>1. <<>> \in Seq(0..2)
    OBVIOUS
  <2>2. "absent" \in StageStates
    BY DEF StageStates
  <2>3. QED
    BY <2>1, <2>2, Zenon DEF NoStage, StageJournals
<1>3. NoHotel.executed = "no" /\ NoHotel.verified = FALSE
  BY DEF NoHotel
<1>4. NoHotel \in Hotels
  <2>1. "absent" \in HotelStates /\ "no" \in {"no", "unknown", "yes"}
    BY DEF HotelStates
  <2>2. QED
    BY <2>1, Zenon DEF NoHotel, Hotels
<1>5. /\ Queued.state = "queued" /\ Queued.contract = "none" /\ Queued.source = "none"
      /\ Queued.stage = NoStage /\ Queued.archive = NoStage /\ Queued.proof = FALSE /\ Queued.hotel = NoHotel
  BY DEF Queued
<1>6. Queued \in Jobs
  <2>1. "queued" \in JobStates /\ 0 \in 0..2 /\ "none" \in Traces
    BY DEF JobStates, Traces
  <2>2. QED
    BY <1>2, <1>4, <2>1, Zenon DEF Queued, Jobs
<1>7. /\ Unwritten.state = "unwritten" /\ Unwritten.contract = "none" /\ Unwritten.source = "none"
      /\ Unwritten.stage = NoStage /\ Unwritten.archive = NoStage /\ Unwritten.proof = FALSE
      /\ Unwritten.hotel = NoHotel
  BY DEF Unwritten, Queued
<1>8. Unwritten \in Jobs
  <2>1. "unwritten" \in JobStates
    BY DEF JobStates
  <2>2. QED
    BY <1>6, <2>1 DEF Unwritten, Jobs
<1>9. /\ NoCall.failure = "none" /\ NoCall.cleanupFailed = FALSE /\ NoCall.proved = FALSE
      /\ NoCall.cleanupOnly = FALSE /\ NoCall.signal = FALSE /\ NoCall.exit = "none"
  BY DEF NoCall
<1>10. NoCall \in Calls
  <2>1. "none" \in Failures /\ "none" \in ExitCodes
    BY DEF Failures, ExitCodes
  <2>2. QED
    BY <2>1, Zenon DEF NoCall, Calls
<1>11. QED
  BY <1>1, <1>2, <1>3, <1>4, <1>5, <1>6, <1>7, <1>8, <1>9, <1>10

\* What identifies the cloud and proves its end.
SameCustody(j, k) ==
  /\ j.contract = k.contract /\ j.source = k.source /\ j.archive = k.archive /\ j.proof = k.proof

\* Another state, stage or Hotel journal leaves the rest of a job.
LEMMA JobsChange ==
  ASSUME NEW job \in Jobs
  PROVE  /\ \A s \in JobStates :
              LET j == [job EXCEPT !.state = s]
              IN j \in Jobs /\ j.state = s /\ j.stage = job.stage /\ j.hotel = job.hotel /\ SameCustody(j, job)
         /\ \A s \in StageJournals :
              LET j == [job EXCEPT !.stage = s]
              IN j \in Jobs /\ j.stage = s /\ j.state = job.state /\ j.hotel = job.hotel /\ SameCustody(j, job)
         /\ \A h \in Hotels :
              LET j == [job EXCEPT !.hotel = h]
              IN j \in Jobs /\ j.hotel = h /\ j.state = job.state /\ j.stage = job.stage /\ SameCustody(j, job)
         /\ job.stage \in StageJournals /\ job.archive \in StageJournals /\ job.hotel \in Hotels
         /\ job.state \in JobStates /\ job.proof \in BOOLEAN
<1>1. \A s \in JobStates :
        LET j == [job EXCEPT !.state = s]
        IN j \in Jobs /\ j.state = s /\ j.stage = job.stage /\ j.hotel = job.hotel /\ SameCustody(j, job)
  BY DEF Jobs, SameCustody
<1>2. \A s \in StageJournals :
        LET j == [job EXCEPT !.stage = s]
        IN j \in Jobs /\ j.stage = s /\ j.state = job.state /\ j.hotel = job.hotel /\ SameCustody(j, job)
  BY DEF Jobs, SameCustody
<1>3. \A h \in Hotels :
        LET j == [job EXCEPT !.hotel = h]
        IN j \in Jobs /\ j.hotel = h /\ j.state = job.state /\ j.stage = job.stage /\ SameCustody(j, job)
  BY DEF Jobs, SameCustody
<1>4. /\ job.stage \in StageJournals /\ job.archive \in StageJournals /\ job.hotel \in Hotels
      /\ job.state \in JobStates /\ job.proof \in BOOLEAN
  BY DEF Jobs
<1>5. QED
  BY <1>1, <1>2, <1>3, <1>4

LEMMA CustodyChanges ==
  ASSUME NEW job \in Jobs
  PROVE  /\ \A c \in Traces :
              LET j == [job EXCEPT !.contract = c]
              IN /\ j \in Jobs /\ j.contract = c
                 /\ j.state = job.state /\ j.stage = job.stage /\ j.hotel = job.hotel /\ j.archive = job.archive
                 /\ j.source = job.source /\ j.proof = job.proof
         /\ \A c \in Traces :
              LET j == [job EXCEPT !.source = c]
              IN /\ j \in Jobs /\ j.source = c
                 /\ j.state = job.state /\ j.stage = job.stage /\ j.hotel = job.hotel /\ j.archive = job.archive
                 /\ j.contract = job.contract /\ j.proof = job.proof
         /\ \A s \in StageJournals :
              LET j == [job EXCEPT !.archive = s]
              IN /\ j \in Jobs /\ j.archive = s
                 /\ j.state = job.state /\ j.stage = job.stage /\ j.hotel = job.hotel /\ j.source = job.source
                 /\ j.contract = job.contract /\ j.proof = job.proof
         /\ \A b \in BOOLEAN :
              LET j == [job EXCEPT !.proof = b]
              IN /\ j \in Jobs /\ (j.proof <=> b)
                 /\ j.state = job.state /\ j.stage = job.stage /\ j.hotel = job.hotel /\ j.source = job.source
                 /\ j.contract = job.contract /\ j.archive = job.archive
         /\ \A n \in 0..2 :
              LET j == [job EXCEPT !.identity = n]
              IN /\ j \in Jobs /\ j.state = job.state /\ j.stage = job.stage /\ j.hotel = job.hotel
                 /\ SameCustody(j, job)
<1>1. \A c \in Traces :
        LET j == [job EXCEPT !.contract = c]
        IN /\ j \in Jobs /\ j.contract = c
           /\ j.state = job.state /\ j.stage = job.stage /\ j.hotel = job.hotel /\ j.archive = job.archive
           /\ j.source = job.source /\ j.proof = job.proof
  BY DEF Jobs
<1>2. \A c \in Traces :
        LET j == [job EXCEPT !.source = c]
        IN /\ j \in Jobs /\ j.source = c
           /\ j.state = job.state /\ j.stage = job.stage /\ j.hotel = job.hotel /\ j.archive = job.archive
           /\ j.contract = job.contract /\ j.proof = job.proof
  BY DEF Jobs
<1>3. \A s \in StageJournals :
        LET j == [job EXCEPT !.archive = s]
        IN /\ j \in Jobs /\ j.archive = s
           /\ j.state = job.state /\ j.stage = job.stage /\ j.hotel = job.hotel /\ j.source = job.source
           /\ j.contract = job.contract /\ j.proof = job.proof
  BY DEF Jobs
<1>4. \A b \in BOOLEAN :
        LET j == [job EXCEPT !.proof = b]
        IN /\ j \in Jobs /\ (j.proof <=> b)
           /\ j.state = job.state /\ j.stage = job.stage /\ j.hotel = job.hotel /\ j.source = job.source
           /\ j.contract = job.contract /\ j.archive = job.archive
  BY DEF Jobs
<1>5. \A n \in 0..2 :
        LET j == [job EXCEPT !.identity = n]
        IN /\ j \in Jobs /\ j.state = job.state /\ j.stage = job.stage /\ j.hotel = job.hotel
           /\ SameCustody(j, job)
  BY DEF Jobs, SameCustody
<1>6. QED
  BY <1>1, <1>2, <1>3, <1>4, <1>5

\* A step goes on to the next, or breaks off and remembers why.
Proceeds(next) == at' = next /\ call' = call

Broken ==
  /\ call' \in Calls /\ call'.failure # "none"
  /\ call'.cleanupOnly = call.cleanupOnly /\ call'.cleanupFailed = call.cleanupFailed
  /\ call'.proved = call.proved /\ call'.exit = call.exit

BreaksOff == at' = Handler /\ Broken

LEMMA StepsBreakOff ==
  ASSUME call \in Calls, BreakOff \/ Decline
  PROVE  BreaksOff
<1>1. CASE BreakOff
  <2>1. PICK f \in {"error", "interrupted"}, s \in BOOLEAN : call' = [call EXCEPT !.failure = f, !.signal = s]
    BY <1>1 DEF BreakOff
  <2>2. QED
    BY <1>1, <2>1 DEF BreakOff, BreaksOff, Broken, Calls, Failures
<1>2. CASE Decline
  BY <1>2 DEF Decline, BreaksOff, Broken, Calls, Failures
<1>3. QED
  BY <1>1, <1>2

LEMMA Saves ==
  ASSUME call \in Calls, NEW job, NEW next, SaveJob(job, next)
  PROVE  /\ candidate' = job
         /\ (recorded' = job /\ Proceeds(next)) \/ (recorded' \in {recorded, job} /\ BreaksOff)
BY StepsBreakOff DEF SaveJob, Proceeds

-------------------------------------------------------------------------------
(* The support stage.                                                      *)

\* What every step of the stage leaves alone.
StageWorks ==
  /\ at \in StagePlaces /\ guarded' = guarded
  /\ candidate'.state = candidate.state /\ candidate'.hotel = candidate.hotel
  /\ SameCustody(candidate', candidate)
  /\ candidate' \in Jobs /\ recorded' \in {recorded, candidate'}
  /\ candidate' = candidate \/ candidate'.stage.state # "absent"
  /\ (at' \in StagePlaces \cup {"hotel", "validate"} /\ call' = call) \/ BreaksOff

\* A stage with another state, other receipts or none pending is a stage.
LEMMA StagesChange ==
  ASSUME NEW s \in StageJournals
  PROVE  /\ \A x \in StageStates :
              /\ [s EXCEPT !.state = x] \in StageJournals /\ [s EXCEPT !.state = x].state = x
              /\ [s EXCEPT !.state = x].receipts = s.receipts
              /\ [s EXCEPT !.state = x].prepared = s.prepared
              /\ [s EXCEPT !.state = x].pending = s.pending
         /\ \A x \in StageStates, r \in Seq(0..2), g \in SUBSET Seen :
              LET t == [s EXCEPT !.state = x, !.receipts = r, !.pending = g]
              IN t \in StageJournals /\ t.state = x /\ t.receipts = r /\ t.prepared = s.prepared /\ t.pending = g
         /\ \A x \in StageStates, g \in SUBSET Seen :
              LET t == [s EXCEPT !.state = x, !.pending = g]
              IN t \in StageJournals /\ t.state = x /\ t.receipts = s.receipts /\ t.prepared = s.prepared /\ t.pending = g
         /\ \A x \in StageStates :
              LET t == [s EXCEPT !.state = x, !.prepared = TRUE]
              IN t \in StageJournals /\ t.state = x /\ t.receipts = s.receipts /\ t.prepared = TRUE /\ t.pending = s.pending
         /\ s.receipts \in Seq(0..2) /\ s.pending \in SUBSET Seen /\ s.state \in StageStates
         /\ s.prepared \in BOOLEAN
BY DEF StageJournals

LEMMA PhasesAreSix ==
  /\ Len(Phases) = 6
  /\ \A i \in 1..6 : Phases[i] \in StagePhases
  /\ "namespace" \in StagePhases /\ "none" \notin StagePhases
<1>1. Len(Phases) = 6 /\ \A i \in 1..6 : Phases[i] \in StagePhases
  BY DEF Phases, StagePhases
<1>2. StagePhases = {"namespace", "storage", "policies", "services", "workloads", "applications"}
  <2>1. 1..6 = {1, 2, 3, 4, 5, 6}
    OBVIOUS
  <2>2. StagePhases = {Phases[i] : i \in {1, 2, 3, 4, 5, 6}}
    BY <1>1, <2>1 DEF StagePhases
  <2>3. QED
    BY <2>2 DEF Phases
<1>3. QED
  BY <1>1, <1>2

\* Exceptions of the stage go to cleanup.
LEMMA Handlers ==
  /\ at \in Acceptance => Handler = "refused"
  /\ at \in HotelPlaces => Handler = "failHotel"
  /\ at \notin Acceptance \cup HotelPlaces => Handler = "pend"
  /\ at \in StagePlaces => Handler = "pend"
BY DEF Handler, Acceptance, HotelPlaces, StagePlaces

\* A new journal of the stage is saved, ...
LEMMA StageSaves ==
  ASSUME CandidateTyped, at \in StagePlaces, guarded' = guarded,
         NEW s \in StageJournals, s.state # "absent",
         NEW next \in StagePlaces \cup {"hotel", "validate"}, SaveJob(WithStage(s), next)
  PROVE  /\ StageWorks /\ candidate'.stage = s
         /\ (recorded' = candidate' /\ at' = next) \/ at' = "pend"
<1>1. /\ WithStage(s) \in Jobs /\ WithStage(s).stage = s /\ WithStage(s).state = candidate.state
      /\ WithStage(s).hotel = candidate.hotel /\ SameCustody(WithStage(s), candidate)
  BY JobsChange DEF CandidateTyped, WithStage
<1>2. /\ candidate' = WithStage(s)
      /\ (recorded' = WithStage(s) /\ Proceeds(next)) \/ (recorded' \in {recorded, WithStage(s)} /\ BreaksOff)
  BY Saves DEF CandidateTyped
<1>3. BreaksOff => at' = "pend"
  BY Handlers DEF BreaksOff
<1>4. QED
  BY <1>1, <1>2, <1>3 DEF StageWorks, Proceeds

\* ... or nothing is.
LEMMA StageKeeps ==
  ASSUME CandidateTyped, at \in StagePlaces, guarded' = guarded, candidate' = candidate, recorded' = recorded,
         NEW next \in StagePlaces \cup {"hotel", "validate"}, GoOn(next) \/ BreakOff \/ Decline
  PROVE  StageWorks /\ at' \in {next, "pend"}
<1>1. BreakOff \/ Decline => BreaksOff
  BY StepsBreakOff DEF CandidateTyped
<1>2. BreaksOff => at' = "pend"
  BY Handlers DEF BreaksOff
<1>3. QED
  BY <1>1, <1>2 DEF StageWorks, GoOn, CandidateTyped, SameCustody

\* Phases that are on record, and their places, where the cluster stays as it is.
LEMMA PhasesRest ==
  ASSUME PhasesFit, UNCHANGED <<live, databases, applying, meddled, machines>>,
         recorded'.stage \in {recorded.stage, candidate'.stage},
         Len(candidate'.stage.receipts) <= 6,
         at' \in {"prepare", "validate"} \cup StagePlaces \cup HotelPlaces => AuditPasses,
         at' \in First => candidate'.stage = NoStage /\ recorded'.stage = NoStage,
         at' \in {"apply", "sendPhase", "reconciled"} => Len(candidate'.stage.receipts) < 6,
         machines = "ready" /\ ~meddled => Intact(candidate'.stage),
         at' \in HotelPlaces \cup {"validate"} => candidate'.stage.state = "ready" /\ Intact(candidate'.stage)
  PROVE  PhasesFit'
BY DEF PhasesFit, Intact, AuditPasses, EmptyCluster

\* Directories that may be open, where they stay as they are.
LEMMA DatabasesRest ==
  ASSUME DatabasesFit, databases' = databases, applying' = applying, StageWorks,
         candidate.stage.prepared => candidate'.stage.prepared,
         at' \in PhasePlaces => candidate'.stage.prepared /\ (recorded' = candidate' \/ at \in PhasePlaces),
         at' \in {"prepareStorage", "storagePrepared"} => ~candidate'.stage.prepared
  PROVE  DatabasesFit'
<1>1. at \notin Ended \cup Teardown
  BY DEF StageWorks, StagePlaces, Ended, Teardown
<1>2. CASE recorded' = candidate'
  BY <1>1, <1>2 DEF DatabasesFit, StageWorks
<1>3. CASE recorded' = recorded
  BY <1>1, <1>3 DEF DatabasesFit, StageWorks
<1>4. QED
  BY <1>2, <1>3 DEF StageWorks

\* The invariants of the stage, at one of its places.
StageFits == CandidateTyped /\ PhasesFit /\ DatabasesFit /\ UNCHANGED machines

StageHolds == StageWorks /\ PhasesFit' /\ DatabasesFit'

\* Where only the state in the journal changes.
LEMMA StateSaves ==
  ASSUME StageFits, at \in StagePlaces, UNCHANGED <<guarded, stageCluster>>,
         NEW s \in StageJournals, s.state # "absent", s.receipts = candidate.stage.receipts,
         s.prepared = candidate.stage.prepared,
         NEW next \in StagePlaces \ {"storagePrepared"}, SaveJob(WithStage(s), next),
         next \in PhasePlaces => at \in PhasePlaces,
         next = "prepareStorage" => ~candidate.stage.prepared,
         next \in {"apply", "sendPhase", "reconciled"} => Len(candidate.stage.receipts) < 6
  PROVE  StageHolds /\ candidate'.stage.receipts = candidate.stage.receipts
<1>1. StageWorks /\ candidate'.stage = s /\ ((recorded' = candidate' /\ at' = next) \/ at' = "pend")
  BY StageSaves DEF StageFits
<1>2. Intact(s) <=> Intact(candidate.stage)
  BY DEF Intact
<1>3. recorded'.stage \in {recorded.stage, s}
  BY <1>1 DEF StageWorks
<1>4. AuditPasses /\ at' \notin First \cup HotelPlaces \cup {"validate"}
  BY <1>1 DEF StageFits, PhasesFit, StagePlaces, First, HotelPlaces
<1>5. PhasesFit'
  <2>1. machines = "ready" /\ ~meddled => Intact(candidate'.stage)
    BY <1>1, <1>2 DEF StageFits, PhasesFit
  <2>2. Len(candidate'.stage.receipts) <= 6
    BY <1>1 DEF StageFits, PhasesFit
  <2>3. at' \in {"apply", "sendPhase", "reconciled"} => Len(candidate'.stage.receipts) < 6
    BY <1>1
  <2>4. QED
    BY <1>1, <1>3, <1>4, <2>1, <2>2, <2>3, PhasesRest DEF StageFits, stageCluster
<1>6. DatabasesFit'
  <2>1. at \in PhasePlaces => candidate.stage.prepared
    BY DEF StageFits, DatabasesFit, PhasePlaces, Ended, Teardown
  <2>2. candidate'.stage.prepared = candidate.stage.prepared
    BY <1>1
  <2>3. at' \in PhasePlaces => at \in PhasePlaces
    BY <1>1 DEF PhasePlaces
  <2>4. at' \in {"prepareStorage", "storagePrepared"} => ~candidate'.stage.prepared
    BY <1>1, <2>2
  <2>5. QED
    BY <1>1, <2>1, <2>2, <2>3, <2>4, DatabasesRest DEF StageFits, stageCluster
<1>7. QED
  BY <1>1, <1>5, <1>6 DEF StageHolds

\* Where the job stays as it is.
LEMMA JobRests ==
  ASSUME StageFits, at \in StagePlaces, UNCHANGED <<guarded, live, applying, meddled>>, databases' = databases,
         candidate' = candidate, recorded' = recorded,
         NEW next \in StagePlaces \cup {"validate"}, GoOn(next) \/ BreakOff \/ Decline,
         GoOn(next) => next \in StagePlaces /\ next \notin {"prepareStorage"},
         GoOn(next) /\ next = "storagePrepared" => ~candidate.stage.prepared,
         GoOn(next) /\ next \in PhasePlaces => at \in PhasePlaces /\ Len(candidate.stage.receipts) < 6
  PROVE  StageHolds
<1>1. StageWorks /\ at' \in {next, "pend"} /\ (at' # "pend" => GoOn(next))
  <2>1. StageWorks /\ at' \in {next, "pend"}
    BY StageKeeps DEF StageFits
  <2>2. BreakOff \/ Decline => at' = "pend"
    BY Handlers DEF BreakOff, Decline
  <2>3. QED
    BY <2>1, <2>2
<1>2. AuditPasses /\ at' \notin First \cup HotelPlaces \cup {"validate"}
  BY <1>1 DEF StageFits, PhasesFit, StagePlaces, First, HotelPlaces
<1>3. PhasesFit'
  <2>1. machines = "ready" /\ ~meddled => Intact(candidate'.stage)
    BY DEF StageFits, PhasesFit
  <2>2. Len(candidate'.stage.receipts) <= 6
    BY DEF StageFits, PhasesFit
  <2>3. at' \in {"apply", "sendPhase", "reconciled"} => Len(candidate'.stage.receipts) < 6
    BY <1>1 DEF PhasePlaces
  <2>4. QED
    BY <1>1, <1>2, <2>1, <2>2, <2>3, PhasesRest DEF StageFits
<1>4. DatabasesFit'
  <2>1. at \in PhasePlaces => candidate.stage.prepared
    BY DEF StageFits, DatabasesFit, PhasePlaces, Ended, Teardown
  <2>2. at' \in PhasePlaces => at \in PhasePlaces
    BY <1>1 DEF PhasePlaces
  <2>3. at' \in {"prepareStorage", "storagePrepared"} => ~candidate'.stage.prepared
    BY <1>1
  <2>4. QED
    BY <1>1, <2>1, <2>2, <2>3, DatabasesRest DEF StageFits
<1>5. QED
  BY <1>1, <1>3, <1>4 DEF StageHolds

LEMMA SeenIs ==
  ASSUME NEW x \in Seen, NEW n
  PROVE  x = [uid |-> n, whole |-> TRUE] <=> x.uid = n /\ x.whole
BY DEF Seen

\* An apply that succeeds, stops half way or does nothing keeps what is whole.
LEMMA Applies ==
  ASSUME live \in [StagePhases -> Seen], \A q \in StagePhases : live[q].whole => live[q].uid # 0,
         NEW p \in StagePhases, live' \in {live, AfterApply(p), PartlyApplied(p)}
  PROVE  /\ live' \in [StagePhases -> Seen]
         /\ \A q \in StagePhases : live'[q].whole => live'[q].uid # 0
         /\ \A q \in StagePhases : live[q].whole => live'[q] = live[q]
<1>1. CASE live' = live
  BY <1>1
<1>2. CASE live' = AfterApply(p)
  <2> DEFINE n == IF live[p].uid = 0 THEN 1 ELSE live[p].uid
  <2>1. live' = [live EXCEPT ![p] = [uid |-> n, whole |-> TRUE]]
    BY <1>2 DEF AfterApply
  <2>2. n \in 1..2
    BY DEF Seen
  <2>3. [uid |-> n, whole |-> TRUE] \in Seen
    BY <2>2 DEF Seen
  <2>4. live[p].whole => live[p] = [uid |-> n, whole |-> TRUE]
    BY SeenIs
  <2> HIDE DEF n
  <2>5. live' \in [StagePhases -> Seen] /\ live'[p] = [uid |-> n, whole |-> TRUE]
    BY <2>1, <2>3
  <2>6. \A q \in StagePhases : q # p => live'[q] = live[q]
    BY <2>1
  <2>7. live'[p].uid # 0
    BY <2>2, <2>5
  <2>8. QED
    BY <2>4, <2>5, <2>6, <2>7
<1>3. CASE live' = PartlyApplied(p)
  <2> DEFINE n == IF live[p].uid = 0 THEN 1 ELSE live[p].uid
  <2>1. live' = [live EXCEPT ![p].uid = n]
    BY <1>3 DEF PartlyApplied
  <2>2. n \in 1..2
    BY DEF Seen
  <2>3. [live[p] EXCEPT !.uid = n] \in Seen /\ [live[p] EXCEPT !.uid = n].uid = n
    BY <2>2 DEF Seen
  <2>4. live[p].whole => [live[p] EXCEPT !.uid = n] = live[p]
    BY DEF Seen
  <2> HIDE DEF n
  <2>5. live' \in [StagePhases -> Seen] /\ live'[p] = [live[p] EXCEPT !.uid = n]
    BY <2>1, <2>3
  <2>6. \A q \in StagePhases : q # p => live'[q] = live[q]
    BY <2>1
  <2>7. live'[p].uid # 0
    BY <2>2, <2>3, <2>5
  <2>8. QED
    BY <2>4, <2>5, <2>6, <2>7
<1>4. QED
  BY <1>1, <1>2, <1>3

\* Phases on record stay there.
LEMMA IntactStays ==
  ASSUME NEW s \in StageJournals, Len(s.receipts) <= 6, Intact(s),
         \A q \in StagePhases : live[q].whole => live'[q] = live[q],
         live \in [StagePhases -> Seen]
  PROVE  \A i \in 1..Len(s.receipts) : live'[Phases[i]] = [uid |-> s.receipts[i], whole |-> TRUE]
<1>1. SUFFICES ASSUME NEW i \in 1..Len(s.receipts)
               PROVE  live'[Phases[i]] = [uid |-> s.receipts[i], whole |-> TRUE]
  OBVIOUS
<1>2. Phases[i] \in StagePhases
  <2>1. s.receipts \in Seq(0..2)
    BY DEF StageJournals
  <2>2. i \in 1..6
    BY <2>1
  <2>3. QED
    BY <2>2, PhasesAreSix
<1>3. live[Phases[i]] = [uid |-> s.receipts[i], whole |-> TRUE]
  BY DEF Intact
<1>4. live[Phases[i]].whole
  BY <1>3
<1>5. QED
  BY <1>2, <1>3, <1>4

\* What the journal of the stage is made of.
LEMMA StageIs ==
  ASSUME StageFits
  PROVE  /\ candidate.stage \in StageJournals /\ candidate.stage.receipts \in Seq(0..2)
         /\ Len(candidate.stage.receipts) \in Nat /\ Len(candidate.stage.receipts) <= 6
         /\ candidate.stage.state \in StageStates /\ candidate.stage.pending \in SUBSET Seen
         /\ live \in [StagePhases -> Seen] /\ \A p \in StagePhases : live[p].whole => live[p].uid # 0
<1>1. candidate.stage \in StageJournals /\ live \in [StagePhases -> Seen]
  BY JobsChange DEF StageFits, CandidateTyped
<1>2. /\ candidate.stage.receipts \in Seq(0..2)
      /\ candidate.stage.state \in StageStates /\ candidate.stage.pending \in SUBSET Seen
  BY <1>1 DEF StageJournals
<1>3. Len(candidate.stage.receipts) <= 6 /\ \A p \in StagePhases : live[p].whole => live[p].uid # 0
  BY DEF StageFits, PhasesFit
<1>4. Len(candidate.stage.receipts) \in Nat
  BY <1>2
<1>5. QED
  BY <1>1, <1>2, <1>3, <1>4

\* The steps that only change the state, or nothing.
LEMMA StateStepsHold ==
  ASSUME StageFits, OpenStage \/ AttestTarget \/ BeginDatabases \/ ReconcilePhase \/ BeginApply
  PROVE  StageHolds
<1> DEFINE s == candidate.stage
<1>1. /\ s \in StageJournals /\ s.receipts \in Seq(0..2) /\ Len(s.receipts) \in Nat /\ Len(s.receipts) <= 6
      /\ s.state \in StageStates /\ s.pending \in SUBSET Seen
  BY StageIs
<1>2. CASE OpenStage
  <2> DEFINE x == CASE s.state \in {"absent", "preflight"} -> "preflight"
                    [] s.state = "preparing" -> "preparing"
                    [] OTHER -> "revalidating"
             t == [s EXCEPT !.state = x]
  <2>1. x \in StageStates /\ x # "absent"
    BY DEF StageStates
  <2>2. SaveJob(WithStage(t), "attest")
    BY <1>2 DEF OpenStage
  <2>3. at = "stage" /\ UNCHANGED <<guarded, stageCluster>>
    BY <1>2 DEF OpenStage
  <2>4. at \in StagePlaces /\ "attest" \in StagePlaces \ {"storagePrepared"} /\ "attest" \notin PhasePlaces
    BY <2>3 DEF StagePlaces, PhasePlaces
  <2> HIDE DEF x
  <2>5. t \in StageJournals /\ t.state = x /\ t.receipts = s.receipts /\ t.prepared = s.prepared
    BY <1>1, <2>1 DEF StageJournals
  <2> HIDE DEF t
  <2>6. QED
    BY <2>1, <2>2, <2>3, <2>4, <2>5, StateSaves
<1>3. CASE AttestTarget
  <2>1. /\ at = "attest" /\ UNCHANGED <<guarded, stageCluster>> /\ candidate' = candidate /\ recorded' = recorded
        /\ GoOn("storage") \/ Decline
    BY <1>3 DEF AttestTarget
  <2>2. at \in StagePlaces /\ "storage" \in StagePlaces /\ "storage" \notin PhasePlaces
    BY <2>1 DEF StagePlaces, PhasePlaces
  <2>3. QED
    BY <2>1, <2>2, JobRests DEF stageCluster
<1>4. CASE BeginDatabases
  <2> DEFINE t == [s EXCEPT !.state = "preparing"]
  <2>1. /\ at = "storage" /\ ~s.prepared /\ UNCHANGED <<guarded, stageCluster>>
        /\ SaveJob(WithStage(t), "prepareStorage") \/ (Decline /\ candidate' = candidate /\ recorded' = recorded)
    BY <1>4 DEF BeginDatabases
  <2>2. /\ at \in StagePlaces /\ "prepareStorage" \in StagePlaces \ {"storagePrepared"}
        /\ "prepareStorage" \notin PhasePlaces /\ "preparing" \in StageStates
    BY <2>1 DEF StagePlaces, PhasePlaces, StageStates
  <2>3. t \in StageJournals /\ t.state = "preparing" /\ t.receipts = s.receipts /\ t.prepared = s.prepared
    BY <1>1, <2>2 DEF StageJournals
  <2> HIDE DEF t
  <2>4. CASE SaveJob(WithStage(t), "prepareStorage")
    BY <2>1, <2>2, <2>3, <2>4, StateSaves
  <2>5. CASE Decline /\ candidate' = candidate /\ recorded' = recorded
    <3>1. ~GoOn("attest") /\ "attest" \in StagePlaces
      BY <2>2, <2>5, Handlers DEF GoOn, Decline, StagePlaces
    <3>2. QED
      BY <2>1, <2>2, <2>5, <3>1, JobRests DEF stageCluster
  <2>6. QED
    BY <2>1, <2>4, <2>5
<1>5. CASE ReconcilePhase
  <2> DEFINE before == live[CurrentPhase]
             t == [s EXCEPT !.state = "reconciling", !.pending = {before}]
  <2>1. /\ at = "reconcile" /\ Len(s.receipts) < 6 /\ UNCHANGED <<guarded, stageCluster>>
        /\ \/ SaveJob(WithStage(t), IF before.whole THEN "reconciled" ELSE "apply")
           \/ Decline /\ candidate' = candidate /\ recorded' = recorded
    BY <1>5, PhasesAreSix DEF ReconcilePhase
  <2>2. PICK next \in {"reconciled", "apply"} :
          SaveJob(WithStage(t), next) \/ (Decline /\ candidate' = candidate /\ recorded' = recorded)
    BY <2>1
  <2>3. /\ at \in StagePlaces /\ next \in StagePlaces \ {"storagePrepared"}
        /\ at \in PhasePlaces /\ "reconciling" \in StageStates
    BY <2>1 DEF StagePlaces, PhasePlaces, StageStates
  <2>4. before \in Seen
    <3>1. Len(s.receipts) + 1 \in 1..6
      BY <1>1, <2>1
    <3>2. QED
      BY <3>1, StageIs, PhasesAreSix DEF CurrentPhase
  <2> HIDE DEF before
  <2>5. t \in StageJournals /\ t.state = "reconciling" /\ t.receipts = s.receipts /\ t.prepared = s.prepared
    BY <1>1, <2>3, <2>4 DEF StageJournals
  <2> HIDE DEF t
  <2>6. CASE SaveJob(WithStage(t), next)
    BY <2>1, <2>3, <2>5, <2>6, StateSaves
  <2>7. CASE Decline /\ candidate' = candidate /\ recorded' = recorded
    BY <2>1, <2>3, <2>7, JobRests DEF stageCluster
  <2>8. QED
    BY <2>2, <2>6, <2>7
<1>6. CASE BeginApply
  <2> DEFINE t == [s EXCEPT !.state = "applying"]
  <2>1. at = "apply" /\ UNCHANGED <<guarded, stageCluster>> /\ SaveJob(WithStage(t), "sendPhase")
    BY <1>6 DEF BeginApply
  <2>2. /\ at \in StagePlaces /\ "sendPhase" \in StagePlaces \ {"storagePrepared"}
        /\ at \in PhasePlaces /\ "applying" \in StageStates /\ Len(s.receipts) < 6
    BY <2>1 DEF StagePlaces, PhasePlaces, StageStates, StageFits, PhasesFit
  <2>3. t \in StageJournals /\ t.state = "applying" /\ t.receipts = s.receipts /\ t.prepared = s.prepared
    BY <1>1, <2>2 DEF StageJournals
  <2> HIDE DEF t
  <2>4. QED
    BY <2>1, <2>2, <2>3, StateSaves
<1>7. QED
  BY <1>2, <1>3, <1>4, <1>5, <1>6

\* The storage of the databases.
LEMMA StorageStepsHold ==
  ASSUME StageFits, PrepareDatabases \/ RecordStorage \/ RevisitPhases
  PROVE  StageHolds
<1> DEFINE s == candidate.stage
<1>1. /\ s \in StageJournals /\ s.receipts \in Seq(0..2) /\ Len(s.receipts) \in Nat /\ Len(s.receipts) <= 6
      /\ s.state \in StageStates /\ s.pending \in SUBSET Seen
  BY StageIs
<1>2. CASE PrepareDatabases
  <2>1. /\ at = "prepareStorage" /\ UNCHANGED <<candidate, recorded, guarded, live, applying, meddled, machines>>
        /\ databases' \in {databases, "prepared"} /\ (GoOn("storagePrepared") \/ BreakOff)
    BY <1>2 DEF PrepareDatabases, StageFits
  <2>2. at \in StagePlaces /\ "storagePrepared" \in StagePlaces
    BY <2>1 DEF StagePlaces
  <2>3. StageWorks /\ at' \in {"storagePrepared", "pend"}
    BY <2>1, <2>2, StageKeeps DEF StageFits
  <2>4. AuditPasses
    BY <2>2 DEF StageFits, PhasesFit
  <2>5. PhasesFit'
    BY <2>1, <2>3, <2>4 DEF StageFits, PhasesFit, AuditPasses, Intact, First, HotelPlaces
  <2>6. DatabasesFit'
    <3>1. ~s.prepared /\ databases # "opened" /\ applying = "none"
      BY <2>1 DEF StageFits, DatabasesFit, Ended, Teardown
    <3>2. databases' # "opened" /\ applying' = "none" /\ at' \notin PhasePlaces
      BY <2>1, <2>3, <3>1 DEF PhasePlaces
    <3>3. QED
      BY <2>1, <3>1, <3>2 DEF DatabasesFit
  <2>7. QED
    BY <2>3, <2>5, <2>6 DEF StageHolds
<1>3. CASE RecordStorage
  <2> DEFINE t == [s EXCEPT !.state = "storage_prepared", !.prepared = TRUE]
  <2>1. at = "storagePrepared" /\ UNCHANGED <<guarded, stageCluster, machines>> /\ SaveJob(WithStage(t), "storage")
    BY <1>3 DEF RecordStorage, StageFits
  <2>2. at \in StagePlaces /\ "storage" \in StagePlaces /\ "storage_prepared" \in StageStates
    BY <2>1 DEF StagePlaces, StageStates
  <2>3. t \in StageJournals /\ t.state = "storage_prepared" /\ t.receipts = s.receipts /\ t.prepared
    BY <1>1, <2>2 DEF StageJournals
  <2> HIDE DEF t
  <2>4. StageWorks /\ candidate'.stage = t /\ ((recorded' = candidate' /\ at' = "storage") \/ at' = "pend")
    BY <2>1, <2>2, <2>3, StageSaves DEF StageFits
  <2>5. AuditPasses
    BY <2>2 DEF StageFits, PhasesFit
  <2>6. PhasesFit'
    <3>1. recorded'.stage \in {recorded.stage, candidate'.stage}
      BY <2>4 DEF StageWorks
    <3>2. Len(candidate'.stage.receipts) <= 6 /\ (machines = "ready" /\ ~meddled => Intact(candidate'.stage))
      BY <2>3, <2>4 DEF StageFits, PhasesFit, Intact
    <3>3. at' \notin First \cup HotelPlaces \cup {"validate", "apply", "sendPhase", "reconciled"}
      BY <2>4 DEF First, HotelPlaces
    <3>4. QED
      BY <2>1, <2>5, <3>1, <3>2, <3>3, PhasesRest DEF StageFits, stageCluster
  <2>7. DatabasesFit'
    <3>1. candidate'.stage.prepared /\ at' \notin PhasePlaces \cup {"prepareStorage", "storagePrepared"}
      BY <2>3, <2>4 DEF PhasePlaces
    <3>2. QED
      BY <2>1, <2>4, <3>1, DatabasesRest DEF StageFits, stageCluster
  <2>8. QED
    BY <2>4, <2>6, <2>7 DEF StageHolds
<1>4. CASE RevisitPhases
  <2>1. /\ at = "storage" /\ s.prepared /\ UNCHANGED <<guarded, stageCluster, machines>>
        /\ SaveJob(candidate, "reconcile") \/ (Decline /\ candidate' = candidate /\ recorded' = recorded)
    BY <1>4 DEF RevisitPhases, StageFits
  <2>2. at \in StagePlaces /\ "reconcile" \in StagePlaces /\ "attest" \in StagePlaces
    BY <2>1 DEF StagePlaces
  <2>3. CASE SaveJob(candidate, "reconcile")
    <3>1. /\ candidate' = candidate
          /\ (recorded' = candidate /\ Proceeds("reconcile")) \/ (recorded' \in {recorded, candidate} /\ BreaksOff)
      BY <2>3, Saves DEF StageFits, CandidateTyped
    <3>2. BreaksOff => at' = "pend"
      BY <2>2, Handlers DEF BreaksOff
    <3>3. StageWorks /\ ((recorded' = candidate' /\ at' = "reconcile") \/ at' = "pend")
      BY <2>1, <2>2, <3>1, <3>2 DEF StageWorks, Proceeds, StageFits, CandidateTyped, SameCustody
    <3>4. PhasesFit'
      <4>1. recorded'.stage \in {recorded.stage, candidate'.stage} /\ AuditPasses
        BY <2>2, <3>3 DEF StageWorks, StageFits, PhasesFit
      <4>2. Len(candidate'.stage.receipts) <= 6 /\ (machines = "ready" /\ ~meddled => Intact(candidate'.stage))
        BY <3>1 DEF StageFits, PhasesFit
      <4>3. at' \notin First \cup HotelPlaces \cup {"validate", "apply", "sendPhase", "reconciled"}
        BY <3>3 DEF First, HotelPlaces
      <4>4. QED
        BY <2>1, <4>1, <4>2, <4>3, PhasesRest DEF StageFits, stageCluster
    <3>5. DatabasesFit'
      <4>1. candidate'.stage.prepared /\ at' \notin {"prepareStorage", "storagePrepared"}
        BY <2>1, <3>1, <3>3
      <4>2. at' \in PhasePlaces => recorded' = candidate'
        BY <3>3 DEF PhasePlaces
      <4>3. QED
        BY <2>1, <3>3, <4>1, <4>2, DatabasesRest DEF StageFits, stageCluster
    <3>6. QED
      BY <3>3, <3>4, <3>5 DEF StageHolds
  <2>4. CASE Decline /\ candidate' = candidate /\ recorded' = recorded
    <3>1. ~GoOn("attest")
      BY <2>2, <2>4, Handlers DEF GoOn, Decline
    <3>2. QED
      BY <2>1, <2>2, <2>4, <3>1, JobRests DEF stageCluster
  <2>5. QED
    BY <2>1, <2>3, <2>4
<1>5. QED
  BY <1>2, <1>3, <1>4

\* The phases.
LEMMA PhaseStepsHold ==
  ASSUME StageFits, SendPhase \/ RecordPhase \/ AttestSupport
  PROVE  StageHolds
<1> DEFINE s == candidate.stage
<1>1. /\ s \in StageJournals /\ s.receipts \in Seq(0..2) /\ Len(s.receipts) \in Nat /\ Len(s.receipts) <= 6
      /\ s.state \in StageStates /\ s.pending \in SUBSET Seen
      /\ live \in [StagePhases -> Seen] /\ \A p \in StagePhases : live[p].whole => live[p].uid # 0
  BY StageIs
<1>2. at \in StagePlaces /\ at \in PhasePlaces
  BY DEF SendPhase, RecordPhase, AttestSupport, StagePlaces, PhasePlaces
<1>3. AuditPasses
  BY <1>2 DEF StageFits, PhasesFit
<1>4. Len(s.receipts) < 6 => CurrentPhase \in StagePhases
  BY <1>1, PhasesAreSix DEF CurrentPhase
<1>5. CASE SendPhase
  <2>1. /\ at = "sendPhase" /\ UNCHANGED <<candidate, recorded, guarded, meddled, machines>>
        /\ GoOn("reconciled") \/ BreakOff \/ Decline
        /\ live' \in {live, AfterApply(CurrentPhase), PartlyApplied(CurrentPhase)}
    BY <1>5 DEF SendPhase, StageFits
  <2>2. Len(s.receipts) < 6 /\ CurrentPhase \in StagePhases
    BY <1>4, <2>1 DEF StageFits, PhasesFit
  <2>3. StageWorks /\ at' \in {"reconciled", "pend"}
    BY <1>2, <2>1, StageKeeps DEF StageFits, StagePlaces
  <2>4. /\ live' \in [StagePhases -> Seen]
        /\ \A q \in StagePhases : live'[q].whole => live'[q].uid # 0
        /\ \A q \in StagePhases : live[q].whole => live'[q] = live[q]
    BY <1>1, <2>1, <2>2, Applies
  <2>5. PhasesFit'
    <3>1. machines = "ready" /\ ~meddled => Intact(recorded.stage)' /\ Intact(s)'
      <4>1. recorded.stage \in StageJournals /\ Len(recorded.stage.receipts) <= 6
        BY JobsChange DEF StageFits, CandidateTyped, PhasesFit
      <4>2. machines = "ready" /\ ~meddled => Intact(recorded.stage) /\ Intact(s)
        BY DEF StageFits, PhasesFit
      <4>3. Len(s.receipts) <= 6
        BY <1>1
      <4>4. ASSUME machines = "ready", ~meddled
            PROVE  Intact(recorded.stage)'
        BY <1>1, <2>1, <2>4, <4>1, <4>2, <4>4, IntactStays DEF Intact
      <4>5. ASSUME machines = "ready", ~meddled
            PROVE  Intact(s)'
        BY <1>1, <2>1, <2>4, <4>2, <4>3, <4>5, IntactStays DEF Intact
      <4>6. QED
        BY <4>4, <4>5
    <3>2. at' \notin First \cup HotelPlaces \cup {"validate"}
      BY <2>3 DEF First, HotelPlaces
    <3>3. AuditPasses'
      BY <1>3, <2>1 DEF AuditPasses
    <3>4. Len(candidate'.stage.receipts) < 6 /\ Len(recorded'.stage.receipts) <= 6
      BY <2>1, <2>2 DEF StageFits, PhasesFit
    <3>5. Len(candidate'.stage.receipts) <= 6
      BY <1>1, <2>1
    <3>6. QED
      BY <2>1, <2>4, <3>1, <3>2, <3>3, <3>4, <3>5 DEF PhasesFit
  <2>6. DatabasesFit'
    BY <1>2, <2>1, <2>3 DEF DatabasesFit, StageFits, PhasePlaces, Ended, Teardown
  <2>7. QED
    BY <2>3, <2>5, <2>6 DEF StageHolds
<1>6. CASE RecordPhase
  <2> DEFINE after == live[CurrentPhase]
             x == IF Len(s.receipts) + 1 = Len(Phases) THEN "attesting" ELSE "revalidating"
             r == Append(s.receipts, after.uid)
             t == [s EXCEPT !.state = x, !.receipts = r, !.pending = {}]
  <2>1. at = "reconciled" /\ UNCHANGED <<guarded, stageCluster, machines>>
    BY <1>6 DEF RecordPhase, StageFits
  <2>2. Len(s.receipts) < 6 /\ CurrentPhase \in StagePhases /\ "reconcile" \in StagePlaces
    BY <1>4, <2>1 DEF StageFits, PhasesFit, StagePlaces
  <2>3. \/ after.whole /\ SaveJob(WithStage(t), "reconcile")
        \/ Decline /\ candidate' = candidate /\ recorded' = recorded
    BY <1>6 DEF RecordPhase
  <2>4. CASE after.whole /\ SaveJob(WithStage(t), "reconcile")
    <3>1. after \in Seen /\ after.uid \in 0..2
      BY <1>1, <2>2 DEF Seen
    <3>2. x \in StageStates /\ x # "absent"
      BY DEF StageStates
    <3>3. r \in Seq(0..2) /\ Len(r) = Len(s.receipts) + 1 /\ r[Len(r)] = after.uid
          /\ \A i \in 1..Len(s.receipts) : r[i] = s.receipts[i]
      BY <1>1, <3>1
    <3> HIDE DEF r, x
    <3>4. t \in StageJournals /\ t.state = x /\ t.receipts = r /\ t.prepared = s.prepared
      BY <1>1, <3>2, <3>3 DEF StageJournals
    <3> HIDE DEF t
    <3>5. StageWorks /\ candidate'.stage = t /\ ((recorded' = candidate' /\ at' = "reconcile") \/ at' = "pend")
      BY <1>2, <2>1, <2>2, <2>4, <3>2, <3>4, StageSaves DEF StageFits
    <3>6. Intact(s) => Intact(t)
      <4>1. SUFFICES ASSUME Intact(s), NEW i \in 1..Len(r)
                     PROVE  live[Phases[i]] = [uid |-> r[i], whole |-> TRUE]
        BY <3>4 DEF Intact
      <4>2. CASE i = Len(r)
        <5>1. Phases[i] = CurrentPhase /\ r[i] = after.uid
          BY <3>3, <4>2 DEF CurrentPhase
        <5>2. QED
          BY <2>4, <3>1, <5>1, SeenIs
      <4>3. CASE i # Len(r)
        <5>1. i \in 1..Len(s.receipts)
          BY <1>1, <3>3, <4>3
        <5>2. QED
          BY <3>3, <4>1, <5>1 DEF Intact
      <4>4. QED
        BY <4>2, <4>3
    <3>7. Len(t.receipts) <= 6
      BY <1>1, <2>2, <3>3, <3>4
    <3>8. PhasesFit'
      <4>1. recorded'.stage \in {recorded.stage, candidate'.stage}
        BY <3>5 DEF StageWorks
      <4>2. Len(candidate'.stage.receipts) <= 6 /\ (machines = "ready" /\ ~meddled => Intact(candidate'.stage))
        BY <3>5, <3>6, <3>7 DEF StageFits, PhasesFit
      <4>3. at' \notin First \cup HotelPlaces \cup {"validate", "apply", "sendPhase", "reconciled"}
        BY <3>5 DEF First, HotelPlaces
      <4>4. QED
        BY <1>3, <2>1, <4>1, <4>2, <4>3, PhasesRest DEF StageFits, stageCluster
    <3>9. DatabasesFit'
      <4>1. s.prepared
        BY <1>2 DEF StageFits, DatabasesFit, PhasePlaces, Ended, Teardown
      <4>2. candidate'.stage.prepared /\ at' \notin {"prepareStorage", "storagePrepared"}
        BY <3>4, <3>5, <4>1
      <4>3. QED
        BY <1>2, <2>1, <3>5, <4>1, <4>2, DatabasesRest DEF StageFits, stageCluster
    <3>10. QED
      BY <3>5, <3>8, <3>9 DEF StageHolds
  <2>5. CASE Decline /\ candidate' = candidate /\ recorded' = recorded
    BY <1>2, <2>1, <2>2, <2>5, JobRests DEF stageCluster
  <2>6. QED
    BY <2>3, <2>4, <2>5
<1>7. CASE AttestSupport
  <2> DEFINE t == [s EXCEPT !.state = "ready"]
             next == IF guarded THEN "hotel" ELSE "validate"
  <2>1. /\ at = "reconcile" /\ UNCHANGED <<guarded, stageCluster, machines>>
        /\ \/ CompletedRemain(s) /\ WholeSupport /\ SaveJob(WithStage(t), next)
           \/ Decline /\ candidate' = candidate /\ recorded' = recorded
    BY <1>7 DEF AttestSupport, StageFits
  <2>2. CASE CompletedRemain(s) /\ WholeSupport /\ SaveJob(WithStage(t), next)
    <3>1. "ready" \in StageStates /\ next \in {"hotel", "validate"}
      BY DEF StageStates
    <3>2. t \in StageJournals /\ t.state = "ready" /\ t.receipts = s.receipts /\ t.prepared = s.prepared
      BY <1>1, <3>1 DEF StageJournals
    <3> HIDE DEF t, next
    <3>3. StageWorks /\ candidate'.stage = t /\ ((recorded' = candidate' /\ at' = next) \/ at' = "pend")
      BY <1>2, <2>1, <2>2, <3>1, <3>2, StageSaves DEF StageFits
    <3>4. Intact(t)
      <4>1. SUFFICES ASSUME NEW i \in 1..Len(s.receipts)
                     PROVE  live[Phases[i]] = [uid |-> s.receipts[i], whole |-> TRUE]
        BY <3>2 DEF Intact
      <4>2. Phases[i] \in StagePhases
        <5>1. i \in 1..6
          BY <1>1
        <5>2. QED
          BY <5>1, PhasesAreSix
      <4>3. live[Phases[i]].uid = s.receipts[i] /\ live[Phases[i]].whole /\ live[Phases[i]] \in Seen
        BY <1>1, <2>2, <4>2 DEF CompletedRemain, WholeSupport
      <4>4. QED
        BY <4>3, SeenIs
    <3>5. PhasesFit'
      <4>1. recorded'.stage \in {recorded.stage, candidate'.stage}
        BY <3>3 DEF StageWorks
      <4>2. Len(candidate'.stage.receipts) <= 6 /\ Intact(candidate'.stage) /\ candidate'.stage.state = "ready"
        BY <1>1, <3>2, <3>3, <3>4
      <4>3. at' \notin First \cup {"apply", "sendPhase", "reconciled"}
        BY <3>1, <3>3 DEF First
      <4>4. QED
        BY <1>3, <2>1, <4>1, <4>2, <4>3, PhasesRest DEF StageFits, stageCluster
    <3>6. DatabasesFit'
      <4>1. s.prepared
        BY <1>2 DEF StageFits, DatabasesFit, PhasePlaces, Ended, Teardown
      <4>2. candidate'.stage.prepared /\ at' \notin PhasePlaces \cup {"prepareStorage", "storagePrepared"}
        BY <3>1, <3>2, <3>3, <4>1 DEF PhasePlaces
      <4>3. QED
        BY <2>1, <3>3, <4>1, <4>2, DatabasesRest DEF StageFits, stageCluster
    <3>7. QED
      BY <3>3, <3>5, <3>6 DEF StageHolds
  <2>3. CASE Decline /\ candidate' = candidate /\ recorded' = recorded
    <3>1. ~GoOn("attest") /\ "attest" \in StagePlaces
      BY <1>2, <2>3, Handlers DEF GoOn, Decline, StagePlaces
    <3>2. QED
      BY <1>2, <2>1, <2>3, <3>1, JobRests DEF stageCluster
  <2>4. QED
    BY <2>1, <2>2, <2>3
<1>8. QED
  BY <1>5, <1>6, <1>7

\* Whichever it is.
LEMMA StageStepsHold ==
  ASSUME StageFits, StageStep
  PROVE  StageHolds
BY StateStepsHold, StorageStepsHold, PhaseStepsHold DEF StageStep

-------------------------------------------------------------------------------
(* The Hotel controller.                                                   *)

\* Where its journal is open.
JournalPlaces ==
  {"openJournal", "createPods", "sendPods", "pinPods", "gate", "latch", "intent", "saveIntent", "release",
   "poll", "exit"}

LEMMA JournalRests ==
  ASSUME JournalFits, UNCHANGED <<files, jobPods, released>>, at' \notin JournalPlaces
  PROVE  JournalFits'
BY DEF JournalFits, JournalPlaces, Completed, Mode

LEMMA HotelRests ==
  ASSUME HotelFits, UNCHANGED <<jobPods, released>>, at' # "release", HotelTold(recorded'.hotel),
         at' \notin Ended => HotelTold(candidate'.hotel)
  PROVE  HotelFits'
BY DEF HotelFits, HotelTold, Completed

\* What every step of the controller leaves alone.
HotelWorks ==
  /\ at \in HotelPlaces \cup {"failHotel"} /\ UNCHANGED <<guarded, stageCluster, machines>>
  /\ candidate'.state = candidate.state /\ candidate'.stage = candidate.stage
  /\ SameCustody(candidate', candidate)
  /\ candidate' \in Jobs /\ recorded' \in {recorded, candidate'}
  /\ \/ at \in HotelPlaces /\ at' \in HotelPlaces \cup {"validate"} /\ call' = call
     \/ at' \in {"failHotel", "pend"} /\ Broken

HotelFitted == CandidateTyped /\ JournalFits /\ HotelFits

HotelHolds == HotelWorks /\ JournalFits' /\ HotelFits'

\* A new journal of Hotel is saved, ...
LEMMA HotelSaves ==
  ASSUME CandidateTyped, at \in HotelPlaces, UNCHANGED <<guarded, stageCluster, machines>>,
         NEW h \in Hotels, NEW next \in HotelPlaces \cup {"validate"}, SaveJob(WithHotel(h), next)
  PROVE  /\ HotelWorks /\ candidate'.hotel = h
         /\ recorded'.hotel \in {recorded.hotel, h}
         /\ (recorded' = candidate' /\ at' = next) \/ at' = "failHotel"
<1>1. /\ WithHotel(h) \in Jobs /\ WithHotel(h).hotel = h /\ WithHotel(h).state = candidate.state
      /\ WithHotel(h).stage = candidate.stage /\ SameCustody(WithHotel(h), candidate)
  BY JobsChange DEF CandidateTyped, WithHotel
<1>2. /\ candidate' = WithHotel(h)
      /\ (recorded' = WithHotel(h) /\ Proceeds(next)) \/ (recorded' \in {recorded, WithHotel(h)} /\ BreaksOff)
  BY Saves DEF CandidateTyped
<1>3. BreaksOff => at' = "failHotel" /\ Broken
  BY Handlers DEF BreaksOff
<1>4. QED
  BY <1>1, <1>2, <1>3 DEF HotelWorks, Proceeds

\* ... or nothing is.
LEMMA HotelKeeps ==
  ASSUME CandidateTyped, at \in HotelPlaces, UNCHANGED <<guarded, stageCluster, machines>>,
         candidate' = candidate, recorded' = recorded,
         NEW next \in HotelPlaces, GoOn(next) \/ BreakOff \/ Decline
  PROVE  HotelWorks /\ at' \in {next, "failHotel"} /\ (~GoOn(next) => at' = "failHotel")
<1>1. BreakOff \/ Decline => BreaksOff
  BY StepsBreakOff DEF CandidateTyped
<1>2. BreaksOff => at' = "failHotel" /\ Broken
  BY Handlers DEF BreaksOff
<1>3. QED
  BY <1>1, <1>2 DEF HotelWorks, GoOn, CandidateTyped, SameCustody

\* Where the Pods stay as they are and what is said of Hotel is saved.
LEMMA ToldSaves ==
  ASSUME HotelFitted, at \in HotelPlaces, UNCHANGED <<guarded, stageCluster, machines, jobPods, released>>,
         NEW h \in Hotels, NEW next \in HotelPlaces \cup {"validate"}, SaveJob(WithHotel(h), next),
         HotelTold(h), next = "release" => h.executed # "no"
  PROVE  HotelWorks /\ HotelFits' /\ at' \in {next, "failHotel"}
<1>1. /\ HotelWorks /\ candidate'.hotel = h /\ recorded'.hotel \in {recorded.hotel, h}
      /\ (recorded' = candidate' /\ at' = next) \/ at' = "failHotel"
  BY HotelSaves DEF HotelFitted
<1>2. HotelTold(recorded'.hotel) /\ HotelTold(candidate'.hotel)
  BY <1>1 DEF HotelFitted, HotelFits
<1>3. CASE at' # "release"
  BY <1>1, <1>2, <1>3, HotelRests DEF HotelFitted
<1>4. CASE at' = "release"
  <2>1. recorded'.hotel.executed # "no" /\ candidate'.hotel.executed # "no"
    BY <1>1, <1>4
  <2>2. QED
    BY <1>1, <1>2, <1>4, <2>1 DEF HotelFits, HotelTold, Completed
<1>5. QED
  BY <1>1, <1>3, <1>4

\* Where the job stays as it is, and so do the Pods.
LEMMA ToldRests ==
  ASSUME HotelFitted, at \in HotelPlaces, UNCHANGED <<guarded, stageCluster, machines, jobPods, released>>,
         candidate' = candidate, recorded' = recorded,
         NEW next \in HotelPlaces \ {"release"}, GoOn(next) \/ BreakOff \/ Decline
  PROVE  HotelWorks /\ HotelFits' /\ at' \in {next, "failHotel"} /\ (~GoOn(next) => at' = "failHotel")
<1>1. HotelWorks /\ at' \in {next, "failHotel"} /\ (~GoOn(next) => at' = "failHotel")
  BY HotelKeeps DEF HotelFitted
<1>2. HotelTold(recorded'.hotel) /\ HotelTold(candidate'.hotel) /\ at' # "release"
  BY <1>1 DEF HotelFitted, HotelFits, HotelPlaces, Ended
<1>3. QED
  BY <1>1, <1>2, HotelRests DEF HotelFitted

\* A journal of Hotel that says what was told.
LEMMA HotelIs ==
  ASSUME HotelFitted
  PROVE  /\ candidate \in Jobs /\ candidate.hotel \in Hotels
         /\ at \notin Ended => HotelTold(candidate.hotel)
         /\ \A x \in HotelStates :
              LET h == [candidate.hotel EXCEPT !.state = x]
              IN /\ h \in Hotels /\ h.executed = candidate.hotel.executed
                 /\ at \notin Ended => HotelTold(h)
<1>1. candidate \in Jobs /\ candidate.hotel \in Hotels
  BY JobsChange DEF HotelFitted, CandidateTyped
<1>2. at \notin Ended => HotelTold(candidate.hotel)
  BY DEF HotelFitted, HotelFits
<1>3. ASSUME NEW x \in HotelStates
      PROVE  LET h == [candidate.hotel EXCEPT !.state = x]
             IN /\ h \in Hotels /\ h.executed = candidate.hotel.executed
                /\ at \notin Ended => HotelTold(h)
  <2> DEFINE h == [candidate.hotel EXCEPT !.state = x]
  <2>1. h \in Hotels /\ h.executed = candidate.hotel.executed /\ h.verified = candidate.hotel.verified
    BY <1>1 DEF Hotels
  <2> HIDE DEF h
  <2>2. at \notin Ended => HotelTold(h)
    BY <1>2, <2>1 DEF HotelTold
  <2>3. QED
    BY <2>1, <2>2 DEF h
<1>4. QED
  BY <1>1, <1>2, <1>3

\* Up to the first gate.
LEMMA PodStepsHold ==
  ASSUME HotelFitted, UNCHANGED <<stageCluster, machines>>,
         OpenJournal \/ BeginPods \/ CreatePods \/ RecordBlockedPods
  PROVE  HotelHolds
<1> DEFINE h == candidate.hotel
<1>1. /\ at \in HotelPlaces /\ at \notin Ended
      /\ {"createPods", "sendPods", "pinPods", "gate", "hotel"} \subseteq HotelPlaces
      /\ {"creating", "blocked"} \subseteq HotelStates
  BY DEF OpenJournal, BeginPods, CreatePods, RecordBlockedPods, HotelPlaces, Ended, HotelStates
<1>2. Cannot => Decline /\ candidate' = candidate /\ recorded' = recorded /\ ~GoOn("hotel")
  BY <1>1, Handlers DEF Cannot, Decline, GoOn
<1>3. CASE OpenJournal
  <2>1. /\ at = "openJournal" /\ UNCHANGED <<guarded, stageCluster, machines, jobPods, released>>
        /\ \/ SaveJob(candidate, "createPods") /\ files' = [files EXCEPT !.events = 1]
           \/ Cannot /\ files' = files
    BY <1>3 DEF OpenJournal
  <2>2. CASE SaveJob(candidate, "createPods") /\ files' = [files EXCEPT !.events = 1]
    <3>1. candidate = WithHotel(h) /\ h \in Hotels /\ HotelTold(h)
      BY <1>1, HotelIs DEF WithHotel, Jobs
    <3>2. HotelWorks /\ HotelFits' /\ at' \in {"createPods", "failHotel"}
      BY <1>1, <2>1, <2>2, <3>1, ToldSaves DEF HotelFitted
    <3>3. JournalFits'
      BY <2>1, <2>2, <3>2 DEF HotelFitted, JournalFits, Completed
    <3>4. QED
      BY <3>2, <3>3 DEF HotelHolds
  <2>3. CASE Cannot /\ files' = files
    <3>1. HotelWorks /\ HotelFits' /\ at' = "failHotel"
      BY <1>1, <1>2, <2>1, <2>3, ToldRests DEF HotelFitted
    <3>2. JournalFits'
      BY <2>1, <2>3, <3>1, JournalRests DEF HotelFitted, JournalPlaces
    <3>3. QED
      BY <3>1, <3>2 DEF HotelHolds
  <2>4. QED
    BY <2>1, <2>2, <2>3
<1>4. CASE BeginPods
  <2>1. /\ at = "createPods" /\ UNCHANGED <<guarded, stageCluster, initialization>>
        /\ SaveJob(WithHotel([h EXCEPT !.state = "creating"]), "sendPods") \/ Cannot
    BY <1>4 DEF BeginPods
  <2>2. HotelWorks /\ HotelFits' /\ at' \in {"sendPods", "failHotel"}
    <3>1. CASE SaveJob(WithHotel([h EXCEPT !.state = "creating"]), "sendPods")
      <4> DEFINE t == [h EXCEPT !.state = "creating"]
      <4>1. t \in Hotels /\ HotelTold(t)
        BY <1>1, HotelIs
      <4>2. SaveJob(WithHotel(t), "sendPods")
        BY <3>1
      <4> HIDE DEF t
      <4>3. QED
        BY <1>1, <2>1, <4>1, <4>2, ToldSaves DEF initialization
    <3>2. CASE Cannot
      BY <1>1, <1>2, <2>1, <3>2, ToldRests DEF initialization
    <3>3. QED
      BY <2>1, <3>1, <3>2
  <2>3. JournalFits'
    BY <2>1, <2>2 DEF HotelFitted, JournalFits, Completed, Mode, initialization
  <2>4. QED
    BY <2>2, <2>3 DEF HotelHolds
<1>5. CASE CreatePods
  <2> DEFINE gated == [m \in Modes |-> "gated"]
  <2>1. /\ at = "sendPods" /\ UNCHANGED <<candidate, recorded, guarded, stageCluster, machines, files, released>>
        /\ jobPods' \in {jobPods, gated} /\ (GoOn("pinPods") \/ BreakOff)
    BY <1>5 DEF CreatePods
  <2>2. HotelWorks /\ at' \in {"pinPods", "failHotel"}
    BY <1>1, <2>1, HotelKeeps DEF HotelFitted
  <2>3. /\ \A m \in Modes : jobPods[m] = "absent" /\ released[m] = 0
        /\ files.events = 1 /\ jobPods \in [Modes -> {"absent", "gated", "released", "succeeded", "failed"}]
    BY <2>1 DEF HotelFitted, JournalFits
  <2>4. \A m \in Modes : jobPods'[m] \in {"absent", "gated"} /\ released'[m] = 0
    BY <2>1, <2>3
  <2>5. "initialize-empty" \in Modes /\ "verify" \in Modes
    BY DEF Modes
  <2>6. JournalFits'
    <3>1. jobPods' \in [Modes -> {"absent", "gated", "released", "succeeded", "failed"}]
      BY <2>1, <2>3
    <3>2. files' = files /\ files \in [events : 0..6, latches : SUBSET Modes] /\ released' = released
          /\ released \in [Modes -> {0, 1}]
      BY <2>1 DEF HotelFitted, JournalFits
    <3>3. QED
      BY <2>2, <2>3, <2>4, <2>5, <3>1, <3>2 DEF JournalFits
  <2>7. HotelFits'
    <3>1. ~Completed("initialize-empty") /\ ~Completed("verify")
      BY <2>3, <2>5 DEF Completed
    <3>2. HotelTold(recorded.hotel)' /\ HotelTold(candidate.hotel)'
      BY <1>1, <2>1, <3>1, <2>4, <2>5 DEF HotelFitted, HotelFits, HotelTold
    <3>3. QED
      BY <2>2, <3>2 DEF HotelFits
  <2>8. QED
    BY <2>2, <2>6, <2>7 DEF HotelHolds
<1>6. CASE RecordBlockedPods
  <2>1. /\ at = "pinPods" /\ UNCHANGED <<guarded, stageCluster, machines, jobPods, released>>
        /\ \/ /\ SaveJob(WithHotel([h EXCEPT !.state = "blocked"]), "gate")
              /\ files' = [files EXCEPT !.events = 2]
           \/ Cannot /\ files' = files
    BY <1>6 DEF RecordBlockedPods
  <2>2. CASE Cannot /\ files' = files
    <3>1. HotelWorks /\ HotelFits' /\ at' = "failHotel"
      BY <1>1, <1>2, <2>1, <2>2, ToldRests DEF HotelFitted
    <3>2. JournalFits'
      BY <2>1, <2>2, <3>1, JournalRests DEF HotelFitted, JournalPlaces
    <3>3. QED
      BY <3>1, <3>2 DEF HotelHolds
  <2>3. CASE /\ SaveJob(WithHotel([h EXCEPT !.state = "blocked"]), "gate")
             /\ files' = [files EXCEPT !.events = 2]
    <3> DEFINE t == [h EXCEPT !.state = "blocked"]
    <3>1. t \in Hotels /\ HotelTold(t)
      BY <1>1, HotelIs
    <3>2. SaveJob(WithHotel(t), "gate")
      BY <2>3
    <3> HIDE DEF t
    <3>3. HotelWorks /\ HotelFits' /\ at' \in {"gate", "failHotel"}
      BY <1>1, <2>1, <3>1, <3>2, ToldSaves DEF initialization
    <3>4. JournalFits'
      BY <2>1, <2>3, <3>3 DEF HotelFitted, JournalFits, Completed, Mode
    <3>5. QED
      BY <3>3, <3>4 DEF HotelHolds
  <2>4. QED
    BY <2>1, <2>2, <2>3
<1>7. QED
  BY <1>3, <1>4, <1>5, <1>6

\* Before a gate is removed.
LEMMA LatchStepsHold ==
  ASSUME HotelFitted, UNCHANGED <<stageCluster, machines>>,
         CheckGate \/ MakeLatch \/ RecordIntent \/ AwaitPod
  PROVE  HotelHolds
<1>1. at \in HotelPlaces /\ {"latch", "intent", "saveIntent", "exit", "hotel"} \subseteq HotelPlaces \ {"release"}
  BY DEF CheckGate, MakeLatch, RecordIntent, AwaitPod, HotelPlaces
<1>2. Decline => ~GoOn("hotel")
  BY <1>1, Handlers DEF Decline, GoOn
<1>3. Mode \in Modes /\ files.events \in 0..6 /\ files.latches \in SUBSET Modes
  BY DEF Mode, Modes, HotelFitted, JournalFits
<1>4. CASE CheckGate
  <2>1. /\ at = "gate" /\ UNCHANGED <<candidate, recorded, guarded, stageCluster, initialization>>
        /\ \/ GoOn("latch") /\ (Mode = "verify" => Completed("initialize-empty"))
           \/ Decline
    BY <1>4 DEF CheckGate
  <2>2. HotelWorks /\ HotelFits' /\ at' \in {"latch", "failHotel"} /\ (~GoOn("latch") => at' = "failHotel")
    BY <1>1, <2>1, ToldRests DEF initialization
  <2>3. Decline => at' = "failHotel"
    BY <1>1, Handlers DEF Decline
  <2>4. CASE at' = "failHotel"
    BY <2>1, <2>2, <2>4, JournalRests DEF HotelHolds, HotelFitted, JournalPlaces, initialization
  <2>5. CASE at' # "failHotel"
    <3>1. at' = "latch" /\ (Mode = "verify" => Completed("initialize-empty"))
      BY <2>1, <2>2, <2>3, <2>5
    <3>2. JournalFits'
      BY <2>1, <3>1 DEF HotelFitted, JournalFits, Mode, Completed, initialization
    <3>3. QED
      BY <2>2, <3>2 DEF HotelHolds
  <2>6. QED
    BY <2>4, <2>5
<1>5. CASE MakeLatch
  <2> DEFINE latch == [files EXCEPT !.latches = files.latches \cup {Mode}]
  <2>1. /\ at = "latch"
        /\ UNCHANGED <<candidate, recorded, guarded, stageCluster, machines, jobPods, released>>
        /\ \/ files' = latch /\ (GoOn("intent") \/ BreakOff)
           \/ files' = files /\ (Decline \/ BreakOff)
    BY <1>5 DEF MakeLatch
  <2>2. HotelWorks /\ HotelFits' /\ at' \in {"intent", "failHotel"} /\ (~GoOn("intent") => at' = "failHotel")
    BY <1>1, <2>1, ToldRests
  <2>3. Decline \/ BreakOff => at' = "failHotel"
    BY <1>1, Handlers DEF Decline, BreakOff
  <2>4. CASE files' = files
    <3>1. at' = "failHotel"
      <4>1. CASE Decline \/ BreakOff
        BY <2>3, <4>1
      <4>2. CASE files' = latch
        <5>1. files.latches = files.latches \cup {Mode}
          BY <2>4, <4>2 DEF HotelFitted, JournalFits
        <5>2. QED
          BY <1>5, <2>3, <5>1 DEF MakeLatch
      <4>3. QED
        BY <2>1, <4>1, <4>2
    <3>2. QED
      BY <2>1, <2>2, <2>4, <3>1, JournalRests DEF HotelHolds, HotelFitted, JournalPlaces
  <2>5. CASE files' = latch
    <3>1. /\ files' \in [events : 0..6, latches : SUBSET Modes] /\ files'.events = files.events
          /\ Mode \in files'.latches
      BY <1>3, <2>5 DEF HotelFitted, JournalFits
    <3>2. JournalFits'
      BY <2>1, <2>2, <3>1 DEF HotelFitted, JournalFits, Mode, Completed
    <3>3. QED
      BY <2>2, <3>2 DEF HotelHolds
  <2>6. QED
    BY <2>1, <2>4, <2>5
<1>6. CASE RecordIntent
  <2> DEFINE event == [files EXCEPT !.events = files.events + 1]
  <2>1. /\ at = "intent"
        /\ UNCHANGED <<candidate, recorded, guarded, stageCluster, machines, jobPods, released>>
        /\ \/ files' = event /\ GoOn("saveIntent")
           \/ files' \in {files, event} /\ BreakOff
    BY <1>6 DEF RecordIntent
  <2>2. HotelWorks /\ HotelFits' /\ at' \in {"saveIntent", "failHotel"}
    BY <1>1, <2>1, ToldRests
  <2>3. BreakOff => at' = "failHotel"
    BY <1>1, Handlers DEF BreakOff
  <2>4. files.events \in {2, 4} /\ Mode \in files.latches
    BY <2>1 DEF HotelFitted, JournalFits
  <2>5. CASE files' = event
    <3>1. /\ files' \in [events : 0..6, latches : SUBSET Modes] /\ files'.events = files.events + 1
          /\ files'.latches = files.latches
      BY <1>3, <2>4, <2>5 DEF HotelFitted, JournalFits
    <3>2. files'.events \in {3, 5} /\ Mode' = Mode
      BY <2>4, <3>1 DEF Mode
    <3>3. JournalFits'
      BY <2>1, <2>2, <2>4, <3>1, <3>2 DEF HotelFitted, JournalFits, Completed
    <3>4. QED
      BY <2>2, <3>3 DEF HotelHolds
  <2>6. CASE files' = files /\ BreakOff
    BY <2>1, <2>2, <2>3, <2>6, JournalRests DEF HotelHolds, HotelFitted, JournalPlaces
  <2>7. QED
    BY <2>1, <2>5, <2>6
<1>7. CASE AwaitPod
  <2>1. /\ at = "poll" /\ UNCHANGED <<candidate, recorded, guarded, stageCluster, initialization>>
        /\ (GoOn("exit") /\ Completed(Mode)) \/ Decline
    BY <1>7 DEF AwaitPod
  <2>2. HotelWorks /\ HotelFits' /\ at' \in {"exit", "failHotel"}
    BY <1>1, <2>1, ToldRests DEF initialization
  <2>3. Decline => at' = "failHotel"
    BY <1>1, Handlers DEF Decline
  <2>4. CASE at' = "failHotel"
    BY <2>1, <2>2, <2>4, JournalRests DEF HotelHolds, HotelFitted, JournalPlaces, initialization
  <2>5. CASE at' # "failHotel"
    <3>1. at' = "exit" /\ Completed(Mode)
      BY <2>1, <2>2, <2>3, <2>5
    <3>2. JournalFits'
      BY <2>1, <3>1 DEF HotelFitted, JournalFits, Mode, Completed, initialization
    <3>3. QED
      BY <2>2, <3>2 DEF HotelHolds
  <2>6. QED
    BY <2>4, <2>5
<1>8. QED
  BY <1>4, <1>5, <1>6, <1>7

\* The removal of a gate, with the word that precedes it.
LEMMA ReleaseStepsHold ==
  ASSUME HotelFitted, UNCHANGED <<stageCluster, machines>>, SaveIntent \/ ReleaseGate
  PROVE  HotelHolds
<1> DEFINE h == candidate.hotel
<1>1. at \in HotelPlaces /\ at \notin Ended /\ "release" \in HotelPlaces /\ "poll" \in HotelPlaces
  BY DEF SaveIntent, ReleaseGate, HotelPlaces, Ended
<1>2. "initialize-empty" \in Modes /\ "verify" \in Modes /\ Mode \in Modes
  BY DEF Mode, Modes
<1>3. CASE SaveIntent
  <2> DEFINE x == IF Mode = "initialize-empty" THEN "unknown" ELSE h.executed
             t == [h EXCEPT !.state = "intent", !.executed = x]
  <2>1. /\ at = "saveIntent" /\ UNCHANGED <<guarded, stageCluster, initialization>>
        /\ SaveJob(WithHotel(t), "release")
    BY <1>3 DEF SaveIntent
  <2>2. h \in Hotels /\ HotelTold(h) /\ "intent" \in HotelStates
    BY <1>1, HotelIs DEF HotelStates
  <2>3. x \in {"no", "unknown", "yes"} /\ h.verified \in BOOLEAN
    BY <2>2 DEF Hotels
  <2>4. x # "no"
    <3>1. CASE Mode = "initialize-empty"
      BY <3>1
    <3>2. CASE Mode # "initialize-empty"
      <4>1. Mode = "verify" /\ Completed("initialize-empty")
        BY <1>2, <2>1, <3>2 DEF Modes, HotelFitted, JournalFits
      <4>2. released["initialize-empty"] # 0
        BY <1>2, <4>1 DEF HotelFitted, JournalFits, Completed
      <4>3. QED
        BY <2>2, <3>2, <4>2 DEF HotelTold
    <3>3. QED
      BY <3>1, <3>2
  <2>5. x = "yes" => h.executed = "yes"
    OBVIOUS
  <2> HIDE DEF x
  <2>6. t \in Hotels /\ t.executed = x /\ t.verified = h.verified
    BY <2>2, <2>3 DEF Hotels
  <2> HIDE DEF t
  <2>7. HotelTold(t)
    BY <2>2, <2>4, <2>5, <2>6 DEF HotelTold
  <2>8. HotelWorks /\ HotelFits' /\ at' \in {"release", "failHotel"}
    BY <1>1, <2>1, <2>4, <2>6, <2>7, ToldSaves DEF initialization
  <2>9. JournalFits'
    BY <2>1, <2>8 DEF HotelFitted, JournalFits, Mode, Completed, initialization
  <2>10. QED
    BY <2>8, <2>9 DEF HotelHolds
<1>4. CASE ReleaseGate
  <2> DEFINE gone == /\ jobPods' = [jobPods EXCEPT ![Mode] = "released"]
                     /\ released' = [released EXCEPT ![Mode] = released[Mode] + 1]
  <2>1. /\ at = "release" /\ UNCHANGED <<candidate, recorded, guarded, stageCluster, machines, files>>
        /\ \/ Gated(Mode) /\ gone /\ (GoOn("poll") \/ BreakOff)
           \/ UNCHANGED <<jobPods, released>> /\ (BreakOff \/ Decline)
    BY <1>4 DEF ReleaseGate
  <2>2. HotelWorks /\ at' \in {"poll", "failHotel"} /\ (~GoOn("poll") => at' = "failHotel")
    BY <1>1, <2>1, HotelKeeps DEF HotelFitted
  <2>3. BreakOff \/ Decline => at' = "failHotel"
    BY <1>1, Handlers DEF BreakOff, Decline
  <2>4. recorded.hotel.executed # "no" /\ h.executed # "no" /\ HotelTold(recorded.hotel) /\ HotelTold(h)
    BY <1>1, <2>1 DEF HotelFitted, HotelFits
  <2>5. CASE UNCHANGED <<jobPods, released>> /\ (BreakOff \/ Decline)
    <3>1. at' = "failHotel"
      BY <2>3, <2>5
    <3>2. JournalFits'
      BY <2>1, <2>5, <3>1, JournalRests DEF HotelFitted, JournalPlaces
    <3>3. HotelFits'
      BY <2>1, <2>4, <2>5, <3>1, HotelRests DEF HotelFitted
    <3>4. QED
      BY <2>2, <3>2, <3>3 DEF HotelHolds
  <2>6. CASE Gated(Mode) /\ gone
    <3>1. /\ jobPods \in [Modes -> {"absent", "gated", "released", "succeeded", "failed"}]
          /\ released \in [Modes -> {0, 1}] /\ jobPods[Mode] = "gated"
      BY <2>6 DEF HotelFitted, JournalFits, Gated
    <3>2. released[Mode] = 0
      BY <1>2, <3>1 DEF HotelFitted, JournalFits
    <3>3. /\ jobPods' \in [Modes -> {"absent", "gated", "released", "succeeded", "failed"}]
          /\ released' \in [Modes -> {0, 1}] /\ jobPods'[Mode] = "released" /\ released'[Mode] = 1
          /\ \A m \in Modes : m # Mode => jobPods'[m] = jobPods[m] /\ released'[m] = released[m]
      BY <1>2, <2>6, <3>1, <3>2
    <3>4. \A m \in Modes : Completed(m) => Completed(m)'
      BY <3>1, <3>3 DEF Completed
    <3>5. \A m \in Modes : released'[m] > 0 <=> jobPods'[m] \in {"released", "succeeded", "failed"}
      BY <3>3 DEF HotelFitted, JournalFits
    <3>6. files.events \in {3, 5} /\ Mode' = Mode
      BY <2>1 DEF HotelFitted, JournalFits, Mode
    <3>7. released'["verify"] > 0 => Completed("initialize-empty")'
      BY <1>2, <2>1, <3>3, <3>4 DEF HotelFitted, JournalFits
    <3>8. Mode = "verify" => Completed("initialize-empty")'
      BY <1>2, <2>1, <3>4 DEF HotelFitted, JournalFits
    <3>9. JournalFits'
      <4>1. files' = files /\ files \in [events : 0..6, latches : SUBSET Modes]
        BY <2>1 DEF HotelFitted, JournalFits
      <4>2. QED
        BY <2>2, <3>3, <3>5, <3>6, <3>7, <3>8, <4>1 DEF JournalFits
    <3>10. HotelFits'
      <4>1. HotelTold(recorded.hotel)' /\ HotelTold(candidate.hotel)'
        BY <1>2, <2>1, <2>4, <3>4 DEF HotelTold
      <4>2. QED
        BY <2>2, <4>1 DEF HotelFits
    <3>11. QED
      BY <2>2, <3>9, <3>10 DEF HotelHolds
  <2>7. QED
    BY <2>1, <2>5, <2>6
<1>5. QED
  BY <1>3, <1>4

\* The ends of the two Pods, and of the controller.
LEMMA ExitStepsHold ==
  ASSUME HotelFitted, UNCHANGED <<stageCluster, machines>>, RecordExit \/ FinishHotel
  PROVE  HotelHolds
<1> DEFINE h == candidate.hotel
<1>1. /\ at \in HotelPlaces /\ at \notin Ended
      /\ {"final", "gate", "hotel"} \subseteq HotelPlaces \ {"release"}
  BY DEF RecordExit, FinishHotel, HotelPlaces, Ended
<1>2. "initialize-empty" \in Modes /\ "verify" \in Modes /\ Mode \in Modes
  BY DEF Mode, Modes
<1>3. h \in Hotels /\ HotelTold(h) /\ {"exit", "verified"} \subseteq HotelStates /\ h.verified \in BOOLEAN
  <2>1. h \in Hotels /\ HotelTold(h) /\ {"exit", "verified"} \subseteq HotelStates
    BY <1>1, HotelIs DEF HotelStates
  <2>2. QED
    BY <2>1 DEF Hotels
<1>4. Cannot => Decline /\ candidate' = candidate /\ recorded' = recorded /\ ~GoOn("hotel")
  BY <1>1, Handlers DEF Cannot, Decline, GoOn
<1>5. CASE RecordExit
  <2> DEFINE x == IF Mode = "initialize-empty" THEN "yes" ELSE h.executed
             t == [h EXCEPT !.state = "exit", !.executed = x]
             next == IF Mode = "verify" THEN "final" ELSE "gate"
  <2>1. /\ at = "exit" /\ UNCHANGED <<guarded, stageCluster, machines, jobPods, released>>
        /\ \/ files' = [files EXCEPT !.events = files.events + 1] /\ SaveJob(WithHotel(t), next)
           \/ files' = files /\ Cannot
    BY <1>5 DEF RecordExit
  <2>2. Completed(Mode) /\ files.events \in {3, 5}
    BY <2>1 DEF HotelFitted, JournalFits
  <2>3. CASE files' = files /\ Cannot
    <3>1. HotelWorks /\ HotelFits' /\ at' = "failHotel"
      BY <1>1, <1>4, <2>1, <2>3, ToldRests
    <3>2. JournalFits'
      BY <2>1, <2>3, <3>1, JournalRests DEF HotelFitted, JournalPlaces
    <3>3. QED
      BY <3>1, <3>2 DEF HotelHolds
  <2>4. CASE files' = [files EXCEPT !.events = files.events + 1] /\ SaveJob(WithHotel(t), next)
    <3>1. x \in {"no", "unknown", "yes"}
      BY <1>3 DEF Hotels
    <3>2. /\ x = "yes" => Completed("initialize-empty")
          /\ x = "no" => released["initialize-empty"] = 0
      BY <1>3, <2>2 DEF HotelTold
    <3>3. next \in {"final", "gate"} /\ (next = "gate" => Mode = "initialize-empty")
      BY <1>2 DEF Modes
    <3> HIDE DEF x, next
    <3>4. t \in Hotels /\ t.executed = x /\ t.verified = h.verified
      BY <1>3, <3>1 DEF Hotels
    <3> HIDE DEF t
    <3>5. HotelTold(t)
      BY <1>3, <3>2, <3>4 DEF HotelTold
    <3>6. HotelWorks /\ HotelFits' /\ at' \in {next, "failHotel"}
      BY <1>1, <2>1, <2>4, <3>3, <3>4, <3>5, ToldSaves
    <3>7. files'.events \in {4, 6} /\ files' \in [events : 0..6, latches : SUBSET Modes]
      BY <2>2, <2>4 DEF HotelFitted, JournalFits
    <3>8. at' = "gate" => files'.events = 4
      <4>1. at' = "gate" => files.events = 3
        BY <2>2, <3>3, <3>6 DEF Mode
      <4>2. QED
        BY <2>4, <4>1 DEF HotelFitted, JournalFits
    <3>9. JournalFits'
      BY <2>1, <3>3, <3>6, <3>7, <3>8 DEF HotelFitted, JournalFits, Completed
    <3>10. QED
      BY <3>6, <3>9 DEF HotelHolds
  <2>5. QED
    BY <2>1, <2>3, <2>4
<1>6. CASE FinishHotel
  <2> DEFINE t == [h EXCEPT !.state = "verified", !.verified = TRUE]
  <2>1. /\ at = "final" /\ UNCHANGED <<guarded, stageCluster, initialization>>
        /\ \/ (\A m \in Modes : Completed(m)) /\ SaveJob(WithHotel(t), "validate")
           \/ Cannot
    BY <1>6 DEF FinishHotel
  <2>2. HotelWorks /\ HotelFits' /\ at' \in {"validate", "failHotel"}
    <3>1. CASE (\A m \in Modes : Completed(m)) /\ SaveJob(WithHotel(t), "validate")
      <4>1. t \in Hotels /\ t.executed = h.executed
        BY <1>3 DEF Hotels
      <4> HIDE DEF t
      <4>2. HotelTold(t)
        BY <1>2, <1>3, <3>1, <4>1 DEF HotelTold
      <4>3. QED
        BY <1>1, <2>1, <3>1, <4>1, <4>2, ToldSaves DEF initialization
    <3>2. CASE Cannot
      BY <1>1, <1>4, <2>1, <3>2, ToldRests DEF initialization
    <3>3. QED
      BY <2>1, <3>1, <3>2
  <2>3. JournalFits'
    BY <2>1, <2>2, JournalRests DEF HotelFitted, JournalPlaces, initialization
  <2>4. QED
    BY <2>2, <2>3 DEF HotelHolds
<1>7. QED
  BY <1>5, <1>6

\* The controller begins, or gives up.
LEMMA EdgeStepsHold ==
  ASSUME HotelFitted, SuccessFits, UNCHANGED <<stageCluster, machines>>, StartHotel \/ FailHotel
  PROVE  HotelHolds
<1> DEFINE h == candidate.hotel
<1>1. at \in HotelPlaces \cup {"failHotel"} /\ at \notin Ended /\ "openJournal" \in HotelPlaces
  BY DEF StartHotel, FailHotel, HotelPlaces, Ended
<1>2. h \in Hotels /\ HotelTold(h) /\ candidate \in Jobs /\ {"preflight", "failed"} \subseteq HotelStates
  BY <1>1, HotelIs DEF HotelStates
<1>3. CASE StartHotel
  <2> DEFINE t == [h EXCEPT !.state = "preflight"]
  <2>1. /\ at = "hotel" /\ UNCHANGED <<guarded, stageCluster, initialization>>
        /\ \/ h = NoHotel /\ files = [events |-> 0, latches |-> {}] /\ SaveJob(WithHotel(t), "openJournal")
           \/ /\ at' = "pend" /\ call' = [call EXCEPT !.failure = "error"]
              /\ candidate' = candidate /\ recorded' = recorded
    BY <1>3 DEF StartHotel
  <2>2. CASE h = NoHotel /\ files = [events |-> 0, latches |-> {}] /\ SaveJob(WithHotel(t), "openJournal")
    <3>1. t \in Hotels /\ HotelTold(t)
      BY <1>1, <1>2, HotelIs
    <3> HIDE DEF t
    <3>2. HotelWorks /\ HotelFits' /\ at' \in {"openJournal", "failHotel"}
      BY <1>1, <2>1, <2>2, <3>1, ToldSaves DEF initialization, HotelPlaces
    <3>3. files.events = 0
      BY <2>2
    <3>4. JournalFits'
      BY <2>1, <3>2, <3>3 DEF HotelFitted, JournalFits, Completed, Mode, initialization
    <3>5. QED
      BY <3>2, <3>4 DEF HotelHolds
  <2>3. CASE /\ at' = "pend" /\ call' = [call EXCEPT !.failure = "error"]
             /\ candidate' = candidate /\ recorded' = recorded
    <3>1. Broken
      BY <2>3 DEF Broken, HotelFitted, CandidateTyped, Calls, Failures
    <3>2. HotelWorks
      BY <1>1, <2>1, <2>3, <3>1 DEF HotelWorks, HotelFitted, CandidateTyped, SameCustody, initialization
    <3>3. HotelTold(recorded'.hotel) /\ HotelTold(candidate'.hotel)
      BY <1>2, <2>3 DEF HotelFitted, HotelFits
    <3>4. HotelFits' /\ JournalFits'
      BY <2>1, <2>3, <3>3, HotelRests, JournalRests DEF HotelFitted, JournalPlaces, initialization
    <3>5. QED
      BY <3>2, <3>4 DEF HotelHolds
  <2>4. QED
    BY <2>1, <2>2, <2>3
<1>4. CASE FailHotel
  <2> DEFINE t == [h EXCEPT !.state = "failed", !.verified = FALSE]
  <2>1. /\ at = "failHotel" /\ at' = "pend" /\ UNCHANGED <<call, guarded, stageCluster, initialization>>
        /\ \/ candidate' = WithHotel(t) /\ recorded' \in {recorded, WithHotel(t)}
           \/ candidate' = candidate /\ recorded' = recorded
    BY <1>4 DEF FailHotel
  <2>2. Broken
    BY <2>1 DEF Broken, HotelFitted, CandidateTyped, SuccessFits
  <2>3. t \in Hotels /\ t.executed = h.executed /\ t.verified = FALSE
    BY <1>2 DEF Hotels
  <2> HIDE DEF t
  <2>4. HotelTold(t)
    BY <1>2, <2>3 DEF HotelTold
  <2>5. /\ WithHotel(t) \in Jobs /\ WithHotel(t).hotel = t /\ WithHotel(t).state = candidate.state
        /\ WithHotel(t).stage = candidate.stage /\ SameCustody(WithHotel(t), candidate)
    BY <1>2, <2>3, JobsChange DEF WithHotel
  <2>6. HotelWorks
    BY <1>2, <2>1, <2>2, <2>5 DEF HotelWorks, SameCustody, initialization
  <2>7. HotelTold(recorded'.hotel) /\ HotelTold(candidate'.hotel)
    BY <1>2, <2>1, <2>4, <2>5 DEF HotelFitted, HotelFits
  <2>8. HotelFits' /\ JournalFits'
    BY <2>1, <2>7, HotelRests, JournalRests DEF HotelFitted, JournalPlaces, initialization
  <2>9. QED
    BY <2>6, <2>8 DEF HotelHolds
<1>5. QED
  BY <1>3, <1>4

\* Every step of the controller.
LEMMA HotelStepsHold ==
  ASSUME HotelFitted, SuccessFits, HotelStep
  PROVE  HotelHolds
<1>1. UNCHANGED <<stageCluster, machines>>
  BY DEF HotelStep, StartHotel, OpenJournal, BeginPods, CreatePods, RecordBlockedPods, CheckGate, MakeLatch,
         RecordIntent, SaveIntent, ReleaseGate, AwaitPod, RecordExit, FinishHotel, FailHotel, initialization
<1>2. QED
  BY <1>1, PodStepsHold, LatchStepsHold, ReleaseStepsHold, ExitStepsHold, EdgeStepsHold DEF HotelStep

\* A Pod whose gate is gone ends.
LEMMA PodEndsHolds ==
  ASSUME CandidateTyped, JournalFits, HotelFits, PodEnds
  PROVE  JournalFits' /\ HotelFits'
<1>1. PICK m \in Modes : /\ jobPods[m] = "released"
                         /\ \/ jobPods' = [jobPods EXCEPT ![m] = "succeeded"]
                            \/ jobPods' = [jobPods EXCEPT ![m] = "failed"]
  BY DEF PodEnds
<1>2. UNCHANGED <<at, candidate, recorded, files, released>>
  BY DEF PodEnds
<1>3. "initialize-empty" \in Modes /\ "verify" \in Modes /\ Mode \in Modes /\ Mode' = Mode
  BY <1>2 DEF Mode, Modes
<1>4. jobPods \in [Modes -> {"absent", "gated", "released", "succeeded", "failed"}]
  BY DEF JournalFits
<1>5. /\ jobPods' \in [Modes -> {"absent", "gated", "released", "succeeded", "failed"}]
      /\ jobPods'[m] \in {"succeeded", "failed"} /\ \A k \in Modes : k # m => jobPods'[k] = jobPods[k]
  BY <1>1, <1>4
<1>6. \A k \in Modes : Completed(k) => Completed(k)'
  BY <1>1, <1>5 DEF Completed
<1>7. \A k \in Modes : released'[k] > 0 <=> jobPods'[k] \in {"released", "succeeded", "failed"}
  BY <1>1, <1>2, <1>5 DEF JournalFits
<1>8. JournalFits'
  <2>1. files.events # 0 /\ at \notin {"openJournal", "createPods", "sendPods"}
    BY <1>1 DEF JournalFits
  <2>2. QED
    BY <1>2, <1>3, <1>5, <1>6, <1>7, <2>1 DEF JournalFits
<1>9. HotelFits'
  <2>1. HotelTold(recorded.hotel)' /\ (at \notin Ended => HotelTold(candidate.hotel)')
    BY <1>2, <1>3, <1>6 DEF HotelFits, HotelTold
  <2>2. QED
    BY <1>2, <2>1 DEF HotelFits
<1>10. QED
  BY <1>8, <1>9

-------------------------------------------------------------------------------
(* Work on an accepted run: what becomes of custody and archive.           *)

KeptFits == CustodyFits /\ ArchiveFits /\ SuccessFits

\* Between acceptance and cleanup neither is touched ...
LEMMA CustodyRests ==
  ASSUME CandidateTyped, KeptFits, at \notin Ended \cup Acceptance \cup Teardown,
         UNCHANGED <<guarded, machines>>,
         candidate' \in Jobs, recorded' \in {recorded, candidate'}, SameCustody(candidate', candidate),
         candidate'.state \notin TeardownStates \cup {"unwritten", "queued"},
         candidate.stage # NoStage => candidate'.stage # NoStage,
         at' \in CandidatePlaces \ (Ended \cup Acceptance \cup {"create"} \cup (Teardown \ {"pend"})),
         call'.proved = call.proved
  PROVE  CustodyFits' /\ ArchiveFits'
<1>1. /\ at' \notin Ended \cup Acceptance
      /\ at' \notin {"create", "removeKey", "late", "returned", "finish", "delete", "clear", "absence"}
      /\ at' \notin Teardown \ {"pend"} /\ at' # "idle"
  BY DEF Teardown, Ended
<1>2. /\ ~call.proved /\ ~recorded.proof /\ ~candidate.proof
      /\ candidate.state \notin TeardownStates /\ recorded.state \notin TeardownStates
      /\ CustodyFor(candidate) /\ CustodyFor(recorded)
  BY DEF KeptFits, CustodyFits, Ended, Teardown
<1>3. CustodyFor(candidate')
  BY <1>2 DEF CustodyFor, SameCustody
<1>4. CustodyFits'
  <2>1. CustodyFor(candidate)' /\ CustodyFor(recorded)'
    BY <1>2, <1>3 DEF CustodyFor
  <2>2. recorded'.state \notin TeardownStates /\ candidate'.state \notin TeardownStates
    BY <1>2
  <2>3. ~call'.proved /\ ~recorded'.proof /\ ~candidate'.proof
    BY <1>2 DEF SameCustody
  <2>4. candidate'.source = "none"
    BY <2>1, <2>2 DEF CustodyFor
  <2>5. QED
    BY <1>1, <2>1, <2>2, <2>3, <2>4 DEF CustodyFits, Complete
<1>5. ArchiveFits'
  <2>1. /\ recorded.stage # NoStage => candidate.stage # NoStage
        /\ recorded.archive # NoStage => candidate.archive = recorded.archive
    BY DEF KeptFits, ArchiveFits
  <2>2. /\ recorded'.stage # NoStage => candidate'.stage # NoStage
        /\ recorded'.archive # NoStage => candidate'.archive = recorded'.archive
    BY <2>1 DEF SameCustody
  <2>3. QED
    BY <1>1, <2>2 DEF ArchiveFits
<1>6. QED
  BY <1>4, <1>5

\* ... nor success claimed.
LEMMA WorkRests ==
  ASSUME CandidateTyped, KeptFits, at \notin Ended \cup Acceptance \cup Teardown,
         UNCHANGED <<guarded, machines>>,
         candidate' \in Jobs, recorded' \in {recorded, candidate'}, SameCustody(candidate', candidate),
         candidate'.state \notin TeardownStates \cup {"unwritten", "queued"},
         candidate.stage # NoStage => candidate'.stage # NoStage,
         at' \in CandidatePlaces \ (Ended \cup Acceptance \cup {"create"} \cup (Teardown \ {"pend"})),
         call'.proved = call.proved,
         at' \in {"pend", "failHotel"} => call'.failure # "none"
  PROVE  KeptFits'
<1>1. at' \notin Teardown \ {"pend"} /\ at' # "returned"
  BY DEF Ended
<1>2. SuccessFits'
  BY <1>1 DEF SuccessFits
<1>3. QED
  BY <1>2, CustodyRests DEF KeptFits

\* The stage, ...
LEMMA StageKept ==
  ASSUME CandidateTyped, KeptFits, StageWorks, UNCHANGED machines
  PROVE  KeptFits' /\ at' \in CandidatePlaces /\ call' \in Calls
<1>1. at \notin Ended \cup Acceptance \cup Teardown \cup {"allocate", "accept"}
  BY DEF StageWorks, StagePlaces, Ended, Acceptance, Teardown
<1>2. candidate'.state \notin TeardownStates \cup {"unwritten", "queued"}
  BY <1>1 DEF KeptFits, CustodyFits, StageWorks
<1>3. candidate.stage # NoStage => candidate'.stage # NoStage
  BY EmptyRecords DEF StageWorks
<1>4. BreaksOff => at' = "pend" /\ Broken
  BY Handlers DEF BreaksOff, StageWorks
<1>5. call' \in Calls /\ call'.proved = call.proved /\ (at' \in {"pend", "failHotel"} => call'.failure # "none")
  <2>1. {"pend", "failHotel"} \cap (StagePlaces \cup {"hotel", "validate"}) = {}
    BY DEF StagePlaces
  <2>2. QED
    BY <1>4, <2>1 DEF StageWorks, Broken, CandidateTyped
<1>6. at' \in StagePlaces \cup {"hotel", "validate", "pend"}
  BY <1>4 DEF StageWorks
<1>7. at' \in CandidatePlaces \ (Ended \cup Acceptance \cup {"create"} \cup (Teardown \ {"pend"}))
  BY <1>6 DEF StagePlaces, HotelPlaces, CandidatePlaces, Ended, Acceptance, Teardown
<1>8. QED
  BY <1>1, <1>2, <1>3, <1>5, <1>7, WorkRests DEF StageWorks

\* ... and the controller, which leaves the cluster alone, too.
LEMMA HotelKept ==
  ASSUME CandidateTyped, KeptFits, PhasesFit, DatabasesFit, HotelWorks
  PROVE  KeptFits' /\ PhasesFit' /\ DatabasesFit' /\ at' \in CandidatePlaces /\ call' \in Calls
<1>1. at \notin Ended \cup Acceptance \cup Teardown \cup {"allocate", "accept"}
  BY DEF HotelWorks, HotelPlaces, Ended, Acceptance, Teardown
<1>2. candidate'.state \notin TeardownStates \cup {"unwritten", "queued"}
  BY <1>1 DEF KeptFits, CustodyFits, HotelWorks
<1>3. call' \in Calls /\ call'.proved = call.proved /\ (at' \in {"pend", "failHotel"} => call'.failure # "none")
  <2>1. {"pend", "failHotel"} \cap (HotelPlaces \cup {"validate"}) = {}
    BY DEF HotelPlaces
  <2>2. QED
    BY <2>1 DEF HotelWorks, Broken, CandidateTyped
<1>4. at' \in HotelPlaces \cup {"validate", "failHotel", "pend"}
  BY DEF HotelWorks
<1>5. at' \in CandidatePlaces \ (Ended \cup Acceptance \cup {"create"} \cup (Teardown \ {"pend"}))
  BY <1>4 DEF HotelPlaces, CandidatePlaces, Ended, Acceptance, Teardown
<1>6. KeptFits'
  BY <1>1, <1>2, <1>3, <1>5, WorkRests DEF HotelWorks
<1>7. recorded'.stage \in {recorded.stage, candidate'.stage}
  BY DEF HotelWorks
<1>8. PhasesFit'
  <2>1. at' \in HotelPlaces \cup {"validate"} => at \in HotelPlaces
    BY DEF HotelWorks, HotelPlaces, Broken
  <2>2. at \in HotelPlaces => AuditPasses /\ candidate.stage.state = "ready" /\ Intact(candidate.stage)
    BY DEF PhasesFit
  <2>3. Len(candidate'.stage.receipts) <= 6 /\ (machines = "ready" /\ ~meddled => Intact(candidate'.stage))
    BY DEF PhasesFit, HotelWorks
  <2>4. at' \notin First \cup StagePlaces \cup {"prepare"}
    BY <1>4 DEF First, StagePlaces, HotelPlaces
  <2>5. QED
    BY <1>7, <2>1, <2>2, <2>3, <2>4, PhasesRest DEF HotelWorks, StagePlaces, stageCluster
<1>9. DatabasesFit'
  <2>1. at' \notin PhasePlaces \cup {"prepareStorage", "storagePrepared"}
    BY <1>4 DEF PhasePlaces, HotelPlaces
  <2>2. CASE recorded' = recorded
    BY <1>1, <2>1, <2>2 DEF DatabasesFit, HotelWorks, stageCluster
  <2>3. CASE recorded' = candidate'
    BY <1>1, <2>1, <2>3 DEF DatabasesFit, HotelWorks, stageCluster
  <2>4. QED
    BY <2>2, <2>3 DEF HotelWorks
<1>10. QED
  BY <1>3, <1>5, <1>6, <1>8, <1>9

-------------------------------------------------------------------------------
(* The operator.                                                           *)

ClusterFits == JournalFits /\ HotelFits /\ PhasesFit /\ DatabasesFit

\* Before cleanup, where the cluster stays as it is, and what the job says of it.
LEMMA OfficeRests ==
  ASSUME ClusterFits, at \notin Ended \cup Teardown, UNCHANGED <<stageCluster, initialization>>,
         candidate'.stage = candidate.stage, candidate'.hotel = candidate.hotel,
         recorded' \in {recorded, candidate'},
         at' \notin HotelPlaces \cup {"validate"} \cup (StagePlaces \ {"stage"}),
         at' \in First => at \in First, at' \in {"prepare", "stage"} => AuditPasses
  PROVE  ClusterFits'
<1>1. at' \notin JournalPlaces \cup PhasePlaces \cup {"prepareStorage", "storagePrepared", "release"}
  BY DEF HotelPlaces, JournalPlaces, StagePlaces, PhasePlaces
<1>2. JournalFits'
  BY <1>1, JournalRests DEF ClusterFits, initialization
<1>3. HotelFits'
  <2>1. HotelTold(recorded'.hotel) /\ HotelTold(candidate'.hotel)
    BY DEF ClusterFits, HotelFits
  <2>2. QED
    BY <1>1, <2>1, HotelRests DEF ClusterFits, initialization
<1>4. PhasesFit'
  <2>1. recorded'.stage \in {recorded.stage, candidate'.stage}
    OBVIOUS
  <2>2. Len(candidate'.stage.receipts) <= 6 /\ (machines = "ready" /\ ~meddled => Intact(candidate'.stage))
    BY DEF ClusterFits, PhasesFit
  <2>3. at' \notin {"apply", "sendPhase", "reconciled"}
    BY <1>1 DEF PhasePlaces
  <2>4. at' \in First => candidate'.stage = NoStage /\ recorded'.stage = NoStage
    BY <2>1 DEF ClusterFits, PhasesFit
  <2>5. PhasesFit /\ UNCHANGED <<live, databases, applying, meddled, machines>>
    BY DEF ClusterFits, stageCluster, initialization
  <2>6. QED
    BY <2>1, <2>2, <2>3, <2>4, <2>5, PhasesRest
<1>5. DatabasesFit'
  <2>1. CASE recorded' = recorded
    BY <1>1, <2>1 DEF ClusterFits, DatabasesFit, stageCluster
  <2>2. CASE recorded' = candidate'
    BY <1>1, <2>2 DEF ClusterFits, DatabasesFit, stageCluster
  <2>3. QED
    BY <2>1, <2>2
<1>6. QED
  BY <1>2, <1>3, <1>4, <1>5 DEF ClusterFits

CandidateHolds == CandidateTyped' /\ ClusterFits' /\ KeptFits'

\* A step that only changes the state and the identity of an accepted run.
LEMMA WorkSaves ==
  ASSUME CandidateInv, at \notin Ended \cup Acceptance \cup Teardown,
         UNCHANGED <<guarded, stageCluster, initialization>>,
         NEW job \in Jobs, SameCustody(job, candidate), job.stage = candidate.stage, job.hotel = candidate.hotel,
         job.state \notin TeardownStates \cup {"unwritten", "queued"},
         NEW next \in {"contract", "prepare", "stage"},
         SaveJob(job, next) \/ (Decline /\ candidate' = candidate /\ recorded' = recorded),
         next = "contract" => at \in First, next \in {"prepare", "stage"} => AuditPasses \/ Decline
  PROVE  CandidateHolds
<1>1. /\ candidate' \in {candidate, job} /\ candidate' \in Jobs /\ recorded' \in {recorded, candidate'}
      /\ Proceeds(next) \/ BreaksOff
  BY Saves, StepsBreakOff DEF CandidateInv, CandidateTyped
<1>2. BreaksOff => at' \in {"pend", "failHotel"} /\ Broken
  BY Handlers DEF BreaksOff
<1>3. at' \in {next, "pend", "failHotel"} /\ (at' = next => Proceeds(next))
  BY <1>1, <1>2 DEF Proceeds
<1>4. ~Decline \/ at' # next
  BY Handlers DEF Decline
<1>5. call' \in Calls /\ call'.proved = call.proved /\ (at' \in {"pend", "failHotel"} => call'.failure # "none")
  BY <1>1, <1>2 DEF Proceeds, Broken, CandidateInv, CandidateTyped
<1>6. SameCustody(candidate', candidate) /\ candidate'.stage = candidate.stage /\ candidate'.hotel = candidate.hotel
  BY <1>1 DEF SameCustody
<1>7. candidate'.state \notin TeardownStates \cup {"unwritten", "queued"}
  <2>1. candidate.state \notin TeardownStates \cup {"unwritten", "queued"}
    BY DEF CandidateInv, CustodyFits, Acceptance
  <2>2. QED
    BY <1>1, <2>1
<1>8. at' \in CandidatePlaces \ (Ended \cup Acceptance \cup {"create"} \cup (Teardown \ {"pend"}))
  BY <1>3 DEF CandidatePlaces, First, StagePlaces, Ended, Acceptance, Teardown
<1>9. KeptFits'
  BY <1>1, <1>5, <1>6, <1>7, <1>8, WorkRests DEF CandidateInv, KeptFits, initialization
<1>10. ClusterFits'
  <2>1. at' \notin HotelPlaces \cup {"validate"} \cup (StagePlaces \ {"stage"})
    BY <1>3 DEF HotelPlaces, StagePlaces
  <2>2. at' \in First => at \in First
    BY <1>3 DEF First
  <2>3. at' \in {"prepare", "stage"} => AuditPasses
    BY <1>3, <1>4
  <2>4. QED
    BY <1>1, <1>6, <2>1, <2>2, <2>3, OfficeRests DEF CandidateInv, ClusterFits
<1>11. CandidateTyped'
  BY <1>1, <1>5, <1>8 DEF CandidateInv, CandidateTyped, stageCluster, initialization
<1>12. QED
  BY <1>9, <1>10, <1>11 DEF CandidateHolds

\* The job of an accepted run, with another state.
LEMMA WithIs ==
  ASSUME CandidateInv, NEW s \in JobStates
  PROVE  /\ candidate \in Jobs /\ recorded \in Jobs
         /\ With(s) \in Jobs /\ With(s).state = s /\ With(s).stage = candidate.stage
         /\ With(s).hotel = candidate.hotel /\ SameCustody(With(s), candidate)
BY JobsChange DEF CandidateInv, CandidateTyped, With

LEMMA WorkStepsHold ==
  ASSUME CandidateInv, BeginProvisioning \/ AdoptCloud \/ PrepareRuntime
  PROVE  CandidateHolds
<1>1. /\ at \notin Ended \cup Acceptance \cup Teardown
      /\ {"provisioning", "preparing_runtime", "staging_support"} \subseteq
           JobStates \ (TeardownStates \cup {"unwritten", "queued"})
  BY DEF BeginProvisioning, AdoptCloud, PrepareRuntime, Ended, Acceptance, Teardown, JobStates, TeardownStates
<1>2. Cannot => Decline /\ candidate' = candidate /\ recorded' = recorded
  BY DEF Cannot
<1>3. CASE BeginProvisioning
  <2>1. /\ at = "provision" /\ SaveJob(With("provisioning"), "contract")
        /\ UNCHANGED <<guarded, stageCluster, initialization>>
    BY <1>3 DEF BeginProvisioning
  <2>2. "provision" \in First
    BY DEF First
  <2>3. QED
    BY <1>1, <2>1, <2>2, WithIs, WorkSaves
<1>4. CASE AdoptCloud
  <2> DEFINE job == [With("preparing_runtime") EXCEPT !.identity = Identity]
  <2>1. /\ at = "adopt" /\ UNCHANGED <<guarded, stageCluster, initialization>>
        /\ (AuditPasses /\ SaveJob(job, "prepare")) \/ Cannot
    BY <1>4 DEF AdoptCloud
  <2>2. Identity \in 0..2
    BY DEF Identity
  <2>3. /\ job \in Jobs /\ job.state = "preparing_runtime" /\ job.stage = candidate.stage
        /\ job.hotel = candidate.hotel /\ SameCustody(job, candidate)
    <3> DEFINE w == With("preparing_runtime")
    <3>1. /\ w \in Jobs /\ w.state = "preparing_runtime" /\ w.stage = candidate.stage
          /\ w.hotel = candidate.hotel /\ SameCustody(w, candidate)
      BY <1>1, WithIs
    <3> HIDE DEF w
    <3>2. job = [w EXCEPT !.identity = Identity]
      BY DEF w
    <3>3. QED
      BY <2>2, <3>1, <3>2 DEF SameCustody, Jobs
  <2> HIDE DEF job
  <2>4. QED
    BY <1>1, <1>2, <2>1, <2>3, WorkSaves
<1>5. CASE PrepareRuntime
  <2>1. /\ at = "prepare" /\ UNCHANGED <<guarded, stageCluster, initialization>>
        /\ SaveJob(With("staging_support"), "stage") \/ Cannot
    BY <1>5 DEF PrepareRuntime
  <2>2. AuditPasses
    BY <2>1 DEF CandidateInv, PhasesFit
  <2>3. QED
    BY <1>1, <1>2, <2>1, <2>2, WithIs, WorkSaves
<1>6. QED
  BY <1>3, <1>4, <1>5

\* Support is observed, and only then a process without failure goes to cleanup.
LEMMA ObservationHolds ==
  ASSUME CandidateInv, ObserveSupport
  PROVE  CandidateHolds
<1> DEFINE job == With("support_observed")
<1>1. /\ at = "validate" /\ UNCHANGED <<guarded, stageCluster, initialization>>
      /\ \/ /\ candidate.stage.state = "ready" /\ (guarded => candidate.hotel.verified)
            /\ SaveJob(job, "pend")
         \/ Decline /\ candidate' = candidate /\ recorded' = recorded
  BY DEF ObserveSupport, Cannot
<1>2. at \notin Ended \cup Acceptance \cup Teardown \cup HotelPlaces \cup First
  BY <1>1 DEF Ended, Acceptance, Teardown, HotelPlaces, First
<1>3. /\ job \in Jobs /\ job.state = "support_observed" /\ job.stage = candidate.stage
      /\ job.hotel = candidate.hotel /\ SameCustody(job, candidate)
  BY WithIs DEF JobStates
<1> HIDE DEF job
<1>4. /\ candidate' \in {candidate, job} /\ candidate' \in Jobs /\ recorded' \in {recorded, candidate'}
      /\ Proceeds("pend") \/ BreaksOff
  BY <1>1, <1>3, Saves, StepsBreakOff DEF CandidateInv, CandidateTyped
<1>5. BreaksOff => at' = "pend" /\ Broken
  BY <1>2, Handlers DEF BreaksOff
<1>6. /\ at' = "pend" /\ call' \in Calls /\ call'.proved = call.proved
      /\ SameCustody(candidate', candidate) /\ candidate'.stage = candidate.stage /\ candidate'.hotel = candidate.hotel
  BY <1>3, <1>4, <1>5 DEF Proceeds, Broken, CandidateInv, CandidateTyped, SameCustody
<1>7. candidate'.state \notin TeardownStates \cup {"unwritten", "queued"}
  <2>1. candidate.state \notin TeardownStates \cup {"unwritten", "queued"}
    BY <1>2 DEF CandidateInv, CustodyFits, Acceptance
  <2>2. job.state \notin TeardownStates \cup {"unwritten", "queued"}
    BY <1>3 DEF TeardownStates
  <2>3. QED
    BY <1>4, <2>1, <2>2
<1>8. CustodyFits' /\ ArchiveFits'
  <2>1. at' \in CandidatePlaces \ (Ended \cup Acceptance \cup {"create"} \cup (Teardown \ {"pend"}))
    BY <1>6 DEF CandidatePlaces, Ended, Acceptance, Teardown
  <2>2. KeptFits
    BY DEF CandidateInv, KeptFits
  <2>3. QED
    BY <1>1, <1>2, <1>4, <1>6, <1>7, <2>1, <2>2, CustodyRests DEF CandidateInv, initialization
<1>9. SuccessFits'
  <2>1. call'.failure = "none" => candidate.stage.state = "ready" /\ (guarded => candidate.hotel.verified)
    <3>1. Decline => call'.failure # "none"
      BY StepsBreakOff DEF BreaksOff, Broken, CandidateInv, CandidateTyped
    <3>2. QED
      BY <1>1, <3>1
  <2>2. QED
    BY <1>1, <1>6, <2>1 DEF SuccessFits
<1>10. ClusterFits'
  <2>1. at' \notin HotelPlaces \cup {"validate"} \cup StagePlaces \cup First
    BY <1>6 DEF HotelPlaces, StagePlaces, First
  <2>2. QED
    BY <1>1, <1>2, <1>4, <1>6, <2>1, OfficeRests DEF CandidateInv, ClusterFits
<1>11. CandidateTyped'
  BY <1>1, <1>4, <1>6 DEF CandidateInv, CandidateTyped, stageCluster, initialization, CandidatePlaces, Teardown
<1>12. QED
  BY <1>8, <1>9, <1>10, <1>11 DEF CandidateHolds, KeptFits

\* Acceptance, of a new run or one that is resumed, and the record of a contract.
LEMMA AcceptanceHolds ==
  ASSUME CandidateInv, Allocate \/ Accept \/ AcceptResume \/ SaveContract
  PROVE  CandidateHolds
<1>1. PICK job \in Jobs, next \in {"accept", "provision", "adopt", "create"} :
        /\ SaveJob(job, next) \/ (Decline /\ candidate' = candidate /\ recorded' = recorded)
        /\ job.stage = candidate.stage /\ job.hotel = candidate.hotel /\ job.archive = candidate.archive
        /\ job.source = candidate.source /\ job.proof \in {candidate.proof, FALSE}
        /\ at = "allocate" => next = "accept" /\ job = candidate
        /\ at = "accept" => next = "provision" /\ job.state = "accepted" /\ job.contract = candidate.contract
        /\ at = "verify" => next = "adopt" /\ job.state = "accepted" /\ job.contract = candidate.contract
        /\ at = "contract" => next = "create" /\ job.contract = "active" /\ job.state = candidate.state
  <2>1. CASE Allocate
    <3>1. candidate \in Jobs /\ at = "allocate" /\ SaveJob(candidate, "accept")
      BY <2>1 DEF Allocate, CandidateInv, CandidateTyped
    <3>2. QED
      BY <3>1
  <2>2. CASE Accept
    <3> DEFINE w == With("accepted")
    <3>1. at = "accept" /\ SaveJob(w, "provision")
      BY <2>2 DEF Accept
    <3>2. /\ w \in Jobs /\ w.state = "accepted" /\ w.stage = candidate.stage
          /\ w.hotel = candidate.hotel /\ SameCustody(w, candidate)
      BY WithIs DEF JobStates
    <3> HIDE DEF w
    <3>3. QED
      BY <3>1, <3>2 DEF SameCustody
  <2>3. CASE AcceptResume
    <3> DEFINE w == With("accepted")
               job == [w EXCEPT !.proof = FALSE]
    <3>1. at = "verify" /\ (SaveJob(job, "adopt") \/ (Decline /\ candidate' = candidate /\ recorded' = recorded))
      BY <2>3 DEF AcceptResume, Cannot
    <3>2. /\ w \in Jobs /\ w.state = "accepted" /\ w.stage = candidate.stage
          /\ w.hotel = candidate.hotel /\ SameCustody(w, candidate)
      BY WithIs DEF JobStates
    <3> HIDE DEF w
    <3>3. /\ job \in Jobs /\ job.state = w.state /\ job.stage = w.stage /\ job.hotel = w.hotel
          /\ job.archive = w.archive /\ job.source = w.source /\ job.contract = w.contract /\ job.proof = FALSE
      BY <3>2 DEF Jobs
    <3> HIDE DEF job
    <3>4. QED
      BY <3>1, <3>2, <3>3 DEF SameCustody
  <2>4. CASE SaveContract
    <3> DEFINE job == [candidate EXCEPT !.contract = "active"]
    <3>1. at = "contract" /\ SaveJob(job, "create")
      BY <2>4 DEF SaveContract
    <3>2. /\ job \in Jobs /\ job.state = candidate.state /\ job.stage = candidate.stage
          /\ job.hotel = candidate.hotel /\ job.archive = candidate.archive
          /\ job.source = candidate.source /\ job.contract = "active" /\ job.proof = candidate.proof
      BY DEF CandidateInv, CandidateTyped, Jobs, Traces
    <3> HIDE DEF job
    <3>3. QED
      BY <3>1, <3>2
  <2>5. QED
    BY <2>1, <2>2, <2>3, <2>4
<1>2. at \in {"allocate", "accept", "verify", "contract"} /\ UNCHANGED <<guarded, stageCluster, initialization>>
  BY DEF Allocate, Accept, AcceptResume, SaveContract
<1>3. at \notin Ended \cup Teardown \cup HotelPlaces /\ (at = "verify" => AuditPasses \/ Decline)
  <2>1. at \notin Ended \cup Teardown \cup HotelPlaces
    BY <1>2 DEF Ended, Teardown, HotelPlaces
  <2>2. at = "verify" => AuditPasses \/ Decline
    BY <1>2 DEF Allocate, Accept, AcceptResume, SaveContract, Cannot
  <2>3. QED
    BY <2>1, <2>2
<1>4. /\ candidate' \in {candidate, job} /\ candidate' \in Jobs /\ recorded' \in {recorded, candidate'}
      /\ (Proceeds(next) /\ candidate' = job /\ recorded' = job) \/ BreaksOff
  BY <1>1, Saves, StepsBreakOff DEF CandidateInv, CandidateTyped
<1>5. BreaksOff => at' = (IF at = "contract" THEN "pend" ELSE "refused") /\ Broken
  BY <1>2, <1>3, Handlers DEF BreaksOff, Acceptance
<1>6. /\ at' \in {"refused", "pend", next} /\ (at' = "pend" => at = "contract" /\ call'.failure # "none")
      /\ at' = "refused" => at # "contract" /\ Broken
      /\ at' = next => candidate' = job /\ recorded' = job
      /\ call' \in Calls /\ call'.proved = call.proved
  BY <1>4, <1>5 DEF Proceeds, Broken, CandidateInv, CandidateTyped
<1>7. /\ candidate'.stage = candidate.stage /\ candidate'.hotel = candidate.hotel
      /\ candidate'.archive = candidate.archive /\ candidate'.source = candidate.source
  BY <1>1, <1>4
<1>8. /\ ~call.proved /\ ~recorded.proof /\ ~candidate.proof
      /\ candidate.state \notin TeardownStates /\ recorded.state \notin TeardownStates
      /\ CustodyFor(candidate) /\ CustodyFor(recorded)
      /\ at \in {"verify", "contract"} => candidate.state \notin {"unwritten", "queued"}
  BY <1>2, <1>3 DEF CandidateInv, CustodyFits, Ended
<1>9. /\ candidate'.state \notin TeardownStates /\ ~candidate'.proof
      /\ at # "allocate" /\ at' \notin Ended => candidate'.state \notin {"unwritten", "queued"}
  <2>1. job.state \in {candidate.state, "accepted"}
    BY <1>1, <1>2
  <2>2. job.state \notin TeardownStates /\ "accepted" \notin TeardownStates
    BY <1>8, <2>1 DEF TeardownStates
  <2>3. ~candidate'.proof
    BY <1>1, <1>4, <1>8
  <2>4. at = "accept" /\ at' \notin Ended => candidate'.state = "accepted"
    BY <1>1, <1>2, <1>6 DEF Ended
  <2>5. at \in {"verify", "contract"} => candidate'.state \notin {"unwritten", "queued"}
    BY <1>1, <1>4, <1>8
  <2>6. QED
    BY <1>2, <1>4, <1>8, <2>2, <2>3, <2>4, <2>5
<1>10. CustodyFor(candidate')
  <2>1. CASE candidate' = candidate
    BY <1>8, <2>1
  <2>2. CASE candidate' = job
    <3>1. job.source = "none"
      BY <1>1, <1>8 DEF CustodyFor
    <3>2. job.contract = "none" => machines = "none"
      BY <1>1, <1>2, <1>8 DEF CustodyFor
    <3>3. job.contract # "none" => job.state \notin {"unwritten", "queued"}
      BY <1>1, <1>2, <1>8 DEF CustodyFor
    <3>4. job.contract # "cleared"
      BY <1>1, <1>2, <1>8 DEF CustodyFor
    <3>5. QED
      BY <2>2, <3>1, <3>2, <3>3, <3>4 DEF CustodyFor
  <2>3. QED
    BY <1>4, <2>1, <2>2
<1>11. CustodyFits'
  <2>1. CustodyFor(candidate)' /\ CustodyFor(recorded)'
    BY <1>2, <1>4, <1>8, <1>10 DEF CustodyFor, initialization
  <2>2. recorded'.state \notin TeardownStates /\ ~call'.proved /\ ~recorded'.proof
    BY <1>4, <1>6, <1>8, <1>9
  <2>3. at' \notin Ended \cup {"allocate", "accept"} => candidate'.state \notin {"unwritten", "queued"}
    <3>1. at = "allocate" => at' \in {"refused", "accept"}
      BY <1>1, <1>6
    <3>2. QED
      BY <1>9, <3>1 DEF Ended
  <2>4. at' = "create" => candidate'.contract = "active" /\ recorded'.contract = "active"
    BY <1>1, <1>2, <1>6
  <2>5. at' \notin {"late", "returned", "delete", "clear", "absence", "idle"} /\ at' \notin Teardown \ {"pend"}
    BY <1>6 DEF Teardown
  <2>6. candidate'.source = "none" /\ at' # "clear"
    BY <1>6, <1>9, <1>10 DEF CustodyFor
  <2>7. QED
    BY <1>9, <2>1, <2>2, <2>3, <2>4, <2>5, <2>6 DEF CustodyFits
<1>12. ArchiveFits'
  <2>1. /\ recorded.stage # NoStage => candidate.stage # NoStage
        /\ recorded.archive # NoStage => candidate.archive = recorded.archive
    BY <1>3 DEF CandidateInv, ArchiveFits
  <2>2. /\ recorded'.stage # NoStage => candidate'.stage # NoStage
        /\ recorded'.archive # NoStage => candidate'.archive = recorded'.archive
    BY <1>4, <1>7, <2>1
  <2>3. at' # "removeKey"
    BY <1>6
  <2>4. QED
    BY <2>2, <2>3 DEF ArchiveFits
<1>13. SuccessFits'
  <2>1. at' \notin Teardown \ {"pend"} /\ at' \notin {"returned", "failHotel"}
    BY <1>6 DEF Teardown
  <2>2. QED
    BY <1>6, <2>1 DEF SuccessFits
<1>14. ClusterFits'
  <2>1. at' \notin HotelPlaces \cup {"validate", "prepare", "stage"} \cup StagePlaces
    BY <1>6 DEF HotelPlaces, StagePlaces
  <2>2. at' \in First => at \in First
    BY <1>1, <1>2, <1>6 DEF First
  <2>3. QED
    BY <1>2, <1>3, <1>4, <1>7, <2>1, <2>2, OfficeRests DEF CandidateInv, ClusterFits
<1>15. CandidateTyped'
  <2>1. at' \in CandidatePlaces
    BY <1>6 DEF CandidatePlaces, Ended, First, Teardown
  <2>2. recorded' \in Jobs
    BY <1>4 DEF CandidateInv, CandidateTyped
  <2>3. QED
    BY <1>2, <1>4, <1>6, <2>1, <2>2 DEF CandidateInv, CandidateTyped, stageCluster, initialization
<1>16. QED
  BY <1>11, <1>12, <1>13, <1>14, <1>15 DEF CandidateHolds, KeptFits

LEMMA NothingIsIntact == Intact(NoStage) /\ Len(NoStage.receipts) = 0
BY EmptyRecords DEF Intact

\* The machines come to exist.
LEMMA ProvisionHolds ==
  ASSUME CandidateInv, Provision
  PROVE  CandidateHolds
<1>1. /\ at = "create" /\ machines \in {"none", "partial"} /\ machines' \in {"partial", "ready"}
      /\ at' \in {"create", "adopt"} /\ (machines' = "partial" => at' = "create")
      /\ UNCHANGED <<candidate, recorded, call, guarded, stageCluster, files, jobPods, released>>
  BY DEF Provision
<1>2. /\ candidate.stage = NoStage /\ recorded.stage = NoStage
      /\ ~AuditPasses /\ live = EmptyCluster /\ databases = "blank" /\ applying = "none"
  BY <1>1 DEF CandidateInv, PhasesFit, AuditPasses, First
<1>3. at \notin Ended \cup Teardown
  BY <1>1 DEF Ended, Teardown
<1>4. JournalFits' /\ HotelFits'
  <2>1. HotelTold(recorded'.hotel) /\ HotelTold(candidate'.hotel)
    BY <1>1, <1>3 DEF CandidateInv, HotelFits
  <2>2. at' \notin JournalPlaces \cup {"release"}
    BY <1>1 DEF JournalPlaces
  <2>3. QED
    BY <1>1, <2>1, <2>2, JournalRests, HotelRests DEF CandidateInv
<1>5. PhasesFit'
  <2>1. Intact(candidate.stage)' /\ Intact(recorded.stage)'
    BY <1>1, <1>2, EmptyRecords DEF Intact
  <2>2. \A p \in StagePhases : live'[p].whole => live'[p].uid # 0
    BY <1>1 DEF CandidateInv, PhasesFit, stageCluster
  <2>3. at' \notin {"prepare", "validate", "apply", "sendPhase", "reconciled"} \cup StagePlaces \cup HotelPlaces
    BY <1>1 DEF StagePlaces, HotelPlaces
  <2>4. Len(candidate.stage.receipts) <= 6 /\ Len(recorded.stage.receipts) <= 6
    BY DEF CandidateInv, PhasesFit
  <2>5. QED
    BY <1>1, <1>2, <2>1, <2>2, <2>3, <2>4 DEF PhasesFit, EmptyCluster, Nothing, stageCluster
<1>6. DatabasesFit'
  BY <1>1, <1>2 DEF DatabasesFit, PhasePlaces, stageCluster
<1>7. CustodyFits'
  <2>1. /\ candidate.contract = "active" /\ recorded.contract = "active" /\ ~call.proved /\ ~recorded.proof
        /\ ~candidate.proof /\ CustodyFor(candidate) /\ CustodyFor(recorded)
        /\ candidate.state \notin TeardownStates \cup {"unwritten", "queued"} /\ recorded.state \notin TeardownStates
    BY <1>1, <1>3 DEF CandidateInv, CustodyFits, Ended
  <2>2. CustodyFor(candidate)' /\ CustodyFor(recorded)'
    BY <1>1, <2>1 DEF CustodyFor
  <2>3. at' \notin {"late", "returned", "delete", "clear", "absence"} /\ at' \notin Teardown
    BY <1>1 DEF Teardown
  <2>4. QED
    BY <1>1, <2>1, <2>2, <2>3 DEF CustodyFits
<1>8. ArchiveFits' /\ SuccessFits'
  <2>1. at' \notin Ended \cup Teardown \cup {"removeKey", "failHotel", "returned"}
    BY <1>1 DEF Ended, Teardown
  <2>2. QED
    BY <1>1, <1>3, <2>1 DEF CandidateInv, ArchiveFits, SuccessFits
<1>9. CandidateTyped'
  BY <1>1 DEF CandidateInv, CandidateTyped, CandidatePlaces, First, stageCluster
<1>10. QED
  BY <1>4, <1>5, <1>6, <1>7, <1>8, <1>9 DEF CandidateHolds, ClusterFits, KeptFits

\* A process begins with what is on disk.
LEMMA StartsHold ==
  ASSUME CandidateInv, StartResume \/ StartCleanup
  PROVE  CandidateHolds
<1>1. /\ at \in Ended /\ candidate' = recorded /\ UNCHANGED <<recorded, guarded, stageCluster, initialization>>
      /\ recorded.state \notin {"unwritten", "queued"} /\ ~recorded.proof
      /\ \/ at' = "verify" /\ call' = NoCall /\ recorded.state \notin TeardownStates
         \/ at' = "pend" /\ call' = [NoCall EXCEPT !.cleanupOnly = TRUE]
  <2>1. CASE StartResume
    <3>1. recorded.state \notin TeardownStates
      BY <2>1 DEF StartResume
    <3>2. ~recorded.proof
      BY <3>1 DEF CandidateInv, CustodyFits, TeardownStates
    <3>3. QED
      BY <2>1, <3>1, <3>2 DEF StartResume, Ended
  <2>2. CASE StartCleanup
    BY <2>2 DEF StartCleanup, Ended
  <2>3. QED
    BY <2>1, <2>2
<1>2. call' \in Calls /\ call'.proved = FALSE /\ (at' = "pend" => call'.cleanupOnly)
  <2>1. NoCall \in Calls /\ NoCall.proved = FALSE
    BY EmptyRecords
  <2>2. /\ [NoCall EXCEPT !.cleanupOnly = TRUE] \in Calls /\ [NoCall EXCEPT !.cleanupOnly = TRUE].cleanupOnly
        /\ [NoCall EXCEPT !.cleanupOnly = TRUE].proved = FALSE
    BY <2>1 DEF Calls
  <2>3. QED
    BY <1>1, <2>1, <2>2
<1>3. recorded \in Jobs /\ HotelTold(recorded.hotel) /\ CustodyFor(recorded)
  BY DEF CandidateInv, CandidateTyped, HotelFits, CustodyFits
<1>4. at' \notin Ended \cup First \cup StagePlaces \cup HotelPlaces \cup {"validate", "prepare", "failHotel"}
  BY <1>1 DEF Ended, First, StagePlaces, HotelPlaces
<1>5. at' \notin Teardown \ {"pend"}
  BY <1>1 DEF Teardown
<1>6. JournalFits' /\ HotelFits'
  <2>1. at' \notin JournalPlaces \cup {"release"}
    BY <1>1 DEF JournalPlaces
  <2>2. QED
    BY <1>1, <1>3, <2>1, JournalRests, HotelRests DEF CandidateInv, initialization
<1>7. PhasesFit'
  <2>1. Len(candidate'.stage.receipts) <= 6 /\ (machines = "ready" /\ ~meddled => Intact(candidate'.stage))
    BY <1>1 DEF CandidateInv, PhasesFit
  <2>2. at' \notin {"apply", "sendPhase", "reconciled"}
    BY <1>1
  <2>3. QED
    BY <1>1, <1>4, <2>1, <2>2, PhasesRest DEF CandidateInv, stageCluster, initialization
<1>8. DatabasesFit'
  BY <1>1 DEF CandidateInv, DatabasesFit, PhasePlaces, Teardown, stageCluster
<1>9. CustodyFits'
  <2>1. CustodyFor(candidate)' /\ CustodyFor(recorded)'
    BY <1>1, <1>3 DEF CustodyFor, initialization
  <2>2. at' \in Teardown \/ (candidate'.state \notin TeardownStates /\ recorded'.state \notin TeardownStates)
    BY <1>1 DEF Teardown
  <2>3. at' \notin {"create", "late", "returned", "delete", "clear", "absence"}
    BY <1>1
  <2>4. candidate'.source # "none" => recorded'.state \in TeardownStates
    BY <1>1, <1>3 DEF CustodyFor
  <2>5. QED
    BY <1>1, <1>2, <1>5, <2>1, <2>2, <2>3, <2>4 DEF CustodyFits
<1>10. ArchiveFits' /\ SuccessFits'
  <2>1. at' \notin {"removeKey", "failHotel", "returned"} /\ recorded' = candidate'
    BY <1>1
  <2>2. at' \in Teardown => call'.cleanupOnly
    BY <1>2, <1>5
  <2>3. ArchiveFits'
    BY <1>1, <2>1 DEF ArchiveFits, Teardown
  <2>4. QED
    BY <2>1, <2>2, <2>3 DEF SuccessFits
<1>11. CandidateTyped'
  BY <1>1, <1>2, <1>3 DEF CandidateInv, CandidateTyped, CandidatePlaces, Acceptance, Teardown, stageCluster,
     initialization
<1>12. QED
  BY <1>6, <1>7, <1>8, <1>9, <1>10, <1>11 DEF CandidateHolds, ClusterFits, KeptFits

-------------------------------------------------------------------------------
(* What happens around it.                                                 *)

\* An interruption, ...
LEMMA InterruptHolds ==
  ASSUME CandidateInv, Interrupt, UNCHANGED <<stageCluster, initialization>>
  PROVE  CandidateHolds
<1>1. /\ at \notin Ended \cup Teardown \cup (Acceptance \ {"verify"}) \cup {"failHotel"}
      /\ UNCHANGED <<candidate, recorded, guarded>> /\ BreaksOff
  <2>1. BreaksOff
    BY StepsBreakOff DEF Interrupt, CandidateInv, CandidateTyped
  <2>2. CASE at = "verify"
    BY <2>1, <2>2 DEF Interrupt, Ended, Teardown
  <2>3. CASE Working
    BY <2>1, <2>3 DEF Interrupt, Working
  <2>4. QED
    BY <2>2, <2>3 DEF Interrupt
<1>2. /\ at' \in {"refused", "failHotel", "pend"} /\ (at' = "refused" <=> at = "verify")
      /\ call' \in Calls /\ call'.failure # "none" /\ call'.proved = call.proved
  <2>1. at = "verify" => Handler = "refused"
    BY Handlers DEF Acceptance
  <2>2. at # "verify" => Handler \in {"pend", "failHotel"}
    BY <1>1, Handlers
  <2>3. QED
    BY <1>1, <2>1, <2>2 DEF BreaksOff, Broken
<1>3. ClusterFits'
  <2>1. at' \notin HotelPlaces \cup {"validate"} \cup StagePlaces \cup First \cup {"prepare", "stage"}
    BY <1>2 DEF HotelPlaces, StagePlaces, First
  <2>2. QED
    BY <1>1, <2>1, OfficeRests DEF CandidateInv, ClusterFits
<1>4. KeptFits'
  <2>1. CASE at = "verify"
    <3>1. at' = "refused"
      BY <1>2, <2>1
    <3>2. /\ CustodyFor(recorded)' /\ ~call'.proved /\ ~recorded'.proof
      BY <1>1, <1>2, <2>1 DEF CandidateInv, CustodyFits, CustodyFor, Ended, initialization
    <3>3. CustodyFits'
      BY <3>1, <3>2 DEF CustodyFits, Ended, Teardown
    <3>4. ArchiveFits' /\ SuccessFits'
      BY <3>1 DEF ArchiveFits, SuccessFits, Ended, Teardown
    <3>5. QED
      BY <3>3, <3>4 DEF KeptFits
  <2>2. CASE at # "verify"
    <3>1. at \notin Ended \cup Acceptance \cup Teardown \cup {"allocate", "accept"}
      BY <1>1, <2>2 DEF Acceptance
    <3>2. candidate.state \notin TeardownStates \cup {"unwritten", "queued"} /\ candidate \in Jobs
      BY <3>1 DEF CandidateInv, CustodyFits, CandidateTyped
    <3>3. at' \in CandidatePlaces \ (Ended \cup Acceptance \cup {"create"} \cup (Teardown \ {"pend"}))
      BY <1>2, <2>2 DEF CandidatePlaces, Ended, Acceptance, Teardown
    <3>4. QED
      BY <1>1, <1>2, <3>1, <3>2, <3>3, WorkRests DEF CandidateInv, KeptFits, SameCustody, initialization
  <2>3. QED
    BY <2>1, <2>2
<1>5. CandidateTyped'
  BY <1>1, <1>2 DEF CandidateInv, CandidateTyped, CandidatePlaces, Ended, Teardown, stageCluster, initialization
<1>6. QED
  BY <1>3, <1>4, <1>5 DEF CandidateHolds

\* ... and a death, while an apply may go on.
LEMMA DeathHolds ==
  ASSUME CandidateInv, Die, UNCHANGED <<live, databases, meddled, initialization>>,
         applying' = applying \/ (at = "sendPhase" /\ applying' = CurrentPhase)
  PROVE  CandidateHolds
<1>1. /\ at \notin Ended /\ at' = "down" /\ candidate' = Queued /\ call' = NoCall
      /\ UNCHANGED <<recorded, guarded>>
  BY DEF Die
<1>2. at' \in Ended /\ at' \notin Teardown \cup HotelPlaces \cup StagePlaces \cup First \cup {"prepare", "validate"}
  BY <1>1 DEF Ended, Teardown, HotelPlaces, StagePlaces, First
<1>3. JournalFits' /\ HotelFits'
  <2>1. at' \notin JournalPlaces \cup {"release"} /\ HotelTold(recorded'.hotel)
    BY <1>1 DEF JournalPlaces, CandidateInv, HotelFits
  <2>2. QED
    BY <1>2, <2>1, JournalRests, HotelRests DEF CandidateInv, initialization
<1>4. PhasesFit'
  <2>1. candidate'.stage = NoStage
    BY <1>1, EmptyRecords
  <2>2. Intact(candidate.stage)' /\ Len(candidate'.stage.receipts) <= 6
    BY <2>1, EmptyRecords DEF Intact
  <2>3. Intact(recorded.stage) => Intact(recorded.stage)'
    BY <1>1 DEF Intact
  <2>4. ~AuditPasses' => applying' = "none"
    <3>1. at = "sendPhase" => AuditPasses
      BY DEF CandidateInv, PhasesFit, StagePlaces
    <3>2. QED
      BY <3>1 DEF CandidateInv, PhasesFit, AuditPasses, initialization
  <2>5. at' \notin {"apply", "sendPhase", "reconciled"}
    BY <1>1
  <2>6. ~AuditPasses' => live' = EmptyCluster /\ databases' = "blank"
    BY DEF CandidateInv, PhasesFit, AuditPasses, initialization
  <2>7. QED
    BY <1>1, <1>2, <2>2, <2>3, <2>4, <2>5, <2>6 DEF CandidateInv, PhasesFit, EmptyCluster, initialization
<1>5. DatabasesFit'
  BY <1>1, <1>2 DEF CandidateInv, DatabasesFit, PhasePlaces
<1>6. KeptFits'
  <2>1. call'.proved = FALSE /\ candidate'.proof = FALSE /\ CustodyFor(recorded)'
    BY <1>1, EmptyRecords DEF CandidateInv, CustodyFits, CustodyFor, initialization
  <2>2. CustodyFits'
    BY <1>1, <1>2, <2>1 DEF CandidateInv, CustodyFits, initialization
  <2>3. ArchiveFits' /\ SuccessFits'
    BY <1>1, <1>2 DEF ArchiveFits, SuccessFits
  <2>4. QED
    BY <2>2, <2>3 DEF KeptFits
<1>7. CandidateTyped'
  <2>1. applying' \in StagePhases \cup {"none"}
    <3>1. CASE at = "sendPhase" /\ applying' = CurrentPhase
      <4>1. candidate.stage.receipts \in Seq(0..2)
        BY JobsChange DEF CandidateInv, CandidateTyped, StageJournals
      <4>2. Len(candidate.stage.receipts) + 1 \in 1..6
        BY <3>1, <4>1 DEF CandidateInv, PhasesFit
      <4>3. QED
        BY <3>1, <4>2, PhasesAreSix DEF CurrentPhase
    <3>2. QED
      BY <3>1 DEF CandidateInv, CandidateTyped
  <2>2. QED
    BY <1>1, <2>1, EmptyRecords DEF CandidateInv, CandidateTyped, CandidatePlaces, Ended, initialization
<1>8. QED
  BY <1>3, <1>4, <1>5, <1>6, <1>7 DEF CandidateHolds, ClusterFits, KeptFits

\* Whatever becomes of machines that exist.
LEMMA KeptAround ==
  ASSUME KeptFits, UNCHANGED <<at, candidate, recorded, guarded>>,
         call'.proved = call.proved, call'.failure = call.failure, call'.cleanupFailed = call.cleanupFailed,
         call'.cleanupOnly = call.cleanupOnly, call'.exit = call.exit,
         machines' = machines \/ machines # "none"
  PROVE  KeptFits'
<1>1. CASE machines' = machines
  <2>1. CustodyFits'
    BY <1>1 DEF KeptFits, CustodyFits, CustodyFor, Complete
  <2>2. ArchiveFits' /\ SuccessFits'
    BY DEF KeptFits, ArchiveFits, SuccessFits
  <2>3. QED
    BY <2>1, <2>2 DEF KeptFits
<1>2. CASE machines # "none"
  <2>1. /\ ~call.proved /\ ~recorded.proof /\ CustodyFor(recorded)
        /\ at \notin Ended => CustodyFor(candidate)
    BY <1>2 DEF KeptFits, CustodyFits
  <2>2. CustodyFor(recorded)' /\ (at \notin Ended => CustodyFor(candidate)')
    BY <1>2, <2>1 DEF CustodyFor
  <2>3. CustodyFits'
    BY <2>1, <2>2 DEF KeptFits, CustodyFits, Complete
  <2>4. ArchiveFits' /\ SuccessFits'
    BY DEF KeptFits, ArchiveFits, SuccessFits
  <2>5. QED
    BY <2>3, <2>4 DEF KeptFits
<1>3. QED
  BY <1>1, <1>2

LEMMA JournalAround ==
  ASSUME JournalFits, HotelFits, UNCHANGED <<at, candidate, recorded, files, jobPods, released>>
  PROVE  JournalFits' /\ HotelFits'
<1>1. JournalFits'
  BY DEF JournalFits, Completed, Mode
<1>2. HotelFits'
  BY DEF HotelFits, HotelTold, Completed
<1>3. QED
  BY <1>1, <1>2

\* A signal during cleanup, and what becomes of the machines by themselves.
LEMMA MachinesAround ==
  ASSUME CandidateInv, Defer \/ Replace \/ Settle
  PROVE  CandidateHolds
<1>1. /\ UNCHANGED <<at, candidate, recorded, guarded, live, databases, applying, files, jobPods, released>>
      /\ (machines' = machines /\ meddled' = meddled) \/ machines # "none"
      /\ machines = "ready" => meddled' \/ machines' = machines
      /\ machines # "ready" => machines' # "ready"
      /\ AuditPasses' <=> AuditPasses
      /\ machines' \in {"none", "partial", "ready", "replaced", "lingering"} /\ meddled' \in BOOLEAN
      /\ machines' = "ready" => meddled' = meddled
  BY DEF Defer, Replace, Settle, state, stageCluster, initialization, AuditPasses, CandidateInv, CandidateTyped
<1>2. /\ call' \in Calls
      /\ call'.proved = call.proved /\ call'.failure = call.failure /\ call'.cleanupFailed = call.cleanupFailed
      /\ call'.cleanupOnly = call.cleanupOnly /\ call'.exit = call.exit
  <2>1. CASE Defer
    BY <2>1 DEF Defer, CandidateInv, CandidateTyped, Calls
  <2>2. CASE Replace \/ Settle
    BY <2>2 DEF Replace, Settle, state, CandidateInv, CandidateTyped
  <2>3. QED
    BY <2>1, <2>2
<1>3. KeptFits'
  <2>1. machines' = machines \/ machines # "none"
    BY <1>1
  <2>2. QED
    BY <1>1, <1>2, <2>1, KeptAround DEF CandidateInv, KeptFits
<1>4. JournalFits' /\ HotelFits'
  BY <1>1, JournalAround DEF CandidateInv
<1>5. PhasesFit'
  BY <1>1 DEF CandidateInv, PhasesFit, Intact, EmptyCluster
<1>6. DatabasesFit'
  BY <1>1 DEF CandidateInv, DatabasesFit
<1>7. CandidateTyped'
  BY <1>1, <1>2 DEF CandidateInv, CandidateTyped
<1>8. QED
  BY <1>3, <1>4, <1>5, <1>6, <1>7 DEF CandidateHolds, ClusterFits

\* An apply ends by itself.
LEMMA LeftoverHolds ==
  ASSUME CandidateInv, Leftover, UNCHANGED initialization
  PROVE  CandidateHolds
<1>1. /\ applying # "none" /\ applying' = "none" /\ UNCHANGED <<state, meddled>>
      /\ live' \in {live, AfterApply(applying)} /\ databases' \in {databases, "opened"}
  BY DEF Leftover, OpenedBy
<1>2. /\ applying \in StagePhases /\ AuditPasses /\ live \in [StagePhases -> Seen]
      /\ \A p \in StagePhases : live[p].whole => live[p].uid # 0
  BY <1>1 DEF CandidateInv, CandidateTyped, PhasesFit
<1>3. /\ live' \in [StagePhases -> Seen] /\ \A q \in StagePhases : live'[q].whole => live'[q].uid # 0
      /\ \A q \in StagePhases : live[q].whole => live'[q] = live[q]
  BY <1>1, <1>2, Applies
<1>4. UNCHANGED <<at, candidate, recorded, call, guarded>>
  BY <1>1 DEF state
<1>5. candidate.stage \in StageJournals /\ recorded.stage \in StageJournals
      /\ Len(candidate.stage.receipts) <= 6 /\ Len(recorded.stage.receipts) <= 6
  BY JobsChange DEF CandidateInv, CandidateTyped, PhasesFit
<1>6. PhasesFit'
  <2>1. ASSUME Intact(candidate.stage)
        PROVE  Intact(candidate.stage)'
    BY <1>2, <1>3, <1>4, <1>5, <2>1, IntactStays DEF Intact
  <2>2. ASSUME Intact(recorded.stage)
        PROVE  Intact(recorded.stage)'
    BY <1>2, <1>3, <1>4, <1>5, <2>2, IntactStays DEF Intact
  <2>3. AuditPasses' /\ machines' = machines
    BY <1>2 DEF AuditPasses, initialization
  <2>4. QED
    BY <1>1, <1>3, <1>4, <2>1, <2>2, <2>3 DEF CandidateInv, PhasesFit
<1>7. DatabasesFit'
  BY <1>1, <1>4 DEF CandidateInv, DatabasesFit
<1>8. JournalFits' /\ HotelFits' /\ KeptFits'
  BY <1>4, JournalAround, KeptAround DEF CandidateInv, KeptFits, initialization
<1>9. CandidateTyped'
  BY <1>1, <1>3, <1>4 DEF CandidateInv, CandidateTyped, initialization
<1>10. QED
  BY <1>6, <1>7, <1>8, <1>9 DEF CandidateHolds, ClusterFits

\* Somebody takes a phase away, or puts another in its place.
LEMMA MeddleHolds ==
  ASSUME CandidateInv, Meddle, machines = "ready", UNCHANGED initialization
  PROVE  CandidateHolds
<1>1. /\ at \in Ended /\ meddled' = TRUE
      /\ UNCHANGED <<at, candidate, recorded, call, guarded, databases, applying>>
  BY DEF Meddle
<1>2. PICK p \in StagePhases, new \in {Nothing, [uid |-> 2, whole |-> TRUE]} :
        live' = IF p = "namespace" THEN [EmptyCluster EXCEPT ![p] = new] ELSE [live EXCEPT ![p] = new]
  BY DEF Meddle
<1>3. /\ Nothing \in Seen /\ ~Nothing.whole /\ [uid |-> 2, whole |-> TRUE] \in Seen
      /\ [uid |-> 2, whole |-> TRUE].uid # 0
  <2>1. 0 \in 0..2 /\ Nothing.whole = FALSE
    BY DEF Nothing
  <2>2. Nothing \in Seen
    BY <2>1, Zenon DEF Nothing, Seen
  <2>3. QED
    BY <2>1, <2>2 DEF Seen
<1>4. new \in Seen /\ (new.whole => new.uid # 0)
  BY <1>3
<1>5. live' \in [StagePhases -> Seen] /\ \A q \in StagePhases : live'[q].whole => live'[q].uid # 0
  BY <1>2, <1>3, <1>4 DEF EmptyCluster, CandidateInv, CandidateTyped, PhasesFit
<1>6. PhasesFit'
  <2>1. at \notin HotelPlaces \cup {"validate"} /\ AuditPasses'
    BY <1>1 DEF Ended, HotelPlaces, AuditPasses, initialization
  <2>2. QED
    BY <1>1, <1>5, <2>1 DEF CandidateInv, PhasesFit
<1>7. DatabasesFit'
  BY <1>1 DEF CandidateInv, DatabasesFit
<1>8. JournalFits' /\ HotelFits' /\ KeptFits'
  BY <1>1, JournalAround, KeptAround DEF CandidateInv, KeptFits, initialization
<1>9. CandidateTyped'
  BY <1>1, <1>5 DEF CandidateInv, CandidateTyped, initialization
<1>10. QED
  BY <1>6, <1>7, <1>8, <1>9 DEF CandidateHolds, ClusterFits

-------------------------------------------------------------------------------
(* Cleanup.                                                                *)

\* The cluster, as long as nothing is deleted.
LEMMA TeardownRests ==
  ASSUME ClusterFits, at \in Teardown, UNCHANGED <<stageCluster, initialization>>,
         candidate'.hotel = candidate.hotel, candidate'.stage \in {candidate.stage, NoStage},
         recorded' = recorded \/ (recorded' = candidate' /\ candidate'.state \in TeardownStates),
         at' \in Teardown \cup {"returned"}
  PROVE  ClusterFits'
<1>1. /\ at \notin Ended \cup PhasePlaces
      /\ at' \notin First \cup StagePlaces \cup HotelPlaces \cup {"prepare", "validate", "release"}
      /\ at' \notin JournalPlaces \cup PhasePlaces \cup {"prepareStorage", "storagePrepared"}
      /\ at' \in Ended \cup Teardown
  BY DEF Ended, Teardown, First, StagePlaces, HotelPlaces, JournalPlaces, PhasePlaces
<1>2. JournalFits' /\ HotelFits'
  <2>1. HotelTold(recorded'.hotel) /\ HotelTold(candidate'.hotel)
    BY <1>1 DEF ClusterFits, HotelFits
  <2>2. at' # "release"
    BY <1>1
  <2>3. QED
    BY <1>1, <2>1, <2>2, JournalRests, HotelRests DEF ClusterFits, initialization
<1>3. PhasesFit'
  <2>1. Len(candidate'.stage.receipts) <= 6 /\ (machines = "ready" /\ ~meddled => Intact(candidate'.stage))
    BY NothingIsIntact DEF ClusterFits, PhasesFit
  <2>2. at' \notin {"apply", "sendPhase", "reconciled"}
    BY <1>1 DEF PhasePlaces
  <2>3. recorded'.stage \in {recorded.stage, candidate'.stage}
    OBVIOUS
  <2>4. PhasesFit /\ UNCHANGED <<live, databases, applying, meddled, machines>>
    BY DEF ClusterFits, stageCluster, initialization
  <2>5. QED
    BY <1>1, <2>1, <2>2, <2>3, <2>4, PhasesRest
<1>4. DatabasesFit'
  BY <1>1 DEF ClusterFits, DatabasesFit, stageCluster
<1>5. QED
  BY <1>2, <1>3, <1>4 DEF ClusterFits

\* A part of cleanup saves, and goes on; a failure is kept.
Cleaned(job, next, otherwise) ==
  /\ candidate' = job
  /\ \/ recorded' = job /\ at' = next /\ call' = call
     \/ /\ recorded' \in {recorded, job} /\ at' = otherwise /\ call' \in Calls /\ call'.cleanupFailed
        /\ call'.failure = call.failure /\ call'.cleanupOnly = call.cleanupOnly
        /\ call'.proved = call.proved /\ call'.exit = call.exit

LEMMA CleansOff ==
  ASSUME call \in Calls, NEW job, NEW next, NEW otherwise, SaveOr(job, next, otherwise)
  PROVE  Cleaned(job, next, otherwise)
BY DEF SaveOr, CleanupFails, Cleaned, Calls

LEMMA FailsOff ==
  ASSUME call \in Calls, NEW otherwise, CleanupFails(otherwise), candidate' = candidate, recorded' = recorded
  PROVE  Cleaned(candidate, otherwise, otherwise)
BY DEF CleanupFails, Cleaned, Calls

\* What of a job the parts of cleanup change.
Parts(job) ==
  /\ job \in Jobs /\ job.hotel = candidate.hotel /\ job.stage \in {candidate.stage, NoStage}
  /\ job.state \in TeardownStates

\* What every part of cleanup leaves.
LEMMA CleanedHolds ==
  ASSUME CandidateInv, at \in Teardown, UNCHANGED <<guarded, stageCluster, initialization>>,
         NEW job, Parts(job) \/ job = candidate,
         NEW next \in Teardown \cup {"returned"}, NEW otherwise \in Teardown,
         Cleaned(job, next, otherwise), recorded' = recorded \/ Parts(job), KeptFits'
  PROVE  CandidateHolds
<1>1. at' \in Teardown \cup {"returned"} /\ call' \in Calls
  BY DEF Cleaned, CandidateInv, CandidateTyped
<1>2. /\ candidate' = job /\ candidate' \in Jobs
      /\ candidate'.hotel = candidate.hotel /\ candidate'.stage \in {candidate.stage, NoStage}
      /\ recorded' = recorded \/ (recorded' = candidate' /\ candidate'.state \in TeardownStates)
  BY DEF Cleaned, Parts, CandidateInv, CandidateTyped
<1>3. ClusterFits'
  BY <1>1, <1>2, TeardownRests DEF CandidateInv, ClusterFits
<1>4. CandidateTyped'
  BY <1>1, <1>2 DEF CandidateInv, CandidateTyped, CandidatePlaces, Ended, stageCluster, initialization
<1>5. QED
  BY <1>3, <1>4 DEF CandidateHolds

\* Up to the first deletion custody stays as it is.
LEMMA CustodyCleans ==
  ASSUME CandidateTyped, CustodyFits, UNCHANGED machines,
         at \in {"pend", "archive", "removeKey", "clean"},
         NEW job \in Jobs, job.contract = candidate.contract, job.source = candidate.source,
         job.state \in TeardownStates, ~job.proof,
         NEW next \in {"archive", "removeKey", "clean", "source"},
         NEW otherwise \in {"archive", "removeKey", "clean", "source"}, Cleaned(job, next, otherwise)
  PROVE  CustodyFits'
<1>1. /\ candidate' = job /\ recorded' \in {recorded, job} /\ call'.proved = call.proved
      /\ at' \in {"archive", "removeKey", "clean", "source"}
  BY DEF Cleaned
<1>2. /\ ~call.proved /\ ~recorded.proof /\ CustodyFor(candidate) /\ CustodyFor(recorded)
      /\ candidate.source # "none" => recorded.state \in TeardownStates
  BY DEF CustodyFits, Ended
<1>3. CustodyFor(candidate)' /\ CustodyFor(recorded)'
  BY <1>1, <1>2 DEF CustodyFor, TeardownStates
<1>4. ~call'.proved /\ ~recorded'.proof /\ ~candidate'.proof
  BY <1>1, <1>2
<1>5. candidate'.source # "none" => recorded'.state \in TeardownStates
  BY <1>1, <1>2
<1>6. candidate'.state \in TeardownStates /\ {"unwritten", "queued"} \cap TeardownStates = {}
  BY <1>1 DEF TeardownStates
<1>7. at' \notin {"create", "late", "returned", "delete", "clear", "absence"} /\ at' \in Teardown
  BY <1>1 DEF Teardown
<1>8. QED
  BY <1>3, <1>4, <1>5, <1>6, <1>7 DEF CustodyFits

\* A part that only changes the state.
LEMMA StatePartHolds ==
  ASSUME CandidateInv, UNCHANGED <<guarded, stageCluster, initialization>>,
         NEW job \in Jobs, NEW next \in {"archive", "source"}, NEW otherwise \in {"clean", "source"},
         Cleaned(job, next, otherwise), job.state \in TeardownStates, ~job.proof,
         job.stage = candidate.stage, job.hotel = candidate.hotel, job.archive = candidate.archive,
         job.source = candidate.source, job.contract = candidate.contract,
         \/ at = "pend" /\ next = "archive" /\ otherwise = "clean"
         \/ at = "clean" /\ next = "source" /\ otherwise = "source"
  PROVE  CandidateHolds
<1>1. /\ Cleaned(job, next, otherwise) /\ job \in Jobs /\ job.state \in TeardownStates /\ ~job.proof
      /\ job.stage = candidate.stage /\ job.hotel = candidate.hotel /\ job.archive = candidate.archive
      /\ job.source = candidate.source /\ job.contract = candidate.contract
      /\ \/ at = "pend" /\ next = "archive" /\ otherwise = "clean"
         \/ at = "clean" /\ next = "source" /\ otherwise = "source"
  OBVIOUS
<1>2. UNCHANGED <<guarded, stageCluster, initialization>>
  OBVIOUS
<1>3. /\ candidate' = job /\ recorded' \in {recorded, job} /\ at' \in {"archive", "clean", "source"}
      /\ (at' = "archive" => at = "pend") /\ (at' = "clean" => call'.cleanupFailed)
      /\ call'.failure = call.failure /\ call'.cleanupOnly = call.cleanupOnly
      /\ ~call'.cleanupFailed => ~call.cleanupFailed
  BY DEF Cleaned
<1>4. at \in Teardown /\ at \notin Ended /\ at' \in Teardown
  BY <1>1, <1>3 DEF Teardown, Ended
<1>5. CustodyFits'
  BY <1>1, <1>2, CustodyCleans DEF CandidateInv, initialization
<1>6. ArchiveFits'
  <2>1. /\ candidate.stage = NoStage /\ recorded.stage # NoStage => candidate.archive = recorded.stage
        /\ recorded.archive # NoStage => candidate.archive = recorded.archive
    BY <1>4 DEF CandidateInv, ArchiveFits
  <2>2. /\ candidate'.stage = NoStage /\ recorded'.stage # NoStage => candidate'.archive = recorded'.stage
        /\ recorded'.archive # NoStage => candidate'.archive = recorded'.archive
    BY <1>1, <1>3, <2>1
  <2>3. at' # "removeKey"
    BY <1>3
  <2>4. QED
    BY <1>4, <2>2, <2>3 DEF ArchiveFits
<1>7. SuccessFits'
  <2>1. ASSUME call'.failure = "none", ~call'.cleanupOnly, ~call'.cleanupFailed
        PROVE  /\ guarded => candidate'.hotel.verified
               /\ at' \in {"pend", "archive"} => candidate'.stage.state = "ready"
               /\ at' \notin {"pend", "archive"} => candidate'.archive.state = "ready"
    <3>1. /\ guarded => candidate.hotel.verified
          /\ at \in {"pend", "archive"} => candidate.stage.state = "ready"
          /\ at \notin {"pend", "archive"} => candidate.archive.state = "ready"
      BY <1>3, <1>4, <2>1 DEF CandidateInv, SuccessFits
    <3>2. candidate'.hotel = candidate.hotel /\ candidate'.stage = candidate.stage
          /\ candidate'.archive = candidate.archive
      BY <1>1, <1>3
    <3>3. (at = "pend" /\ at' = "archive") \/ (at = "clean" /\ at' = "source")
      BY <1>1, <1>3, <2>1 DEF Cleaned
    <3>4. QED
      BY <3>1, <3>2, <3>3
  <2>2. at' # "failHotel" /\ at' # "returned" /\ guarded' = guarded
    BY <1>2, <1>3
  <2>3. QED
    BY <2>1, <2>2 DEF SuccessFits
<1>8. KeptFits' /\ Parts(job)
  BY <1>1, <1>5, <1>6, <1>7 DEF KeptFits, Parts
<1>9. next \in Teardown \cup {"returned"} /\ otherwise \in Teardown
  BY DEF Teardown
<1>10. QED
  BY <1>1, <1>2, <1>4, <1>8, <1>9, CleanedHolds

\* The parts that only change the state.
LEMMA StatePartsHold ==
  ASSUME CandidateInv, BeginTeardown \/ BeginCleaning
  PROVE  CandidateHolds
<1>1. {"cleanup_pending", "cleaning"} \subseteq TeardownStates /\ TeardownStates \subseteq JobStates
  BY DEF TeardownStates, JobStates
<1>2. call \in Calls
  BY DEF CandidateInv, CandidateTyped
<1>3. UNCHANGED <<guarded, stageCluster, initialization>>
  BY DEF BeginTeardown, BeginCleaning
<1>4. CASE BeginTeardown
  <2> DEFINE w == With("cleanup_pending")
               job == [w EXCEPT !.proof = FALSE]
  <2>1. at = "pend" /\ SaveOr(job, "archive", "clean")
    BY <1>4 DEF BeginTeardown
  <2>2. /\ w \in Jobs /\ w.state = "cleanup_pending" /\ w.stage = candidate.stage
          /\ w.hotel = candidate.hotel /\ SameCustody(w, candidate)
    BY <1>1, WithIs
  <2> HIDE DEF w
  <2>3. /\ job \in Jobs /\ job.state = w.state /\ job.stage = w.stage /\ job.hotel = w.hotel
          /\ job.archive = w.archive /\ job.source = w.source /\ job.contract = w.contract /\ job.proof = FALSE
    BY <2>2 DEF Jobs
  <2> HIDE DEF job
  <2>4. Cleaned(job, "archive", "clean")
    BY <1>2, <2>1, CleansOff
  <2>5. QED
    BY <1>1, <1>3, <2>1, <2>2, <2>3, <2>4, StatePartHolds DEF SameCustody
<1>5. CASE BeginCleaning
  <2> DEFINE w == With("cleaning")
  <2>1. at = "clean" /\ SaveOr(w, "source", "source")
    BY <1>5 DEF BeginCleaning
  <2>2. /\ w \in Jobs /\ w.state = "cleaning" /\ w.stage = candidate.stage
          /\ w.hotel = candidate.hotel /\ SameCustody(w, candidate)
    BY <1>1, WithIs
  <2> HIDE DEF w
  <2>3. Cleaned(w, "source", "source") /\ ~candidate.proof
    BY <1>2, <2>1, CleansOff DEF CandidateInv, CustodyFits, Ended
  <2>4. QED
    BY <1>1, <1>3, <2>1, <2>2, <2>3, StatePartHolds DEF SameCustody
<1>6. QED
  BY <1>4, <1>5

\* A step of cleanup that saves nothing goes on, or keeps a failure.
Skips(next) ==
  /\ at' = next /\ candidate' = candidate /\ recorded' = recorded
  /\ \/ call' = call
     \/ /\ call' \in Calls /\ call'.cleanupFailed /\ call'.failure = call.failure
        /\ call'.cleanupOnly = call.cleanupOnly /\ call'.proved = call.proved /\ call'.exit = call.exit

LEMMA FailureSkips ==
  ASSUME call \in Calls, NEW next, CleanupFails(next), UNCHANGED <<candidate, recorded>>
  PROVE  Skips(next) /\ call'.cleanupFailed
BY DEF CleanupFails, Skips, Calls

LEMMA SkipHolds ==
  ASSUME CandidateInv, at \in Teardown, UNCHANGED <<candidate, recorded, guarded, stageCluster, initialization>>,
         at' \in Teardown \cup {"returned"}, call' \in Calls, KeptFits'
  PROVE  CandidateHolds
<1>1. ClusterFits'
  BY TeardownRests DEF CandidateInv, ClusterFits
<1>2. CandidateTyped'
  BY DEF CandidateInv, CandidateTyped, CandidatePlaces, Ended, stageCluster, initialization
<1>3. QED
  BY <1>1, <1>2 DEF CandidateHolds

\* The journal that is archived, ...
LEMMA ArchivalHolds ==
  ASSUME CandidateInv, at = "archive", UNCHANGED <<guarded, stageCluster, initialization>>,
         candidate.stage # NoStage, candidate.archive \in {NoStage, candidate.stage},
         SaveOr([candidate EXCEPT !.archive = candidate.stage], "removeKey", "clean")
  PROVE  CandidateHolds
<1> DEFINE job == [candidate EXCEPT !.archive = candidate.stage]
<1>1. /\ job \in Jobs /\ job.archive = candidate.stage /\ job.state = candidate.state
      /\ job.stage = candidate.stage /\ job.hotel = candidate.hotel /\ job.source = candidate.source
      /\ job.contract = candidate.contract /\ job.proof = candidate.proof
  <2>1. candidate \in Jobs
    BY DEF CandidateInv, CandidateTyped
  <2>2. candidate.stage \in StageJournals
    BY <2>1, JobsChange
  <2>3. QED
    BY <2>1, <2>2 DEF Jobs
<1>2. call \in Calls /\ at \in Teardown /\ at \notin Ended
  BY DEF CandidateInv, CandidateTyped, Teardown, Ended
<1>3. job.state \in TeardownStates /\ ~job.proof
  BY <1>1, <1>2 DEF CandidateInv, CustodyFits, Ended
<1> HIDE DEF job
<1>4. Cleaned(job, "removeKey", "clean")
  BY <1>2, CleansOff DEF job
<1>5. CustodyFits'
  BY <1>1, <1>3, <1>4, CustodyCleans DEF CandidateInv, initialization
<1>6. ArchiveFits'
  <2>1. recorded.archive # NoStage => candidate.archive = recorded.archive
    BY <1>2 DEF CandidateInv, ArchiveFits
  <2>2. candidate' = job /\ recorded' \in {recorded, job} /\ at' \in {"removeKey", "clean"}
    BY <1>4 DEF Cleaned
  <2>3. at' = "removeKey" => recorded' = job
    BY <1>4 DEF Cleaned
  <2>4. recorded'.archive # NoStage => candidate'.archive = recorded'.archive
    BY <1>1, <2>1, <2>2
  <2>5. at' \in Teardown /\ candidate'.stage # NoStage
    BY <1>1, <2>2 DEF Teardown
  <2>6. at' = "removeKey" => recorded' = candidate' /\ candidate'.archive = candidate'.stage
    BY <1>1, <2>2, <2>3
  <2>7. QED
    BY <2>4, <2>5, <2>6 DEF ArchiveFits
<1>7. SuccessFits'
  <2>1. ASSUME call'.failure = "none", ~call'.cleanupOnly, ~call'.cleanupFailed
        PROVE  at' = "removeKey" /\ candidate'.archive.state = "ready" /\ (guarded => candidate'.hotel.verified)
    <3>1. candidate' = job /\ at' = "removeKey" /\ call' = call
      BY <1>4, <2>1 DEF Cleaned
    <3>2. candidate.stage.state = "ready" /\ (guarded => candidate.hotel.verified)
      BY <1>2, <2>1, <3>1 DEF CandidateInv, SuccessFits
    <3>3. QED
      BY <1>1, <3>1, <3>2
  <2>2. at' \in {"removeKey", "clean"} /\ guarded' = guarded
    BY <1>4 DEF Cleaned
  <2>3. QED
    BY <2>1, <2>2 DEF SuccessFits
<1>8. Parts(job) /\ KeptFits'
  BY <1>1, <1>3, <1>5, <1>6, <1>7 DEF Parts, KeptFits
<1>9. "removeKey" \in Teardown \cup {"returned"} /\ "clean" \in Teardown
  BY DEF Teardown
<1>10. recorded' = recorded \/ Parts(job)
  BY <1>8
<1>11. QED
  BY <1>2, <1>4, <1>8, <1>9, <1>10, CleanedHolds

\* ... the one there is not, or that may not be overwritten, ...
LEMMA ArchiveStageHolds ==
  ASSUME CandidateInv, ArchiveStage
  PROVE  CandidateHolds
<1>1. at = "archive" /\ UNCHANGED <<guarded, stageCluster, initialization>>
  BY DEF ArchiveStage
<1>2. call \in Calls /\ at \in Teardown /\ at \notin Ended
  BY <1>1 DEF CandidateInv, CandidateTyped, Teardown, Ended
<1>3. CASE candidate.stage # NoStage /\ candidate.archive \in {NoStage, candidate.stage}
  BY <1>1, <1>3, ArchivalHolds DEF ArchiveStage
<1>4. CASE ~(candidate.stage # NoStage /\ candidate.archive \in {NoStage, candidate.stage})
  <2>1. Skips("clean") /\ (candidate.stage = NoStage \/ call'.cleanupFailed)
    <3>1. CASE candidate.stage = NoStage
      BY <3>1 DEF ArchiveStage, Skips
    <3>2. CASE candidate.stage # NoStage
      <4>1. CleanupFails("clean") /\ UNCHANGED <<candidate, recorded>>
        BY <1>4, <3>2 DEF ArchiveStage
      <4>2. QED
        BY <1>2, <4>1, FailureSkips
    <3>3. QED
      BY <3>1, <3>2
  <2>2. at' = "clean" /\ UNCHANGED <<candidate, recorded, guarded, machines>> /\ call'.proved = call.proved
    BY <1>1, <2>1 DEF Skips, initialization
  <2>3. at' \in Teardown /\ at' \notin Ended
    BY <2>2 DEF Teardown, Ended
  <2>4. CustodyFits'
    <3>1. candidate.state \in TeardownStates /\ {"unwritten", "queued"} \cap TeardownStates = {}
      BY <1>1, <1>2 DEF CandidateInv, CustodyFits, TeardownStates
    <3>2. ~call.proved /\ ~recorded.proof /\ ~candidate.proof
      BY <1>1, <1>2 DEF CandidateInv, CustodyFits
    <3>3. CustodyFor(candidate) /\ CustodyFor(recorded) /\ (candidate.source # "none" => recorded.state \in TeardownStates)
      BY <1>1, <1>2 DEF CandidateInv, CustodyFits
    <3>4. CustodyFor(candidate)' /\ CustodyFor(recorded)'
      BY <2>2, <3>3 DEF CustodyFor
    <3>5. QED
      BY <2>2, <2>3, <3>1, <3>2, <3>3, <3>4 DEF CustodyFits
  <2>5. ArchiveFits'
    BY <1>2, <2>2, <2>3 DEF CandidateInv, ArchiveFits
  <2>6. SuccessFits'
    <3>1. candidate.stage = NoStage => candidate.stage.state # "ready"
      BY EmptyRecords
    <3>2. call'.failure = "none" /\ ~call'.cleanupOnly /\ ~call'.cleanupFailed => FALSE
      BY <1>1, <1>2, <2>1, <3>1 DEF CandidateInv, SuccessFits, Skips
    <3>3. QED
      BY <2>2, <3>2 DEF SuccessFits
  <2>7. KeptFits' /\ call' \in Calls
    BY <1>2, <2>1, <2>4, <2>5, <2>6 DEF KeptFits, Skips
  <2>8. QED
    BY <1>1, <1>2, <2>2, <2>3, <2>7, SkipHolds
<1>5. QED
  BY <1>3, <1>4

\* ... and the one that leaves state.json.
LEMMA RemoveStageHolds ==
  ASSUME CandidateInv, RemoveStage
  PROVE  CandidateHolds
<1> DEFINE job == [candidate EXCEPT !.stage = NoStage]
<1>1. at = "removeKey" /\ UNCHANGED <<guarded, stageCluster, initialization>> /\ SaveOr(job, "clean", "clean")
  BY DEF RemoveStage
<1>2. call \in Calls /\ at \in Teardown /\ at \notin Ended
  BY <1>1 DEF CandidateInv, CandidateTyped, Teardown, Ended
<1>3. job \in Jobs /\ job.stage = NoStage /\ job.state = candidate.state /\ job.hotel = candidate.hotel
  BY EmptyRecords, JobsChange DEF CandidateInv, CandidateTyped
<1>4. /\ job.archive = candidate.archive /\ job.source = candidate.source
      /\ job.contract = candidate.contract /\ job.proof = candidate.proof
  BY EmptyRecords, JobsChange DEF CandidateInv, CandidateTyped, SameCustody
<1>5. job.state \in TeardownStates /\ ~job.proof
  BY <1>1, <1>2, <1>3, <1>4 DEF CandidateInv, CustodyFits
<1> HIDE DEF job
<1>6. Cleaned(job, "clean", "clean")
  BY <1>1, <1>2, CleansOff
<1>7. CustodyFits'
  BY <1>1, <1>3, <1>4, <1>5, <1>6, CustodyCleans DEF CandidateInv, initialization
<1>8. candidate' = job /\ recorded' \in {recorded, job} /\ at' = "clean"
  BY <1>6 DEF Cleaned
<1>9. recorded = candidate /\ candidate.archive = candidate.stage
  BY <1>1 DEF CandidateInv, ArchiveFits
<1>10. ArchiveFits'
  <2>1. recorded'.stage # NoStage => candidate'.archive = recorded'.stage
    BY <1>3, <1>4, <1>8, <1>9
  <2>2. recorded'.archive # NoStage => candidate'.archive = recorded'.archive
    BY <1>3, <1>4, <1>8, <1>9
  <2>3. at' \in Teardown
    BY <1>8 DEF Teardown
  <2>4. QED
    BY <1>8, <2>1, <2>2, <2>3 DEF ArchiveFits
<1>11. SuccessFits'
  <2>1. ASSUME call'.failure = "none", ~call'.cleanupOnly, ~call'.cleanupFailed
        PROVE  candidate'.archive.state = "ready" /\ (guarded => candidate'.hotel.verified)
    <3>1. call' = call
      BY <1>6, <2>1 DEF Cleaned
    <3>2. candidate.archive.state = "ready" /\ (guarded => candidate.hotel.verified)
      BY <1>1, <1>2, <2>1, <3>1 DEF CandidateInv, SuccessFits
    <3>3. QED
      BY <1>3, <1>4, <1>8, <3>2
  <2>2. QED
    BY <1>1, <1>8, <2>1 DEF SuccessFits
<1>12. Parts(job) /\ KeptFits'
  BY <1>3, <1>5, <1>7, <1>10, <1>11 DEF Parts, KeptFits
<1>13. "clean" \in Teardown
  BY DEF Teardown
<1>14. recorded' = recorded \/ Parts(job)
  BY <1>12
<1>15. QED
  BY <1>1, <1>2, <1>6, <1>12, <1>13, <1>14, CleanedHolds

-------------------------------------------------------------------------------
(* Deletion and proof.                                                     *)

LatePlaces == {"source", "delete", "clear", "absence", "finish", "late"}

\* What is archived and what was observed stay as they are.
LEMMA ArchiveIsKept ==
  ASSUME ArchiveFits, SuccessFits, at \in LatePlaces, at' \in LatePlaces, UNCHANGED guarded,
         candidate'.stage = candidate.stage, candidate'.archive = candidate.archive,
         candidate'.hotel = candidate.hotel, recorded' \in {recorded, candidate'},
         call'.failure = call.failure, call'.cleanupOnly = call.cleanupOnly,
         call'.cleanupFailed \/ call'.cleanupFailed = call.cleanupFailed
  PROVE  ArchiveFits' /\ SuccessFits'
<1>1. /\ at \in Teardown /\ at \notin Ended \cup {"pend", "archive"}
      /\ at' \in Teardown /\ at' \notin Ended \cup {"pend", "archive", "removeKey", "failHotel", "returned"}
  BY DEF LatePlaces, Teardown, Ended
<1>2. ArchiveFits'
  <2>1. /\ candidate.stage = NoStage /\ recorded.stage # NoStage => candidate.archive = recorded.stage
        /\ recorded.archive # NoStage => candidate.archive = recorded.archive
    BY <1>1 DEF ArchiveFits
  <2>2. CASE recorded' = recorded
    BY <1>1, <2>1, <2>2 DEF ArchiveFits
  <2>3. CASE recorded' = candidate'
    BY <1>1, <2>1, <2>3 DEF ArchiveFits
  <2>4. QED
    BY <2>2, <2>3
<1>3. SuccessFits'
  BY <1>1 DEF SuccessFits
<1>4. QED
  BY <1>2, <1>3

\* Where nothing is proved yet.
LEMMA CustodyLate ==
  ASSUME at' \in {"delete", "clear", "absence", "finish"}, candidate'.state \in TeardownStates,
         CustodyFor(candidate)', CustodyFor(recorded)', ~candidate'.proof, ~recorded'.proof, ~call'.proved,
         at' # "finish" => /\ recorded'.state \in TeardownStates
                           /\ candidate'.source = (IF candidate'.contract = "none" THEN "none" ELSE "active"),
         at' = "clear" => candidate'.contract = "active"
  PROVE  CustodyFits'
<1>1. /\ at' \in Teardown /\ at' \notin Ended
      /\ at' \notin {"create", "late", "returned", "pend", "archive", "removeKey", "clean", "source"}
  BY DEF Teardown, Ended
<1>2. {"unwritten", "queued"} \cap TeardownStates = {}
  BY DEF TeardownStates
<1>3. QED
  BY <1>1, <1>2 DEF CustodyFits

LEMMA LateIs ==
  ASSUME CandidateInv, at \in LatePlaces
  PROVE  /\ at \in Teardown /\ at \notin Ended /\ call \in Calls
         /\ candidate \in Jobs /\ recorded \in Jobs
         /\ candidate.state \in TeardownStates /\ CustodyFor(candidate) /\ CustodyFor(recorded)
         /\ at # "late" => ~candidate.proof /\ ~recorded.proof
         /\ at \notin {"finish", "late"} => ~call.proved
<1>1. at \in Teardown \ {"pend"} /\ at \notin Ended
  BY DEF LatePlaces, Teardown, Ended
<1>2. CustodyFor(candidate) /\ CustodyFor(recorded) /\ candidate.state \in TeardownStates
  BY <1>1 DEF CandidateInv, CustodyFits
<1>3. (at # "late" => ~candidate.proof /\ ~recorded.proof) /\ (at \notin {"finish", "late"} => ~call.proved)
  BY <1>1, Zenon DEF CandidateInv, CustodyFits, Ended, LatePlaces
<1>4. call \in Calls /\ candidate \in Jobs /\ recorded \in Jobs
  BY DEF CandidateInv, CandidateTyped
<1>5. QED
  BY <1>1, <1>2, <1>3, <1>4

\* What is saved once before the first deletion.
LEMMA SourceIsSaved ==
  ASSUME CandidateInv, at = "source", candidate.source = "none", UNCHANGED <<guarded, stageCluster, initialization>>,
         SaveOr([candidate EXCEPT !.source = candidate.contract], "delete", "finish")
  PROVE  CandidateHolds
<1> DEFINE job == [candidate EXCEPT !.source = candidate.contract]
<1>1. at \in LatePlaces
  BY DEF LatePlaces
<1>2. /\ at \in Teardown /\ call \in Calls /\ candidate \in Jobs /\ candidate.state \in TeardownStates
      /\ CustodyFor(candidate) /\ CustodyFor(recorded) /\ ~candidate.proof /\ ~recorded.proof /\ ~call.proved
  BY <1>1, LateIs
<1>3. candidate.contract \in {"none", "active"}
  BY <1>2 DEF CustodyFor, Jobs, Traces
<1>4. /\ job \in Jobs /\ job.source = candidate.contract /\ job.state = candidate.state
      /\ job.stage = candidate.stage /\ job.hotel = candidate.hotel /\ job.archive = candidate.archive
      /\ job.contract = candidate.contract /\ job.proof = candidate.proof
  BY <1>2, <1>3 DEF Jobs, Traces
<1> HIDE DEF job
<1>5. Cleaned(job, "delete", "finish")
  BY <1>2, CleansOff DEF job
<1>6. /\ candidate' = job /\ recorded' \in {recorded, job} /\ at' \in {"delete", "finish"}
      /\ at' = "delete" => recorded' = job
      /\ call'.proved = call.proved /\ call'.failure = call.failure /\ call'.cleanupOnly = call.cleanupOnly
      /\ call'.cleanupFailed \/ call'.cleanupFailed = call.cleanupFailed
  BY <1>5 DEF Cleaned
<1>7. CustodyFits'
  <2>1. CustodyFor(candidate)' /\ CustodyFor(recorded)'
    <3>1. machines' = machines /\ {"unwritten", "queued"} \cap TeardownStates = {}
      BY DEF initialization, TeardownStates
    <3>2. CustodyFor(candidate)'
      BY <1>2, <1>3, <1>4, <1>6, <3>1 DEF CustodyFor
    <3>3. QED
      BY <1>2, <1>6, <3>1, <3>2 DEF CustodyFor
  <2>2. ~candidate'.proof /\ ~recorded'.proof /\ ~call'.proved
    BY <1>2, <1>4, <1>6
  <2>3. candidate'.source = (IF candidate'.contract = "none" THEN "none" ELSE "active")
    BY <1>3, <1>4, <1>6
  <2>4. candidate'.state \in TeardownStates /\ (at' # "finish" => recorded'.state \in TeardownStates)
    BY <1>2, <1>4, <1>6
  <2>5. QED
    BY <1>6, <2>1, <2>2, <2>3, <2>4, CustodyLate
<1>8. ArchiveFits' /\ SuccessFits'
  <2>1. at' \in LatePlaces /\ recorded' \in {recorded, candidate'}
    BY <1>6 DEF LatePlaces
  <2>2. QED
    BY <1>1, <1>4, <1>6, <2>1, ArchiveIsKept DEF CandidateInv
<1>9. Parts(job) /\ KeptFits'
  BY <1>2, <1>4, <1>7, <1>8 DEF Parts, KeptFits
<1>10. "delete" \in Teardown \cup {"returned"} /\ "finish" \in Teardown
  BY DEF Teardown
<1>11. recorded' = recorded \/ Parts(job)
  BY <1>9
<1>12. QED
  BY <1>2, <1>5, <1>9, <1>10, <1>11, CleanedHolds

\* The steps that save nothing: the copy that is there, the refusal to delete, the
\* deletion that has nothing to delete.
LEMMA LateSkipsHold ==
  ASSUME CandidateInv, at \in {"source", "delete"}, UNCHANGED <<guarded, stageCluster, initialization>>,
         NEW next \in {"delete", "absence", "finish"}, Skips(next),
         at = "source" => candidate.source # "none", next = "delete" => at = "source",
         next = "absence" => at = "delete"
  PROVE  CandidateHolds
<1>1. at \in LatePlaces /\ at' \in LatePlaces /\ at' = next
  BY DEF LatePlaces, Skips
<1>2. /\ at \in Teardown /\ call \in Calls /\ candidate \in Jobs /\ candidate.state \in TeardownStates
      /\ CustodyFor(candidate) /\ CustodyFor(recorded) /\ ~candidate.proof /\ ~recorded.proof /\ ~call.proved
  BY <1>1, LateIs
<1>3. /\ UNCHANGED <<candidate, recorded>> /\ call' \in Calls
      /\ call'.proved = call.proved /\ call'.failure = call.failure /\ call'.cleanupOnly = call.cleanupOnly
      /\ call'.cleanupFailed \/ call'.cleanupFailed = call.cleanupFailed
  BY <1>2 DEF Skips
<1>4. CustodyFits'
  <2>1. CustodyFor(candidate)' /\ CustodyFor(recorded)'
    BY <1>2, <1>3 DEF CustodyFor, initialization
  <2>2. at' # "finish" => /\ recorded'.state \in TeardownStates
                          /\ candidate'.source = (IF candidate'.contract = "none" THEN "none" ELSE "active")
    <3>1. CASE at = "source"
      <4>1. candidate.source = "active" /\ candidate.contract # "none"
        BY <1>2, <3>1 DEF CustodyFor, Jobs, Traces
      <4>2. recorded.state \in TeardownStates
        BY <3>1 DEF CandidateInv, CustodyFits
      <4>3. QED
        BY <1>3, <4>1, <4>2
    <3>2. CASE at = "delete"
      BY <1>3, <3>2 DEF CandidateInv, CustodyFits
    <3>3. QED
      BY <3>1, <3>2
  <2>3. at' \in {"delete", "clear", "absence", "finish"} /\ at' # "clear"
    BY <1>1
  <2>4. QED
    BY <1>2, <1>3, <2>1, <2>2, <2>3, CustodyLate
<1>5. ArchiveFits' /\ SuccessFits'
  BY <1>1, <1>3, ArchiveIsKept DEF CandidateInv
<1>6. KeptFits' /\ at' \in Teardown
  BY <1>1, <1>4, <1>5 DEF KeptFits, LatePlaces, Teardown
<1>7. QED
  BY <1>2, <1>3, <1>6, SkipHolds

LEMMA SaveSourceHolds ==
  ASSUME CandidateInv, SaveSource
  PROVE  CandidateHolds
<1>1. at = "source" /\ UNCHANGED <<guarded, stageCluster, initialization>>
  BY DEF SaveSource
<1>2. CASE candidate.source = "none"
  BY <1>1, <1>2, SourceIsSaved DEF SaveSource
<1>3. CASE candidate.source # "none"
  <2>1. Skips("delete")
    BY <1>3 DEF SaveSource, Skips
  <2>2. QED
    BY <1>1, <1>3, <2>1, LateSkipsHold
<1>4. QED
  BY <1>2, <1>3

LEMMA RefuseReplacedHolds ==
  ASSUME CandidateInv, RefuseReplaced
  PROVE  CandidateHolds
<1>1. /\ at = "delete" /\ UNCHANGED <<candidate, recorded, guarded, setbacks, stageCluster, initialization>>
      /\ CleanupFails("finish") /\ call \in Calls
  BY DEF RefuseReplaced, CandidateInv, CandidateTyped
<1>2. Skips("finish")
  BY <1>1, FailureSkips
<1>3. QED
  BY <1>1, <1>2, LateSkipsHold

\* A deletion, complete or not, leaves no whole phase and no open directory.
LEMMA DeletionHolds ==
  ASSUME CandidateInv, at = "delete", candidate.contract = "active",
         UNCHANGED <<candidate, recorded, guarded, meddled, files, jobPods, released>>,
         at' \in {"clear", "finish"}, machines' \in {"none", "partial", "lingering"},
         machines = "none" => machines' = "none",
         live' = EmptyCluster, databases' = "blank", applying' = "none",
         call' \in Calls, call'.proved = call.proved, call'.failure = call.failure,
         call'.cleanupOnly = call.cleanupOnly, call'.cleanupFailed \/ call'.cleanupFailed = call.cleanupFailed
  PROVE  CandidateHolds
<1>1. at \in LatePlaces /\ at' \in LatePlaces
  BY DEF LatePlaces
<1>2. /\ candidate \in Jobs /\ candidate.state \in TeardownStates
      /\ CustodyFor(candidate) /\ CustodyFor(recorded) /\ ~candidate.proof /\ ~recorded.proof /\ ~call.proved
  BY <1>1, LateIs
<1>3. /\ at' \notin First \cup StagePlaces \cup HotelPlaces \cup {"prepare", "validate", "release"}
      /\ at' \notin JournalPlaces \cup PhasePlaces \cup {"prepareStorage", "storagePrepared"}
      /\ at \notin Ended /\ at' \in Teardown
  BY DEF Ended, Teardown, First, StagePlaces, HotelPlaces, JournalPlaces, PhasePlaces
<1>4. JournalFits' /\ HotelFits'
  <2>1. HotelTold(recorded'.hotel) /\ HotelTold(candidate'.hotel)
    BY <1>3 DEF CandidateInv, HotelFits
  <2>2. at' # "release"
    BY <1>3
  <2>3. QED
    BY <1>3, <2>1, <2>2, JournalRests, HotelRests DEF CandidateInv
<1>5. PhasesFit'
  <2>1. \A p \in StagePhases : live'[p].whole => live'[p].uid # 0
    BY DEF EmptyCluster, Nothing
  <2>2. at' \notin {"apply", "sendPhase", "reconciled"}
    BY <1>3 DEF PhasePlaces
  <2>3. machines' # "ready"
    OBVIOUS
  <2>4. Len(candidate'.stage.receipts) <= 6 /\ Len(recorded'.stage.receipts) <= 6
    BY DEF CandidateInv, PhasesFit
  <2>5. QED
    BY <1>3, <2>1, <2>2, <2>3, <2>4 DEF PhasesFit, EmptyCluster
<1>6. DatabasesFit'
  BY <1>3 DEF DatabasesFit
<1>7. CustodyFits'
  <2>1. CustodyFor(candidate)' /\ CustodyFor(recorded)'
    BY <1>2 DEF CustodyFor
  <2>2. recorded.state \in TeardownStates /\ candidate.source = "active"
    BY DEF CandidateInv, CustodyFits
  <2>3. at' \in {"delete", "clear", "absence", "finish"}
    OBVIOUS
  <2>4. ~candidate'.proof /\ ~recorded'.proof /\ ~call'.proved /\ candidate'.state \in TeardownStates
    BY <1>2
  <2>5. candidate'.source = (IF candidate'.contract = "none" THEN "none" ELSE "active")
    BY <2>2
  <2>6. QED
    BY <2>1, <2>2, <2>3, <2>4, <2>5, CustodyLate
<1>8. ArchiveFits' /\ SuccessFits'
  BY <1>1, ArchiveIsKept DEF CandidateInv
<1>9. CandidateTyped'
  <2>1. live' \in [StagePhases -> Seen]
    BY DEF EmptyCluster, Nothing, Seen
  <2>2. machines' \in {"none", "partial", "ready", "replaced", "lingering"}
    OBVIOUS
  <2>3. at' \in CandidatePlaces
    BY <1>3 DEF CandidatePlaces
  <2>4. databases' \in {"blank", "prepared", "opened"} /\ applying' \in StagePhases \cup {"none"}
    OBVIOUS
  <2>5. QED
    BY <2>1, <2>2, <2>3, <2>4 DEF CandidateInv, CandidateTyped
<1>10. QED
  BY <1>4, <1>5, <1>6, <1>7, <1>8, <1>9 DEF CandidateHolds, ClusterFits, KeptFits

LEMMA DeleteHolds ==
  ASSUME CandidateInv, Delete
  PROVE  CandidateHolds
<1>1. at = "delete" /\ UNCHANGED <<candidate, recorded, guarded, meddled, files, jobPods, released>>
  BY DEF Delete
<1>2. call \in Calls /\ machines \in {"none", "partial", "ready", "replaced", "lingering"}
  BY DEF CandidateInv, CandidateTyped
<1>3. CASE candidate.contract # "active"
  <2>1. at' = "absence" /\ UNCHANGED <<call, machines, live, databases, applying>>
    BY <1>3 DEF Delete
  <2>2. Skips("absence")
    BY <1>1, <2>1 DEF Skips
  <2>3. UNCHANGED <<guarded, stageCluster, initialization>>
    BY <1>1, <2>1 DEF stageCluster, initialization
  <2>4. QED
    BY <1>1, <2>2, <2>3, LateSkipsHold
<1>4. CASE candidate.contract = "active"
  <2>1. /\ live' = EmptyCluster /\ databases' = "blank" /\ applying' = "none"
        /\ \/ CleanupFails("finish") /\ machines' = (IF machines = "none" THEN "none" ELSE "partial")
           \/ at' = "clear" /\ call' = call /\ (machines' = "none" \/ (machines # "none" /\ machines' = "lingering"))
    BY <1>4 DEF Delete
  <2>2. machines' \in {"none", "partial", "lingering"} /\ (machines = "none" => machines' = "none")
    BY <1>2, <2>1
  <2>3. /\ at' \in {"clear", "finish"} /\ call' \in Calls
        /\ call'.proved = call.proved /\ call'.failure = call.failure /\ call'.cleanupOnly = call.cleanupOnly
        /\ call'.cleanupFailed \/ call'.cleanupFailed = call.cleanupFailed
    BY <1>2, <2>1 DEF CleanupFails, Calls
  <2>4. QED
    BY <1>1, <1>4, <2>1, <2>2, <2>3, DeletionHolds
<1>5. QED
  BY <1>3, <1>4

\* The terminal marker of the provider.
LEMMA ClearContractHolds ==
  ASSUME CandidateInv, ClearContract
  PROVE  CandidateHolds
<1> DEFINE job == [candidate EXCEPT !.contract = "cleared"]
<1>1. /\ at = "clear" /\ at \in LatePlaces
      /\ SaveOr(job, "absence", "finish") /\ UNCHANGED <<guarded, stageCluster, initialization>>
  BY DEF ClearContract, LatePlaces
<1>2. /\ at \in Teardown /\ call \in Calls /\ candidate \in Jobs /\ candidate.state \in TeardownStates
      /\ CustodyFor(candidate) /\ CustodyFor(recorded) /\ ~candidate.proof /\ ~recorded.proof /\ ~call.proved
  BY <1>1, LateIs
<1>3. /\ job \in Jobs /\ job.contract = "cleared" /\ job.state = candidate.state
      /\ job.stage = candidate.stage /\ job.hotel = candidate.hotel /\ job.archive = candidate.archive
      /\ job.source = candidate.source /\ job.proof = candidate.proof
  BY <1>2 DEF Jobs, Traces
<1> HIDE DEF job
<1>4. Cleaned(job, "absence", "finish")
  BY <1>1, <1>2, CleansOff
<1>5. /\ candidate' = job /\ recorded' \in {recorded, job} /\ at' \in {"absence", "finish"}
      /\ at' = "absence" => recorded' = job
      /\ call'.proved = call.proved /\ call'.failure = call.failure /\ call'.cleanupOnly = call.cleanupOnly
      /\ call'.cleanupFailed \/ call'.cleanupFailed = call.cleanupFailed
  BY <1>4 DEF Cleaned
<1>6. CustodyFits'
  <2>1. candidate.source = "active"
    BY <1>1 DEF CandidateInv, CustodyFits
  <2>2. CustodyFor(candidate)' /\ CustodyFor(recorded)'
    <3>1. machines' = machines /\ {"unwritten", "queued"} \cap TeardownStates = {}
      BY <1>1 DEF initialization, TeardownStates
    <3>2. CustodyFor(candidate)'
      BY <1>2, <1>3, <1>5, <2>1, <3>1 DEF CustodyFor
    <3>3. QED
      BY <1>2, <1>5, <3>1, <3>2 DEF CustodyFor
  <2>3. ~candidate'.proof /\ ~recorded'.proof /\ ~call'.proved
    BY <1>2, <1>3, <1>5
  <2>4. candidate'.source = (IF candidate'.contract = "none" THEN "none" ELSE "active")
    BY <1>3, <1>5, <2>1
  <2>5. candidate'.state \in TeardownStates /\ (at' # "finish" => recorded'.state \in TeardownStates)
    BY <1>2, <1>3, <1>5
  <2>6. QED
    BY <1>5, <2>2, <2>3, <2>4, <2>5, CustodyLate
<1>7. ArchiveFits' /\ SuccessFits'
  <2>1. at' \in LatePlaces /\ recorded' \in {recorded, candidate'}
    BY <1>5 DEF LatePlaces
  <2>2. QED
    BY <1>1, <1>3, <1>5, <2>1, ArchiveIsKept DEF CandidateInv
<1>8. Parts(job) /\ KeptFits'
  BY <1>2, <1>3, <1>6, <1>7 DEF Parts, KeptFits
<1>9. "absence" \in Teardown \cup {"returned"} /\ "finish" \in Teardown
  BY DEF Teardown
<1>10. recorded' = recorded \/ Parts(job)
  BY <1>8
<1>11. QED
  BY <1>1, <1>2, <1>4, <1>8, <1>9, <1>10, CleanedHolds

\* What is proved is so: without a contract there is nothing to be absent.
LEMMA ProveAbsenceHolds ==
  ASSUME CandidateInv, ProveAbsence
  PROVE  CandidateHolds
<1>1. /\ at = "absence" /\ at' = "finish" /\ at \in LatePlaces /\ at' \in LatePlaces
      /\ UNCHANGED <<candidate, recorded, guarded, stageCluster, initialization>>
  BY DEF ProveAbsence, CleanupFails, LatePlaces
<1>2. /\ at \in Teardown /\ call \in Calls /\ candidate \in Jobs /\ candidate.state \in TeardownStates
      /\ CustodyFor(candidate) /\ CustodyFor(recorded) /\ ~candidate.proof /\ ~recorded.proof /\ ~call.proved
  BY <1>1, LateIs
<1>3. /\ call' \in Calls /\ call'.failure = call.failure /\ call'.cleanupOnly = call.cleanupOnly
      /\ call'.cleanupFailed \/ call'.cleanupFailed = call.cleanupFailed
      /\ call'.proved => (candidate.source = "active" => machines = "none") /\ candidate.stage = NoStage
  BY <1>2 DEF ProveAbsence, CleanupFails, Calls
<1>4. CustodyFits'
  <2>1. candidate.source = (IF candidate.contract = "none" THEN "none" ELSE "active")
    BY <1>1 DEF CandidateInv, CustodyFits
  <2>2. call'.proved => candidate.stage = NoStage /\ machines = "none"
    BY <1>2, <1>3, <2>1 DEF CustodyFor
  <2>3. CustodyFor(candidate)' /\ CustodyFor(recorded)' /\ machines' = machines
    BY <1>1, <1>2 DEF CustodyFor, initialization
  <2>4. at' \in Teardown /\ at' \notin Ended \cup {"create", "late", "returned", "delete", "clear", "absence"}
    BY <1>1 DEF Teardown, Ended
  <2>5. {"unwritten", "queued"} \cap TeardownStates = {}
    BY DEF TeardownStates
  <2>6. QED
    BY <1>1, <1>2, <2>2, <2>3, <2>4, <2>5 DEF CustodyFits
<1>5. ArchiveFits' /\ SuccessFits'
  BY <1>1, <1>3, ArchiveIsKept DEF CandidateInv
<1>6. KeptFits' /\ at' \in Teardown
  BY <1>1, <1>4, <1>5 DEF KeptFits, Teardown
<1>7. QED
  BY <1>1, <1>2, <1>3, <1>6, SkipHolds

\* The last save says what was proved.
LEMMA FinishHolds ==
  ASSUME CandidateInv, Finish
  PROVE  CandidateHolds
<1> DEFINE w == With(IF Complete THEN "cleanup_complete" ELSE "cleanup_failed")
           job == [w EXCEPT !.proof = Complete]
<1>1. /\ at = "finish" /\ at \in LatePlaces
      /\ SaveOr(job, "late", "late") /\ UNCHANGED <<guarded, stageCluster, initialization>>
  BY DEF Finish, LatePlaces
<1>2. /\ at \in Teardown /\ call \in Calls /\ candidate \in Jobs /\ candidate.state \in TeardownStates
      /\ CustodyFor(candidate) /\ CustodyFor(recorded) /\ ~candidate.proof /\ ~recorded.proof
  BY <1>1, LateIs
<1>3. {"cleanup_complete", "cleanup_failed"} \subseteq TeardownStates \cap JobStates
  BY DEF TeardownStates, JobStates
<1>4. /\ w \in Jobs /\ w.state = (IF Complete THEN "cleanup_complete" ELSE "cleanup_failed")
      /\ w.stage = candidate.stage /\ w.hotel = candidate.hotel /\ SameCustody(w, candidate)
  BY <1>2, <1>3, JobsChange DEF With
<1> HIDE DEF w
<1>5. Complete \in BOOLEAN
  BY <1>2, Zenon DEF Complete, Calls
<1>6. /\ job \in Jobs /\ (job.proof <=> Complete)
      /\ job.state = w.state /\ job.stage = w.stage /\ job.hotel = w.hotel /\ job.source = w.source
      /\ job.contract = w.contract /\ job.archive = w.archive
  BY <1>4, <1>5, CustodyChanges
<1> HIDE DEF job
<1>7. /\ job.state \in TeardownStates /\ job.stage = candidate.stage /\ job.hotel = candidate.hotel
      /\ job.source = candidate.source /\ job.contract = candidate.contract /\ job.archive = candidate.archive
      /\ job.proof => job.state = "cleanup_complete"
  BY <1>3, <1>4, <1>6 DEF SameCustody
<1>8. Cleaned(job, "late", "late")
  BY <1>1, <1>2, CleansOff
<1>9. /\ candidate' = job /\ recorded' \in {recorded, job} /\ at' = "late"
      /\ call'.cleanupFailed \/ (recorded' = job /\ call' = call)
      /\ call'.proved = call.proved /\ call'.failure = call.failure /\ call'.cleanupOnly = call.cleanupOnly
      /\ call'.cleanupFailed \/ call'.cleanupFailed = call.cleanupFailed
  BY <1>8 DEF Cleaned
<1>10. CustodyFits'
  <2>1. CustodyFor(candidate)' /\ CustodyFor(recorded)'
    <3>1. machines' = machines /\ {"unwritten", "queued"} \cap TeardownStates = {}
      BY <1>1 DEF initialization, TeardownStates
    <3>2. CustodyFor(candidate)'
      BY <1>2, <1>7, <1>9, <3>1 DEF CustodyFor
    <3>3. QED
      BY <1>2, <1>9, <3>1, <3>2 DEF CustodyFor
  <2>2. call.proved => candidate.stage = NoStage /\ machines = "none"
    BY <1>1 DEF CandidateInv, CustodyFits
  <2>3. call'.proved => candidate'.stage = NoStage /\ machines' = "none"
    BY <1>1, <1>7, <1>9, <2>2 DEF initialization
  <2>4. recorded'.proof => recorded'.state = "cleanup_complete" /\ machines' = "none" /\ recorded'.stage = NoStage
    <3>1. CASE recorded' = recorded
      BY <1>2, <3>1
    <3>2. CASE recorded' = job
      BY <1>1, <1>6, <1>7, <2>2, <3>2 DEF Complete, initialization
    <3>3. QED
      BY <1>9, <3>1, <3>2
  <2>5. Complete' => recorded' = candidate' /\ recorded'.proof
    <3>1. Complete' => call' = call /\ recorded' = job
      BY <1>9 DEF Complete
    <3>2. QED
      BY <1>6, <1>9, <3>1 DEF Complete
  <2>6. /\ at' \in Teardown /\ at' \notin Ended
        /\ at' \notin {"create", "returned", "delete", "clear", "absence"}
        /\ at' \notin {"pend", "archive", "removeKey", "clean", "source"}
    BY <1>9 DEF Teardown, Ended
  <2>7. candidate'.state \in TeardownStates /\ {"unwritten", "queued"} \cap TeardownStates = {}
    BY <1>7, <1>9 DEF TeardownStates
  <2>8. QED
    BY <1>9, <2>1, <2>3, <2>4, <2>5, <2>6, <2>7 DEF CustodyFits
<1>11. ArchiveFits' /\ SuccessFits'
  <2>1. at' \in LatePlaces /\ recorded' \in {recorded, candidate'}
    BY <1>9 DEF LatePlaces
  <2>2. QED
    BY <1>1, <1>7, <1>9, <2>1, ArchiveIsKept DEF CandidateInv
<1>12. Parts(job) /\ KeptFits'
  BY <1>6, <1>7, <1>10, <1>11 DEF Parts, KeptFits
<1>13. "late" \in Teardown
  BY DEF Teardown
<1>14. recorded' = recorded \/ Parts(job)
  BY <1>12
<1>15. QED
  BY <1>1, <1>2, <1>8, <1>12, <1>13, <1>14, CleanedHolds

\* No exit but 2 says less than the record.
LEMMA ReturnHolds ==
  ASSUME CandidateInv, Return
  PROVE  CandidateHolds
<1>1. /\ at = "late" /\ at \in LatePlaces /\ at' = "returned"
      /\ UNCHANGED <<candidate, recorded, guarded, stageCluster, initialization>>
  BY DEF Return, LatePlaces
<1>2. at \in Teardown /\ at \notin Ended /\ call \in Calls /\ CustodyFor(recorded)
  BY <1>1, LateIs
<1>3. ExitCode \in ExitCodes /\ "2" \in ExitCodes
  BY DEF ExitCode, ExitCodes
<1>4. /\ call' \in Calls /\ call'.proved = call.proved
      /\ call'.failure = call.failure /\ call'.cleanupOnly = call.cleanupOnly
      /\ call'.exit \in {"2", ExitCode}
  BY <1>2, <1>3 DEF Return, Calls
<1>5. ExitCode # "2" => Complete
  BY DEF ExitCode
<1>6. ExitCode = "0" => Complete /\ call.failure = "none"
  BY <1>2 DEF ExitCode, Calls, Failures
<1>7. Complete => recorded = candidate /\ recorded.proof
  BY <1>1 DEF CandidateInv, CustodyFits
<1>8. at' \in Ended /\ at' \notin Teardown /\ at' # "late"
  BY <1>1 DEF Ended, Teardown
<1>9. CustodyFits'
  <2>1. CustodyFor(recorded)'
    BY <1>1, <1>2 DEF CustodyFor, initialization
  <2>2. call'.proved => candidate'.stage = NoStage /\ machines' = "none"
    BY <1>1, <1>4 DEF CandidateInv, CustodyFits, initialization
  <2>3. recorded'.proof => recorded'.state = "cleanup_complete" /\ machines' = "none" /\ recorded'.stage = NoStage
    BY <1>1 DEF CandidateInv, CustodyFits, initialization
  <2>4. call'.exit # "2" => recorded'.proof
    BY <1>1, <1>4, <1>5, <1>7
  <2>5. at' \notin {"create", "delete", "clear", "absence", "pend", "archive", "removeKey", "clean", "source"}
    BY <1>1
  <2>6. QED
    BY <1>1, <1>8, <2>1, <2>2, <2>3, <2>4, <2>5 DEF CustodyFits
<1>10. ArchiveFits'
  BY <1>1, <1>8 DEF ArchiveFits
<1>11. SuccessFits'
  <2>1. call'.exit = "0" => ExitCode = "0"
    BY <1>4
  <2>2. call'.exit = "0" /\ ~call.cleanupOnly =>
          candidate.archive.state = "ready" /\ (guarded => candidate.hotel.verified)
    BY <1>1, <1>2, <1>6, <2>1 DEF CandidateInv, SuccessFits, Complete
  <2>3. call'.exit = "0" => recorded = candidate
    BY <1>6, <1>7, <2>1
  <2>4. QED
    BY <1>1, <1>4, <1>8, <2>2, <2>3 DEF SuccessFits
<1>12. QED
  BY <1>1, <1>2, <1>4, <1>9, <1>10, <1>11, SkipHolds DEF KeptFits

-------------------------------------------------------------------------------
(* Every step.                                                             *)

\* What the support stage does to the cluster is of the shape it has.
LEMMA StageClusterTyped ==
  ASSUME CandidateTyped, PhasesFit, StageStep
  PROVE  /\ live' \in [StagePhases -> Seen] /\ databases' \in {"blank", "prepared", "opened"}
         /\ applying' \in StagePhases \cup {"none"} /\ meddled' \in BOOLEAN
<1>1. CASE UNCHANGED stageCluster
  BY <1>1 DEF CandidateTyped, stageCluster
<1>2. CASE PrepareDatabases
  BY <1>2 DEF PrepareDatabases, CandidateTyped
<1>3. CASE SendPhase
  <2> DEFINE p == CurrentPhase
  <2>1. p \in StagePhases
    <3>1. at = "sendPhase"
      BY <1>3 DEF SendPhase
    <3>2. Len(candidate.stage.receipts) < 6
      BY <3>1 DEF PhasesFit
    <3>3. candidate.stage.receipts \in Seq(0..2)
      BY DEF CandidateTyped, Jobs, StageJournals
    <3>4. Len(candidate.stage.receipts) + 1 \in 1..6
      BY <3>2, <3>3
    <3>5. QED
      BY <3>4, PhasesAreSix DEF CurrentPhase
  <2>2. /\ live' \in {live, AfterApply(p), PartlyApplied(p)} /\ databases' \in {databases, OpenedBy(p)}
        /\ applying' \in {applying, "none", p} /\ meddled' = meddled
    BY <1>3 DEF SendPhase
  <2> HIDE DEF p
  <2>3. live \in [StagePhases -> Seen] /\ \A q \in StagePhases : live[q].whole => live[q].uid # 0
    BY DEF CandidateTyped, PhasesFit
  <2>4. live' \in [StagePhases -> Seen]
    BY <2>1, <2>2, <2>3, Applies
  <2>5. databases' \in {"blank", "prepared", "opened"}
    BY <2>2 DEF OpenedBy, CandidateTyped
  <2>6. applying' \in StagePhases \cup {"none"} /\ meddled' \in BOOLEAN
    BY <2>1, <2>2 DEF CandidateTyped
  <2>7. QED
    BY <2>4, <2>5, <2>6
<1>4. QED
  BY <1>1, <1>2, <1>3 DEF StageStep, OpenStage, AttestTarget, BeginDatabases, RecordStorage, RevisitPhases,
     ReconcilePhase, BeginApply, RecordPhase, AttestSupport

LEMMA StageHoldsAll ==
  ASSUME CandidateInv, StageStep, UNCHANGED initialization
  PROVE  CandidateHolds /\ StageWorks
<1>1. UNCHANGED <<machines, files, jobPods, released>>
  BY DEF initialization
<1>2. StageHolds
  BY <1>1, StageStepsHold DEF StageFits, CandidateInv
<1>3. KeptFits' /\ at' \in CandidatePlaces /\ call' \in Calls
  BY <1>1, <1>2, StageKept DEF CandidateInv, KeptFits, StageHolds
<1>4. at' \in StagePlaces \cup {"hotel", "validate", "pend"} /\ at \notin Ended
  BY <1>2, Handlers DEF StageHolds, StageWorks, BreaksOff, StagePlaces, Ended
<1>5. JournalFits' /\ HotelFits'
  <2>1. at' \notin JournalPlaces \cup {"release"}
    BY <1>4 DEF StagePlaces, JournalPlaces
  <2>2. HotelTold(recorded'.hotel) /\ HotelTold(candidate'.hotel)
    BY <1>2, <1>4 DEF CandidateInv, HotelFits, StageHolds, StageWorks
  <2>3. QED
    BY <1>1, <2>1, <2>2, JournalRests, HotelRests DEF CandidateInv
<1>6. CandidateTyped'
  <2>1. /\ live' \in [StagePhases -> Seen] /\ databases' \in {"blank", "prepared", "opened"}
        /\ applying' \in StagePhases \cup {"none"} /\ meddled' \in BOOLEAN
    BY StageClusterTyped DEF CandidateInv
  <2>2. candidate' \in Jobs /\ recorded' \in Jobs /\ guarded' \in BOOLEAN
    BY <1>2 DEF StageHolds, StageWorks, CandidateInv, CandidateTyped
  <2>3. machines' \in {"none", "partial", "ready", "replaced", "lingering"}
    BY <1>1 DEF CandidateInv, CandidateTyped
  <2>4. QED
    BY <1>3, <2>1, <2>2, <2>3 DEF CandidateTyped
<1>7. QED
  BY <1>2, <1>3, <1>5, <1>6 DEF CandidateHolds, ClusterFits, StageHolds

LEMMA HotelHoldsAll ==
  ASSUME CandidateInv, HotelStep
  PROVE  CandidateHolds /\ HotelWorks
<1>1. HotelHolds
  BY HotelStepsHold DEF HotelFitted, CandidateInv
<1>2. KeptFits' /\ PhasesFit' /\ DatabasesFit' /\ at' \in CandidatePlaces /\ call' \in Calls
  BY <1>1, HotelKept DEF CandidateInv, KeptFits, HotelHolds
<1>3. CandidateTyped'
  <2>1. candidate' \in Jobs /\ recorded' \in Jobs /\ guarded' \in BOOLEAN
    BY <1>1 DEF HotelHolds, HotelWorks, CandidateInv, CandidateTyped
  <2>2. UNCHANGED <<live, databases, applying, meddled, machines>>
    BY <1>1 DEF HotelHolds, HotelWorks, stageCluster
  <2>3. QED
    BY <1>2, <2>1, <2>2 DEF CandidateInv, CandidateTyped
<1>4. QED
  BY <1>1, <1>2, <1>3 DEF CandidateHolds, ClusterFits, HotelHolds

LEMMA PodEndsHoldsAll ==
  ASSUME CandidateInv, PodEnds
  PROVE  CandidateHolds
<1>1. UNCHANGED <<at, candidate, recorded, call, guarded, stageCluster, machines, files, released>>
  BY DEF PodEnds
<1>2. JournalFits' /\ HotelFits'
  BY PodEndsHolds DEF CandidateInv
<1>3. KeptFits'
  BY <1>1, KeptAround DEF CandidateInv, KeptFits
<1>4. PhasesFit'
  BY <1>1 DEF CandidateInv, PhasesFit, Intact, EmptyCluster, AuditPasses, stageCluster
<1>5. DatabasesFit'
  BY <1>1 DEF CandidateInv, DatabasesFit, stageCluster
<1>6. CandidateTyped'
  BY <1>1 DEF CandidateInv, CandidateTyped, stageCluster
<1>7. QED
  BY <1>2, <1>3, <1>4, <1>5, <1>6 DEF CandidateHolds, ClusterFits

LEMMA CandidateStays ==
  ASSUME CandidateInv, UNCHANGED candidateRun
  PROVE  CandidateInv'
<1>1. /\ UNCHANGED <<at, candidate, recorded, call, guarded, live, databases, applying, meddled>>
      /\ UNCHANGED <<machines, files, jobPods, released>>
  BY DEF candidateRun, state, stageCluster, initialization
<1>2. CandidateTyped'
  BY <1>1 DEF CandidateInv, CandidateTyped
<1>3. JournalFits' /\ HotelFits'
  BY <1>1, JournalAround DEF CandidateInv
<1>4. PhasesFit' /\ DatabasesFit'
  BY <1>1 DEF CandidateInv, PhasesFit, Intact, EmptyCluster, AuditPasses, DatabasesFit
<1>5. KeptFits'
  BY <1>1, KeptAround DEF CandidateInv, KeptFits
<1>6. QED
  BY <1>2, <1>3, <1>4, <1>5 DEF CandidateInv, KeptFits

LEMMA AroundHolds ==
  ASSUME CandidateInv, Around
  PROVE  CandidateHolds
<1>1. CASE Interrupt /\ UNCHANGED <<stageCluster, initialization>>
  BY <1>1, InterruptHolds
<1>2. CASE Die /\ UNCHANGED <<stageCluster, initialization>>
  BY <1>2, DeathHolds DEF stageCluster
<1>3. CASE DieApplying /\ UNCHANGED initialization
  BY <1>3, DeathHolds DEF DieApplying
<1>4. CASE Leftover /\ UNCHANGED initialization
  BY <1>4, LeftoverHolds
<1>5. CASE (machines = "ready" /\ Meddle) /\ UNCHANGED initialization
  BY <1>5, MeddleHolds
<1>6. CASE Defer \/ Replace
  BY <1>6, MachinesAround
<1>7. QED
  BY <1>1, <1>2, <1>3, <1>4, <1>5, <1>6 DEF Around

LEMMA OperatorHolds ==
  ASSUME CandidateInv, OperatorStep
  PROVE  CandidateHolds
<1>1. CASE Allocate \/ Accept \/ AcceptResume \/ SaveContract
  BY <1>1, AcceptanceHolds
<1>2. CASE BeginProvisioning \/ AdoptCloud \/ PrepareRuntime
  BY <1>2, WorkStepsHold
<1>3. CASE Provision \/ ObserveSupport
  BY <1>3, ProvisionHolds, ObservationHolds
<1>4. CASE (StageStep /\ UNCHANGED initialization) \/ HotelStep
  BY <1>4, StageHoldsAll, HotelHoldsAll
<1>5. CASE BeginTeardown \/ ArchiveStage \/ RemoveStage \/ BeginCleaning
  BY <1>5, StatePartsHold, ArchiveStageHolds, RemoveStageHolds
<1>6. CASE SaveSource \/ RefuseReplaced \/ Delete \/ ClearContract
  BY <1>6, SaveSourceHolds, RefuseReplacedHolds, DeleteHolds, ClearContractHolds
<1>7. CASE ProveAbsence \/ Finish \/ Return
  BY <1>7, ProveAbsenceHolds, FinishHolds, ReturnHolds
<1>8. QED
  BY <1>1, <1>2, <1>3, <1>4, <1>5, <1>6, <1>7 DEF OperatorStep

LEMMA CandidateStepsHold ==
  ASSUME CandidateInv, CandidateStep
  PROVE  CandidateInv'
<1>1. CandidateHolds
  BY OperatorHolds, StartsHold, AroundHolds, MachinesAround, PodEndsHoldsAll DEF CandidateStep
<1>2. QED
  BY <1>1 DEF CandidateHolds, CandidateInv, ClusterFits, KeptFits

-------------------------------------------------------------------------------
(* What the invariant says.                                                *)

LEMMA CandidateBegins ==
  ASSUME CandidateInit \/ CandidateIdle
  PROVE  CandidateInv
<1>1. /\ at \in {"allocate", "idle"} /\ candidate = Queued /\ recorded = Unwritten /\ call = NoCall
      /\ guarded \in BOOLEAN
      /\ live = EmptyCluster /\ databases = "blank" /\ applying = "none" /\ meddled = FALSE
      /\ machines = "none" /\ files = [events |-> 0, latches |-> {}]
      /\ jobPods = [m \in Modes |-> "absent"] /\ released = [m \in Modes |-> 0]
  BY DEF CandidateInit, CandidateIdle, StateInit, NoCandidate, ClusterInit, InitializationInit
<1>2. /\ at \notin {"prepare", "validate", "late", "returned", "failHotel", "create"} \cup StagePlaces \cup HotelPlaces
      /\ at \notin PhasePlaces \cup JournalPlaces \cup Teardown
      /\ at \in CandidatePlaces
  BY <1>1 DEF StagePlaces, HotelPlaces, PhasePlaces, JournalPlaces, Teardown, CandidatePlaces, Ended, Acceptance
<1>3. CandidateTyped
  <2>1. live \in [StagePhases -> Seen]
    BY <1>1 DEF EmptyCluster, Nothing, Seen
  <2>2. QED
    BY <1>1, <1>2, <2>1, EmptyRecords DEF CandidateTyped
<1>4. JournalFits
  <2>1. files \in [events : 0..6, latches : SUBSET Modes] /\ files.events = 0
    BY <1>1
  <2>2. "verify" \in Modes /\ "initialize-empty" \in Modes
    BY DEF Modes
  <2>3. QED
    BY <1>1, <1>2, <2>1, <2>2 DEF JournalFits, JournalPlaces
<1>5. HotelFits
  <2>1. HotelTold(recorded.hotel) /\ HotelTold(candidate.hotel)
    BY <1>1, EmptyRecords DEF HotelTold, Modes
  <2>2. QED
    BY <1>1, <2>1 DEF HotelFits
<1>6. PhasesFit
  <2>1. \A p \in StagePhases : live[p].whole => live[p].uid # 0
    BY <1>1 DEF EmptyCluster, Nothing
  <2>2. candidate.stage = NoStage /\ recorded.stage = NoStage /\ Len(NoStage.receipts) <= 6
    BY <1>1, EmptyRecords
  <2>3. at \notin {"apply", "sendPhase", "reconciled"}
    BY <1>2 DEF PhasePlaces
  <2>4. QED
    BY <1>1, <1>2, <2>1, <2>2, <2>3 DEF PhasesFit
<1>7. DatabasesFit
  BY <1>1, <1>2 DEF DatabasesFit
<1>8. CustodyFits
  <2>1. CustodyFor(recorded) /\ CustodyFor(candidate)
    BY <1>1, EmptyRecords DEF CustodyFor
  <2>2. /\ ~call.proved /\ ~recorded.proof /\ ~candidate.proof /\ candidate.source = "none"
        /\ candidate.state \notin TeardownStates /\ recorded.state \notin TeardownStates
    BY <1>1, EmptyRecords DEF TeardownStates
  <2>3. at \in Ended \cup {"allocate", "accept"} /\ at \notin {"delete", "clear", "absence"}
    BY <1>1 DEF Ended
  <2>4. QED
    BY <1>1, <1>2, <2>1, <2>2, <2>3 DEF CustodyFits
<1>9. ArchiveFits /\ SuccessFits
  BY <1>1, <1>2, EmptyRecords DEF ArchiveFits, SuccessFits
<1>10. QED
  BY <1>3, <1>4, <1>5, <1>6, <1>7, <1>8, <1>9 DEF CandidateInv

LEMMA EvidenceFollows ==
  ASSUME CandidateInv
  PROVE  RecordsAreEvidence
<1>1. machines = "ready" /\ ~meddled => Intact(recorded.stage) /\ Intact(candidate.stage)
  BY DEF CandidateInv, PhasesFit
<1>2. at \in HotelPlaces \cup {"validate"} => candidate.stage.state = "ready" /\ Intact(candidate.stage)
  BY DEF CandidateInv, PhasesFit
<1>3. HotelTold(recorded.hotel) /\ (released["verify"] > 0 => Completed("initialize-empty"))
  BY DEF CandidateInv, HotelFits, JournalFits
<1>4. QED
  BY <1>1, <1>2, <1>3 DEF RecordsAreEvidence, Intact, HotelTold, Completed

LEMMA ProofFollows ==
  ASSUME CandidateInv
  PROVE  CandidateIsProved
<1>1. /\ recorded.proof => machines = "none" /\ recorded.stage = NoStage
      /\ at = "returned" /\ call.exit # "2" => recorded.proof
  BY DEF CandidateInv, CustodyFits
<1>2. at = "returned" /\ call.exit = "0" =>
        /\ recorded.archive.state = "ready" \/ call.cleanupOnly
        /\ guarded /\ ~call.cleanupOnly => recorded.hotel.verified
  BY DEF CandidateInv, SuccessFits
<1>3. machines # "none" =>
        recorded.state \notin {"unwritten", "queued"} /\ "active" \in {recorded.contract, recorded.source}
  <2>1. CustodyFor(recorded) /\ recorded.contract \in Traces
    BY DEF CandidateInv, CustodyFits, CandidateTyped, Jobs
  <2>2. QED
    BY <2>1 DEF CustodyFor, Traces
<1>4. QED
  BY <1>1, <1>2, <1>3 DEF CandidateIsProved

-------------------------------------------------------------------------------
(* Latches and Pods.                                                       *)

\* Only a gate that is released begins what its latch announces.
Releases ==
  /\ Mode \in files.latches /\ released[Mode] = 0
  /\ released' = [released EXCEPT ![Mode] = 1] /\ UNCHANGED files

LatchesGrow == UNCHANGED released /\ files.latches \subseteq files'.latches

LEMMA ReleaseBegins ==
  ASSUME CandidateInv, ReleaseGate
  PROVE  Releases \/ LatchesGrow
<1>1. CASE UNCHANGED released
  BY <1>1 DEF ReleaseGate, LatchesGrow
<1>2. CASE released' # released
  <2>1. /\ at = "release" /\ jobPods[Mode] = "gated" /\ UNCHANGED files
        /\ released' = [released EXCEPT ![Mode] = @ + 1]
    BY <1>2 DEF ReleaseGate, Gated
  <2>2. /\ Mode \in Modes /\ Mode \in files.latches /\ released \in [Modes -> {0, 1}]
        /\ released[Mode] > 0 <=> jobPods[Mode] \in {"released", "succeeded", "failed"}
    BY <2>1 DEF CandidateInv, JournalFits, Mode, Modes
  <2>3. released[Mode] = 0
    BY <2>1, <2>2
  <2>4. QED
    BY <2>1, <2>2, <2>3 DEF Releases
<1>3. QED
  BY <1>1, <1>2

LEMMA HotelLatches ==
  ASSUME CandidateInv, HotelStep
  PROVE  Releases \/ LatchesGrow
<1>1. files \in [events : 0..6, latches : SUBSET Modes]
  BY DEF CandidateInv, JournalFits
<1>2. CASE OpenJournal \/ RecordBlockedPods
  BY <1>1, <1>2 DEF OpenJournal, RecordBlockedPods, LatchesGrow
<1>3. CASE RecordIntent \/ RecordExit
  BY <1>1, <1>3 DEF RecordIntent, RecordExit, LatchesGrow
<1>4. CASE MakeLatch
  BY <1>1, <1>4 DEF MakeLatch, LatchesGrow
<1>5. CASE ReleaseGate
  BY <1>5, ReleaseBegins
<1>6. CASE UNCHANGED <<files, released>>
  BY <1>6 DEF LatchesGrow
<1>7. QED
  BY <1>2, <1>3, <1>4, <1>5, <1>6 DEF HotelStep, StartHotel, BeginPods, CreatePods, CheckGate, SaveIntent,
     AwaitPod, FinishHotel, FailHotel, initialization

LEMMA CandidateLatches ==
  ASSUME CandidateInv, CandidateStep
  PROVE  Releases \/ LatchesGrow
<1>1. CASE HotelStep
  BY <1>1, HotelLatches
<1>2. CASE UNCHANGED <<files, released>>
  BY <1>2 DEF LatchesGrow
<1>3. CASE OperatorStep
  BY <1>1, <1>2, <1>3 DEF OperatorStep, Allocate, Accept, AcceptResume, BeginProvisioning, SaveContract, Provision,
     AdoptCloud, PrepareRuntime, ObserveSupport, BeginTeardown, ArchiveStage, RemoveStage, BeginCleaning,
     SaveSource, RefuseReplaced, Delete, ClearContract, ProveAbsence, Finish, Return, initialization
<1>4. CASE Around
  BY <1>2, <1>4 DEF Around, Defer, Replace, initialization
<1>5. CASE StartResume \/ StartCleanup \/ Settle \/ PodEnds
  BY <1>2, <1>5 DEF StartResume, StartCleanup, Settle, PodEnds, initialization
<1>6. QED
  BY <1>3, <1>4, <1>5 DEF CandidateStep

\* Which the abstract journal allows.
LEMMA CandidateDispatches ==
  ASSUME CandidateInv, CandidateInv', CandidateStep
  PROVE  Dispatch!Next
<1>1. CASE Releases
  <2>1. Mode \in Modes
    BY DEF Mode, Modes
  <2>2. QED
    BY <1>1, <2>1 DEF Releases, Dispatch!Next, Dispatch!Begin
<1>2. CASE LatchesGrow
  <2>1. files'.latches \subseteq Modes
    BY DEF CandidateInv, JournalFits
  <2>2. QED
    BY <1>2, <2>1 DEF LatchesGrow, Dispatch!Next, Dispatch!Latch
<1>3. QED
  BY <1>1, <1>2, CandidateLatches

-------------------------------------------------------------------------------
(* Evidence.                                                               *)

\* What a step does to the journal of the stage and to its copy.
Preserves ==
  \/ recorded' = recorded
  \/ /\ recorded' = candidate' /\ at \notin Ended
     /\ \/ candidate'.archive = candidate.archive
        \/ candidate.stage # NoStage /\ candidate'.stage = candidate.stage
             /\ candidate.archive \in {NoStage, candidate'.archive}
     /\ candidate'.stage = NoStage => candidate.stage = NoStage \/ at = "removeKey"

LEMMA StageAndHotelPreserve ==
  ASSUME CandidateInv, (StageStep /\ UNCHANGED initialization) \/ HotelStep
  PROVE  Preserves
<1>1. CASE (StageStep /\ UNCHANGED initialization)
  <2>1. StageWorks
    BY <1>1, StageHoldsAll
  <2>2. at \notin Ended
    BY <2>1 DEF StageWorks, StagePlaces, Ended
  <2>3. candidate'.stage = NoStage => candidate.stage = NoStage
    BY <2>1, EmptyRecords DEF StageWorks
  <2>4. QED
    BY <2>1, <2>2, <2>3 DEF StageWorks, SameCustody, Preserves
<1>2. CASE HotelStep
  <2>1. HotelWorks
    BY <1>2, HotelHoldsAll
  <2>2. at \notin Ended
    BY <2>1 DEF HotelWorks, HotelPlaces, Ended
  <2>3. QED
    BY <2>1, <2>2 DEF HotelWorks, SameCustody, Preserves
<1>3. QED
  BY <1>1, <1>2

\* A job that has both as before is saved.
LEMMA SameJobPreserves ==
  ASSUME NEW job, candidate' = job, recorded' \in {recorded, job}, at \notin Ended,
         job.stage = candidate.stage, job.archive = candidate.archive
  PROVE  Preserves
BY DEF Preserves

LEMMA SaveJobPreserves ==
  ASSUME at \notin Ended, NEW job, NEW next, SaveJob(job, next),
         job.stage = candidate.stage, job.archive = candidate.archive
  PROVE  Preserves
BY SameJobPreserves DEF SaveJob

LEMMA SaveOrPreserves ==
  ASSUME at \notin Ended, NEW job, NEW next, NEW otherwise, SaveOr(job, next, otherwise),
         job.stage = candidate.stage, job.archive = candidate.archive
  PROVE  Preserves
BY SameJobPreserves DEF SaveOr

\* A job with another state, identity or trace has both as before.
LEMMA JobsKeepBoth ==
  ASSUME NEW job \in Jobs
  PROVE  /\ \A x : [job EXCEPT !.state = x].stage = job.stage /\ [job EXCEPT !.state = x].archive = job.archive
         /\ \A x : [job EXCEPT !.contract = x].stage = job.stage /\ [job EXCEPT !.contract = x].archive = job.archive
         /\ \A x : [job EXCEPT !.source = x].stage = job.stage /\ [job EXCEPT !.source = x].archive = job.archive
BY DEF Jobs

\* The steps of the operator up to cleanup, ...
LEMMA WorkPreserves ==
  ASSUME CandidateInv, Allocate \/ Accept \/ AcceptResume \/ BeginProvisioning \/ SaveContract \/ Provision
                         \/ AdoptCloud \/ PrepareRuntime \/ ObserveSupport
  PROVE  Preserves
<1>1. at \notin Ended
  BY DEF Allocate, Accept, AcceptResume, BeginProvisioning, SaveContract, Provision, AdoptCloud, PrepareRuntime,
     ObserveSupport, Ended
<1>2. candidate \in Jobs
  BY DEF CandidateInv, CandidateTyped
<1>3. \A x : With(x).stage = candidate.stage /\ With(x).archive = candidate.archive
  BY <1>2, JobsKeepBoth DEF With
<1>4. CASE recorded' = recorded
  BY <1>4 DEF Preserves
<1>5. CASE Allocate
  BY <1>1, <1>5, SaveJobPreserves DEF Allocate
<1>6. CASE Accept \/ BeginProvisioning \/ PrepareRuntime \/ ObserveSupport
  BY <1>1, <1>3, <1>4, <1>6, SaveJobPreserves
     DEF Accept, BeginProvisioning, PrepareRuntime, ObserveSupport, Cannot
<1>7. CASE AcceptResume
  <2> DEFINE job == [With("accepted") EXCEPT !.proof = FALSE]
  <2>1. job.stage = candidate.stage /\ job.archive = candidate.archive
    BY <1>2 DEF With, Jobs
  <2> HIDE DEF job
  <2>2. SaveJob(job, "adopt") \/ recorded' = recorded
    BY <1>7 DEF AcceptResume, Cannot, job
  <2>3. QED
    BY <1>1, <1>4, <2>1, <2>2, SaveJobPreserves
<1>8. CASE SaveContract
  BY <1>1, <1>2, <1>8, JobsKeepBoth, SaveJobPreserves DEF SaveContract
<1>9. CASE AdoptCloud
  <2> DEFINE job == [With("preparing_runtime") EXCEPT !.identity = Identity]
  <2>1. job.stage = candidate.stage /\ job.archive = candidate.archive
    BY <1>2 DEF With, Jobs
  <2> HIDE DEF job
  <2>2. SaveJob(job, "prepare") \/ recorded' = recorded
    BY <1>9 DEF AdoptCloud, Cannot, job
  <2>3. QED
    BY <1>1, <1>4, <2>1, <2>2, SaveJobPreserves
<1>10. CASE Provision
  BY <1>4, <1>10 DEF Provision
<1>11. QED
  BY <1>5, <1>6, <1>7, <1>8, <1>9, <1>10

\* ... those of cleanup ...
LEMMA TeardownPreserves ==
  ASSUME CandidateInv, BeginTeardown \/ ArchiveStage \/ RemoveStage \/ BeginCleaning \/ SaveSource \/ RefuseReplaced
                         \/ Delete \/ ClearContract \/ ProveAbsence \/ Finish \/ Return
  PROVE  Preserves
<1>1. at \notin Ended
  BY DEF BeginTeardown, ArchiveStage, RemoveStage, BeginCleaning, SaveSource, RefuseReplaced, Delete, ClearContract,
     ProveAbsence, Finish, Return, Ended
<1>2. candidate \in Jobs /\ \A x : With(x).stage = candidate.stage /\ With(x).archive = candidate.archive
  <2>1. candidate \in Jobs
    BY DEF CandidateInv, CandidateTyped
  <2>2. QED
    BY <2>1, JobsKeepBoth DEF With
<1>3. CASE recorded' = recorded
  BY <1>3 DEF Preserves
<1>4. CASE BeginTeardown
  <2> DEFINE job == [With("cleanup_pending") EXCEPT !.proof = FALSE]
  <2>1. job.stage = candidate.stage /\ job.archive = candidate.archive
    BY <1>2 DEF With, Jobs
  <2> HIDE DEF job
  <2>2. SaveOr(job, "archive", "clean")
    BY <1>4 DEF BeginTeardown, job
  <2>3. QED
    BY <1>1, <2>1, <2>2, SaveOrPreserves
<1>5. CASE ArchiveStage
  <2>1. CASE candidate.stage # NoStage /\ candidate.archive \in {NoStage, candidate.stage}
    <3> DEFINE job == [candidate EXCEPT !.archive = candidate.stage]
    <3>1. job.stage = candidate.stage /\ job.archive = candidate.stage
      BY <1>2 DEF Jobs
    <3> HIDE DEF job
    <3>2. SaveOr(job, "removeKey", "clean")
      BY <1>5, <2>1 DEF ArchiveStage, job
    <3>3. candidate' = job /\ recorded' \in {recorded, job}
      BY <3>2 DEF SaveOr
    <3>4. QED
      BY <1>1, <1>3, <2>1, <3>1, <3>3 DEF Preserves
  <2>2. CASE ~(candidate.stage # NoStage /\ candidate.archive \in {NoStage, candidate.stage})
    BY <1>3, <1>5, <2>2 DEF ArchiveStage
  <2>3. QED
    BY <2>1, <2>2
<1>6. CASE RemoveStage
  <2> DEFINE job == [candidate EXCEPT !.stage = NoStage]
  <2>1. job.archive = candidate.archive
    BY <1>2 DEF Jobs
  <2> HIDE DEF job
  <2>2. at = "removeKey" /\ candidate' = job /\ recorded' \in {recorded, job}
    BY <1>6 DEF RemoveStage, SaveOr, job
  <2>3. QED
    BY <1>1, <1>3, <2>1, <2>2 DEF Preserves
<1>7. CASE BeginCleaning
  BY <1>1, <1>2, <1>7, SaveOrPreserves DEF BeginCleaning
<1>8. CASE SaveSource
  BY <1>1, <1>2, <1>3, <1>8, JobsKeepBoth, SaveOrPreserves DEF SaveSource
<1>9. CASE ClearContract
  BY <1>1, <1>2, <1>9, JobsKeepBoth, SaveOrPreserves DEF ClearContract
<1>10. CASE Finish
  <2> DEFINE w == With(IF Complete THEN "cleanup_complete" ELSE "cleanup_failed")
             job == [w EXCEPT !.proof = Complete]
  <2>1. job.stage = candidate.stage /\ job.archive = candidate.archive
    BY <1>2 DEF With, Jobs
  <2> HIDE DEF job
  <2>2. SaveOr(job, "late", "late")
    BY <1>10 DEF Finish, job
  <2>3. QED
    BY <1>1, <2>1, <2>2, SaveOrPreserves
<1>11. CASE RefuseReplaced \/ Delete \/ ProveAbsence \/ Return
  BY <1>3, <1>11 DEF RefuseReplaced, Delete, ProveAbsence, Return
<1>12. QED
  BY <1>4, <1>5, <1>6, <1>7, <1>8, <1>9, <1>10, <1>11

\* ... and all of them.
LEMMA CandidatePreserves ==
  ASSUME CandidateInv, CandidateStep
  PROVE  Preserves
<1>1. CASE recorded' = recorded
  BY <1>1 DEF Preserves
<1>2. CASE OperatorStep
  BY <1>2, WorkPreserves, TeardownPreserves, StageAndHotelPreserve DEF OperatorStep
<1>3. CASE Around
  BY <1>1, <1>3 DEF Around, Interrupt, Die, DieApplying, Leftover, Meddle, Defer, Replace, state
<1>4. CASE StartResume \/ StartCleanup \/ Settle \/ PodEnds
  BY <1>1, <1>4 DEF StartResume, StartCleanup, Settle, PodEnds, state
<1>5. QED
  BY <1>2, <1>3, <1>4 DEF CandidateStep

\* The journal of the stage only leaves for its copy, which stays.
LEMMA ArchiveHolds ==
  ASSUME CandidateInv, Preserves
  PROVE  /\ recorded.stage # NoStage /\ recorded'.stage = NoStage => recorded'.archive = recorded.stage
         /\ recorded.archive # NoStage => recorded'.archive = recorded.archive
<1>1. CASE recorded' = recorded
  BY <1>1
<1>2. CASE recorded' # recorded
  <2>1. /\ recorded' = candidate' /\ at \notin Ended
        /\ \/ candidate'.archive = candidate.archive
           \/ candidate.stage # NoStage /\ candidate'.stage = candidate.stage
                /\ candidate.archive \in {NoStage, candidate'.archive}
        /\ candidate'.stage = NoStage => candidate.stage = NoStage \/ at = "removeKey"
    BY <1>2 DEF Preserves
  <2>2. /\ at \notin Teardown /\ recorded.stage # NoStage => candidate.stage # NoStage
        /\ at \in Teardown /\ candidate.stage = NoStage /\ recorded.stage # NoStage => candidate.archive = recorded.stage
        /\ recorded.archive # NoStage => candidate.archive = recorded.archive
        /\ at = "removeKey" => recorded = candidate /\ candidate.archive = candidate.stage
    BY <2>1 DEF CandidateInv, ArchiveFits
  <2>3. recorded.archive # NoStage => recorded'.archive = recorded.archive
    BY <2>1, <2>2
  <2>4. ASSUME recorded.stage # NoStage, recorded'.stage = NoStage
        PROVE  recorded'.archive = recorded.stage
    <3>1. candidate'.archive = candidate.archive /\ (candidate.stage = NoStage \/ at = "removeKey")
      BY <2>1, <2>4
    <3>2. candidate.archive = recorded.stage
      BY <2>2, <2>4, <3>1
    <3>3. QED
      BY <2>1, <3>1, <3>2
  <2>5. QED
    BY <2>3, <2>4
<1>3. QED
  BY <1>1, <1>2

\* Directories that were opened are not prepared again.
LEMMA OpenedHolds ==
  ASSUME CandidateInv, CandidateStep, databases = "opened", databases' # "opened"
  PROVE  live' = EmptyCluster
<1>1. ~PrepareDatabases
  <2>1. at \in {"prepareStorage", "storagePrepared"} => ~candidate.stage.prepared
    BY DEF CandidateInv, DatabasesFit
  <2>2. at \in Ended \cup Teardown \/ candidate.stage.prepared
    BY DEF CandidateInv, DatabasesFit
  <2>3. at # "prepareStorage"
    BY <2>1, <2>2 DEF Ended, Teardown
  <2>4. QED
    BY <2>3 DEF PrepareDatabases
<1>2. ~(databases' = databases) /\ ~UNCHANGED stageCluster
  BY DEF stageCluster
<1>3. ~StageStep
  BY <1>1, <1>2 DEF StageStep, OpenStage, AttestTarget, BeginDatabases, RecordStorage, RevisitPhases,
     ReconcilePhase, BeginApply, SendPhase, RecordPhase, AttestSupport, OpenedBy
<1>4. ~HotelStep
  BY <1>2, HotelHoldsAll DEF HotelWorks
<1>5. Delete
  <2>1. ~Around
    BY <1>2 DEF Around, DieApplying, Leftover, OpenedBy, Meddle, Defer, Replace
  <2>2. ~(StartResume \/ StartCleanup \/ Settle \/ PodEnds)
    BY <1>2 DEF StartResume, StartCleanup, Settle, PodEnds
  <2>3. OperatorStep
    BY <2>1, <2>2 DEF CandidateStep
  <2>4. QED
    BY <1>2, <1>3, <1>4, <2>3 DEF OperatorStep, Allocate, Accept, AcceptResume, BeginProvisioning, SaveContract,
       Provision, AdoptCloud, PrepareRuntime, ObserveSupport, BeginTeardown, ArchiveStage, RemoveStage,
       BeginCleaning, SaveSource, RefuseReplaced, ClearContract, ProveAbsence, Finish, Return
<1>6. QED
  BY <1>2, <1>5 DEF Delete

LEMMA EvidenceStays ==
  ASSUME CandidateInv, CandidateStep
  PROVE  /\ recorded.stage # NoStage /\ recorded'.stage = NoStage => recorded'.archive = recorded.stage
         /\ recorded.archive # NoStage => recorded'.archive = recorded.archive
         /\ files.latches \subseteq files'.latches
         /\ databases = "opened" /\ databases' # "opened" => live' = EmptyCluster
<1>1. /\ recorded.stage # NoStage /\ recorded'.stage = NoStage => recorded'.archive = recorded.stage
      /\ recorded.archive # NoStage => recorded'.archive = recorded.archive
  BY CandidatePreserves, ArchiveHolds
<1>2. files.latches \subseteq files'.latches
  BY CandidateLatches DEF Releases, LatchesGrow
<1>3. QED
  BY <1>1, <1>2, OpenedHolds

-------------------------------------------------------------------------------
(* What follows for the candidate run.                                     *)

LEMMA CandidateAlone ==
  ASSUME [RunNext]_run
  PROVE  CandidateStep \/ UNCHANGED candidateRun
BY DEF RunNext, Work, Awaited, Passing, Later, Distributed, CompactRun, Candidate, Operator, run, CandidateStep

\* The invariant of the candidate run, at every step of every program.
THEOREM CandidateInvHolds == RunSpec => []CandidateInv
<1>1. RunInit => CandidateInv
  BY CandidateBegins DEF RunInit
<1>2. CandidateInv /\ [RunNext]_run => CandidateInv'
  BY CandidateAlone, CandidateStepsHold, CandidateStays
<1>3. QED
  BY <1>1, <1>2, PTL DEF RunSpec

\* What state.json of a candidate says of phases, storage and the Hotel dataset has
\* happened: phases on record are there unless somebody took them, and the dataset
\* was untouched, loaded or verified when it says so, whatever fails or dies.
THEOREM CandidateRecordsHold == RunSpec => []RecordsAreEvidence
<1>1. CandidateInv => RecordsAreEvidence
  BY EvidenceFollows
<1>2. QED
  BY <1>1, CandidateInvHolds, PTL

\* The record of a candidate says that cleanup is complete only when nothing is left,
\* no exit but 2 says less, and what is left is always named by state.json.
THEOREM CandidateCleanupIsProved == RunSpec => []CandidateIsProved
<1>1. CandidateInv => CandidateIsProved
  BY ProofFollows
<1>2. QED
  BY <1>1, CandidateInvHolds, PTL

\* The journal of the stage leaves state.json only for its copy, the copy and the
\* latches stay, and directories that support Pods have opened are not prepared again.
THEOREM StageEvidenceStays == RunSpec => StageEvidenceIsKept
<1>1. CandidateInv /\ [RunNext]_run =>
        [/\ recorded.stage # NoStage /\ recorded'.stage = NoStage => recorded'.archive = recorded.stage
         /\ recorded.archive # NoStage => recorded'.archive = recorded.archive
         /\ files.latches \subseteq files'.latches
         /\ databases = "opened" /\ databases' # "opened" => live' = EmptyCluster]_candidateRun
  BY CandidateAlone, EvidenceStays
<1>2. QED
  BY <1>1, CandidateInvHolds, PTL DEF RunSpec, StageEvidenceIsKept

\* The initializer and the verifier of a Hotel candidate begin at most once, each
\* after its latch is on disk, across failures, lost answers and deaths.
THEOREM InitializationIsOneShot == RunSpec => InitializesOnce
<1>1. RunInit => Dispatch!Init
  BY DEF RunInit, CandidateInit, CandidateIdle, InitializationInit, Dispatch!Init
<1>2. CandidateInv /\ CandidateInv' /\ [RunNext]_run => [Dispatch!Next]_<<files.latches, released>>
  <2>1. UNCHANGED candidateRun => UNCHANGED <<files.latches, released>>
    BY DEF candidateRun, initialization
  <2>2. QED
    BY <2>1, CandidateAlone, CandidateDispatches
<1>3. QED
  BY <1>1, <1>2, CandidateInvHolds, PTL DEF RunSpec, InitializesOnce, Dispatch!Spec

-------------------------------------------------------------------------------
(* The qualification of a provider.                                        *)

\* Where a process can be: before its try statement, in the except handler, in the
\* finally clause, and after it.
Starting == {"create", "pin"}
Outside == {"idle", "ended"} \cup Starting
Unwinding == {"caught", "unwind", "record"}
Closing == {"late", "keep", "finalize"}
Removal == {"announce", "cleanup", "destroy", "proved", "undone"}
Points == Outside \cup TryBody \cup Unwinding \cup Removal \cup Closing

TrialStatuses ==
  TeardownStatuses \cup {"queued", "provisioning", "testing", "reporting", "unwritten"}
JournalStates ==
  {"none", "preparing_load_generator", "load_generator_ready", "initialization_started",
   "dataset_ready", "warmup_started", "warmup_complete", "measurement_started",
   "measurement_complete"}

\* A job of a qualification.
IsTrial(job) ==
  /\ DOMAIN job = {"status", "owns", "journal", "attested", "measured", "interrupted"}
  /\ job.status \in TrialStatuses
  /\ job.owns \in {"nothing", "owned", "retained"}
  /\ job.journal \in JournalStates
  /\ job.journal = "measurement_complete" => job.measured

\* What the process was asked, and what it will report.
IsCommand(a) ==
  /\ DOMAIN a = {"mode", "measure", "checkpoint", "hard", "signal", "failure", "setup",
                 "qualified", "evidenceError", "exit"}
  /\ a.mode \in {"none", "new", "resume", "cleanup"}
  /\ a.checkpoint \in {"none"} \cup Checkpoints
  /\ a.failure \in {"none", "error", "cancelled"}
  /\ a.signal \in {"none", "pending", "recorded", "lost"}
  /\ a.exit \in {"none", "0", "1", "2", "86", "130", "128+n", "killed", "traceback"}

IsEvidence(e) ==
  /\ DOMAIN e = {"source", "checkpoint", "hard", "state", "later", "cleanup", "recovery"}
  /\ Readable(e)

QualificationTyped ==
  /\ point \in Points
  /\ fleet \in {"none", "partial", "ready"}
  /\ IsTrial(trial) /\ IsTrial(kept) /\ IsCommand(command)
  /\ sent \in [OneShots -> {0, 1}]
  /\ Written => IsEvidence(evidence)

\* What the process knows of itself.
CommandFits ==
  /\ point \notin {"ended"} \cup Closing => command.exit = "none"
  /\ point \in Closing => command.exit \in {"none", "traceback"}
  /\ point \in Starting => command.mode = "new"
  /\ point \in TryBody \cup Unwinding => command.mode \in {"new", "resume"}
  /\ point = "announce" => command.mode = "cleanup"
  /\ point \in TryBody \cup Starting => command.failure = "none" /\ command.signal = "none"
  /\ point = "caught" => command.failure # "none"
  /\ point \in {"record", "keep"} => command.signal # "none"

\* What the provider has belongs to a job that loads, and to the one in memory.
FleetFits ==
  /\ point \notin Outside => Loadable
  /\ point # "ended" => trial.status # "unwritten"
  /\ fleet # "none" => Loadable /\ kept.owns = "owned" /\ kept.status # "destroyed"
  /\ fleet # "none" /\ point # "ended" =>
       /\ trial.owns = "owned" /\ trial.status # "destroyed"
       /\ point \notin {"idle", "create", "pin", "proved"}
  /\ point \in TryBody \cup Starting => trial.status \notin TeardownStatuses
  /\ point \in TryBody \ {"begin", "admit", "own"} => trial.owns = "owned"

\* The job in memory and the saved one.
SavedFits ==
  /\ point \in TryBody \cup {"pin", "announce"} => kept = trial
  /\ point \in Closing /\ command.exit = "none" =>
       kept.status = trial.status /\ (command.signal = "none" => kept = trial)
  /\ point \notin {"idle", "ended"} => Place(kept.journal) <= Place(trial.journal)

\* What was measured when the process reports a success.
Succeeds ==
  /\ command.qualified /\ command.measure /\ command.mode # "cleanup"
  /\ command.failure = "none" /\ command.signal = "none"

Unsent(s) == point \in {"checkpoint", "send"} /\ trial.journal = s

\* The journal and the steps that were sent.
SendsFit ==
  /\ \A s \in OneShots : sent[s] = 1 => Place(s) <= Place(kept.journal)
  /\ point \in TryBody \cup Starting =>
       \A s \in OneShots : sent[s] = 1 <=> Place(s) <= Place(trial.journal) /\ ~Unsent(s)
  /\ point = "checkpoint" => trial.journal \in Checkpoints
  /\ point = "send" => trial.journal \in OneShots
  /\ point \in Starting \cup {"begin", "admit", "own", "provision", "runtime", "paths"} =>
       Replayable(trial.journal)
  /\ point \in {"report", "qualify"} /\ command.measure =>
       trial.journal = "measurement_complete" /\ ~trial.interrupted
  /\ point \notin TryBody \cup Outside \cup {"record", "keep"} /\ Succeeds =>
       trial.measured /\ ~trial.interrupted /\ \A s \in OneShots : sent[s] = 1

EvidenceFits ==
  /\ Written /\ evidence.cleanup = "completed" => point = "ended" /\ kept.status = "destroyed"
  /\ point \in TryBody /\ Written => Replayable(EvidenceState(evidence))
  /\ command.mode = "new" /\ point # "ended" /\ evidence # NoEvidence =>
       command.failure # "none" \/ command.signal # "none"

\* The exit status.
ExitFits ==
  point = "ended" =>
    /\ command.exit \in {"0", "1", "130", "128+n"} => fleet = "none" /\ kept.status = "destroyed"
    /\ command.exit = "0" /\ command.mode # "cleanup" =>
         /\ command.qualified /\ command.signal = "none"
         /\ (command.measure =>
               kept.measured /\ ~kept.interrupted /\ \A s \in OneShots : sent[s] = 1)
         /\ (Written => evidence.cleanup = "completed" /\ evidence.recovery = "resume_completed")

QualificationInv ==
  /\ QualificationTyped /\ CommandFits /\ FleetFits /\ SavedFits /\ SendsFit /\ EvidenceFits
  /\ ExitFits

-------------------------------------------------------------------------------

\* The places of the states in the journal, as numbers.
LEMMA PlacesInOrder ==
  /\ Place("none") = 1 /\ Place("preparing_load_generator") = 2
  /\ Place("load_generator_ready") = 3 /\ Place("initialization_started") = 4
  /\ Place("dataset_ready") = 5 /\ Place("warmup_started") = 6 /\ Place("warmup_complete") = 7
  /\ Place("measurement_started") = 8 /\ Place("measurement_complete") = 9
BY DEF Place, Journal

LEMMA JournalRange == Range(Journal) = JournalStates
BY DEF Range, Journal, JournalStates

LEMMA PlacesAreNumbers == \A s \in JournalStates : Place(s) \in 1..9
BY PlacesInOrder DEF JournalStates

LEMMA PlacesDiffer == \A s, r \in JournalStates : Place(s) = Place(r) => s = r
BY PlacesInOrder DEF JournalStates

\* The state behind one that is not the last.
LEMMA JournalNext ==
  ASSUME NEW s \in JournalStates \ {"measurement_complete"}
  PROVE  /\ Journal[Place(s) + 1] \in JournalStates
         /\ Place(Journal[Place(s) + 1]) = Place(s) + 1
BY PlacesInOrder DEF JournalStates, Journal

\* What a reader of the records needs follows from the invariant.
LEMMA QualificationImplied == QualificationInv => FleetIsProved
BY DEF QualificationInv, QualificationTyped, EvidenceFits, ExitFits, FleetFits, FleetIsProved,
       IsEvidence

\* A process begins without a failure, a signal or an exit status.
LEMMA InvokedCommands ==
  ASSUME NEW m \in {"new", "resume"}, NEW a \in Options
  PROVE  /\ IsCommand(Invoked(m, a)) /\ Invoked(m, a).mode = m /\ Invoked(m, a).exit = "none"
         /\ Invoked(m, a).failure = "none" /\ Invoked(m, a).signal = "none"
BY DEF Invoked, NoAttempt, IsCommand, Options

LEMMA QualificationStarts ==
  QualificationInit \/ QualificationIdle => QualificationInv
<1> SUFFICES ASSUME QualificationInit \/ QualificationIdle PROVE QualificationInv
  OBVIOUS
<1>1. IsTrial(trial) /\ IsTrial(kept) /\ trial.journal = "none" /\ kept.journal = "none"
      /\ trial.status = "queued"
  BY DEF IsTrial, NewTrial, QualificationInit, QualificationIdle, TrialStatuses, JournalStates
<1>2. IsCommand(command) /\ (point = "create" => command.mode = "new") /\ command.exit = "none"
      /\ command.failure = "none" /\ command.signal = "none"
  <2>1. CASE QualificationIdle
    BY <2>1 DEF IsCommand, NoAttempt, QualificationIdle
  <2>2. CASE QualificationInit
    BY <2>2, InvokedCommands DEF IsCommand, QualificationInit
  <2> QED
    BY <2>1, <2>2
<1>3. /\ point \in {"idle", "create"} /\ fleet = "none" /\ evidence = NoEvidence
      /\ sent = [s \in OneShots |-> 0]
  BY DEF QualificationInit, QualificationIdle
<1>4. QualificationTyped
  BY <1>1, <1>2, <1>3 DEF QualificationTyped, Written, Points, Outside, Starting
<1> QED
  BY <1>1, <1>2, <1>3, <1>4, PlacesInOrder
     DEF QualificationInv, CommandFits, FleetFits, SavedFits, SendsFit, EvidenceFits, ExitFits,
         Outside, Starting, Unwinding, Closing, TryBody, Written, NewTrial, Replayable,
         TeardownStatuses, OneShots, Unsent

-------------------------------------------------------------------------------

\* What a step that changes the job must not lose.
JobKept ==
  /\ IsTrial(trial') /\ kept' \in {kept, trial'}
  /\ Place(trial.journal) <= Place(trial'.journal)
  /\ trial'.status # "unwritten"
  /\ fleet # "none" => trial'.owns = "owned" /\ trial'.status # "destroyed"
  /\ point \notin TryBody /\ trial.measured /\ ~trial.interrupted /\ command.signal = "none" =>
       trial'.measured /\ (command.failure # "cancelled" => ~trial'.interrupted)

\* A step that leaves the job alone, or saves it as it is.
LEMMA TrialRests ==
  ASSUME QualificationInv, point \notin {"idle", "ended"}, trial' = trial, kept' \in {kept, trial}
  PROVE  JobKept
BY PlacesAreNumbers DEF JobKept, QualificationInv, QualificationTyped, FleetFits, IsTrial

\* Where an exception takes the process.
Thrown ==
  /\ IsCommand(command') /\ command'.mode = command.mode
  /\ point' \in {"caught", "unwind", "cleanup", "undone", "late", "ended"}
  /\ point' = "ended" => command'.exit = "traceback"
  /\ point' = "late" => command.mode = "cleanup" /\ command'.exit = "traceback"
  /\ point' \notin {"late", "ended"} => command'.exit = "none"
  /\ point' \in {"caught", "unwind"} =>
       command.mode \in {"new", "resume"} /\ command'.failure # "none"
  /\ point' = "cleanup" => command'.signal # "none"
  /\ point' = "undone" =>
       command'.failure # "none" \/ (point = "proved" /\ command' = command)
  /\ point \in {"create", "pin"} => point' = "ended"

\* An exception, or a signal that raises one, leads to the handler around the place.
LEMMA Throws ==
  ASSUME QualificationInv, point \notin {"idle", "ended"}, NEW f \in {"error", "cancelled"}, NEW a,
         IsCommand(a), a.mode = command.mode, a.exit = command.exit, a.failure = command.failure,
         f = "error" => a = command \/ point \in TryBody,
         Raised(f, a)
  PROVE  Thrown
<1> USE DEF QualificationInv, QualificationTyped
<1>1. CASE point \in TryBody
  BY <1>1 DEF Raised, Thrown, TryBody, CommandFits, IsCommand, Closing
<1>2. CASE point = "caught"
  BY <1>2 DEF Raised, Thrown, TryBody, CommandFits, IsCommand, Closing, Unwinding
<1>3. CASE point = "record"
  BY <1>3 DEF Raised, Thrown, TryBody, CommandFits, IsCommand, Closing
<1>4. CASE point \in {"announce", "cleanup", "destroy", "proved"} /\ f = "cancelled"
  BY <1>4 DEF Raised, Retains, Thrown, TryBody, CommandFits, IsCommand, Closing
<1>5. ASSUME Escapes, point \notin TryBody PROVE Thrown
  BY <1>5 DEF Escapes, Thrown, TryBody, CommandFits, IsCommand, Starting
<1>6. CASE point = "proved" /\ f = "error"
  BY <1>5, <1>6 DEF Raised, Retains, Thrown, TryBody, CommandFits, IsCommand, Closing
<1>7. CASE /\ point \notin TryBody \cup {"caught", "record"}
           /\ ~(point \in {"announce", "cleanup", "destroy", "proved"} /\ f = "cancelled")
           /\ ~(point = "proved" /\ f = "error")
  BY <1>5, <1>7 DEF Raised
<1> QED
  BY <1>1, <1>2, <1>3, <1>4, <1>6, <1>7

\* What the evidence of a process that goes on may become.
EvidenceKept ==
  /\ Written' => IsEvidence(evidence') /\ evidence'.cleanup # "completed"
  /\ evidence' = evidence \/ point \in TryBody

LEMMA EvidenceRests ==
  ASSUME QualificationInv, point # "ended", evidence' = evidence
  PROVE  EvidenceKept
BY DEF EvidenceKept, QualificationInv, QualificationTyped, EvidenceFits, Written

\* After an exception the invariant holds, whatever the process was about to do.
LEMMA ThrownProcessesFit ==
  ASSUME QualificationInv, point \notin {"idle", "ended"}, Thrown, JobKept, EvidenceKept,
         UNCHANGED <<driver, pinFile, fleet, sent>>
  PROVE  QualificationInv'
<1> USE DEF QualificationInv
<1>1. QualificationTyped'
  BY DEF QualificationTyped, Thrown, JobKept, EvidenceKept, Points, Unwinding, Removal, Closing,
         Outside
<1>2. CommandFits'
  BY DEF CommandFits, Thrown, Closing, Unwinding, TryBody, Starting
<1>3. FleetFits'
  BY DEF FleetFits, Thrown, JobKept, Outside, Starting, TryBody, Loadable
<1>4. SavedFits'
  BY PlacesAreNumbers DEF SavedFits, Thrown, JobKept, Closing, TryBody, QualificationTyped, IsTrial
<1>5. SendsFit'
  <2>1. \A s \in OneShots : sent'[s] = 1 => Place(s) <= Place(kept'.journal)
    BY PlacesAreNumbers, PlacesInOrder
       DEF SendsFit, SavedFits, JobKept, QualificationTyped, IsTrial, OneShots
  <2>2. point' \notin {"ended", "late"} /\ Succeeds' =>
          trial'.measured /\ ~trial'.interrupted /\ \A s \in OneShots : sent'[s] = 1
    BY DEF SendsFit, Succeeds, Thrown, JobKept, TryBody, Outside, Starting
  <2> QED
    BY <2>1, <2>2 DEF SendsFit, Thrown, TryBody, Outside, Starting, Succeeds
<1>6. EvidenceFits'
  BY DEF EvidenceFits, Thrown, JobKept, EvidenceKept, TryBody
<1>7. ExitFits'
  BY DEF ExitFits, Thrown
<1> QED
  BY <1>1, <1>2, <1>3, <1>4, <1>5, <1>6, <1>7

\* A save succeeds, or its exception is handled.
Saved(next) == kept' = trial' /\ point' = next /\ command' = command

\* A save of the job succeeds, or raises.
LEMMA SavesOrThrows ==
  ASSUME QualificationInv, point \notin {"idle", "ended"}, NEW job, NEW next, SaveTrial(job, next)
  PROVE  /\ trial' = job /\ kept' \in {kept, job}
         /\ Saved(next) \/ Thrown
BY Throws DEF SaveTrial, Saved, QualificationInv, QualificationTyped

\* Another status leaves the rest of the job.
LEMMA StatusOnly ==
  ASSUME QualificationInv, NEW s \in TrialStatuses
  PROVE  LET job == [trial EXCEPT !.status = s]
         IN  /\ IsTrial(job) /\ job.status = s /\ job.owns = trial.owns
             /\ job.journal = trial.journal
             /\ (job.measured <=> trial.measured) /\ (job.interrupted <=> trial.interrupted)
BY DEF QualificationInv, QualificationTyped, IsTrial

\* A save is only to be looked at when it succeeds; a failed one is an exception.
LEMMA SavesFit ==
  ASSUME QualificationInv, point \notin {"idle", "ended"}, NEW job, NEW next, SaveTrial(job, next),
         UNCHANGED <<driver, pinFile, fleet, evidence, sent>>,
         JobKept,
         Saved(next) /\ trial' = job => QualificationInv'
  PROVE  QualificationInv'
BY SavesOrThrows, EvidenceRests, ThrownProcessesFit

LEMMA NewJobFits ==
  ASSUME QualificationInv, NewJob
  PROVE  QualificationInv'
<1> DEFINE next == IF driver = "aws_oci" THEN "pin" ELSE "begin"
<1>1. /\ point = "create" /\ SaveTrial(trial, next)
      /\ UNCHANGED <<driver, pinFile, fleet, evidence, sent>>
  BY DEF NewJob
<1>2. trial' = trial /\ JobKept
  BY <1>1, TrialRests, SavesOrThrows
<1>4. ASSUME Saved(next) PROVE QualificationInv'
  BY <1>1, <1>2, <1>4, PlacesAreNumbers
     DEF Saved, QualificationInv, QualificationTyped, CommandFits, FleetFits, SavedFits, SendsFit,
         EvidenceFits, ExitFits, Written, IsEvidence, Points, TryBody, Outside, Starting, Closing,
         Unwinding, Unsent, Replayable, IsTrial, IsCommand, Loadable, Succeeds, TeardownStatuses
<1> QED
  BY <1>1, <1>2, <1>4, SavesFit

LEMMA WriteProviderPinFits ==
  ASSUME QualificationInv, WriteProviderPin
  PROVE  QualificationInv'
  BY PlacesInOrder, PlacesAreNumbers
     DEF WriteProviderPin, Escapes, QualificationInv, QualificationTyped, CommandFits, FleetFits,
         SavedFits, SendsFit, EvidenceFits, ExitFits, Written, IsEvidence, Points, TryBody, Outside,
         Starting, Closing, Unwinding, Unsent, Replayable, IsCommand, Loadable, Succeeds,
         TeardownStatuses

\* What a step writes into the command of its process.
LEMMA CommandsChange ==
  ASSUME QualificationInv
  PROVE  /\ IsCommand([command EXCEPT !.setup = TRUE])
         /\ IsCommand([command EXCEPT !.qualified = TRUE])
         /\ IsCommand([command EXCEPT !.evidenceError = TRUE])
         /\ IsCommand([command EXCEPT !.signal = "lost", !.evidenceError = TRUE])
         /\ IsCommand([command EXCEPT !.signal = "recorded"])
BY DEF QualificationInv, QualificationTyped, IsCommand

\* An outcome of the recovery leaves the origin and the cleanup of the evidence.
LEMMA RecoveringFits ==
  ASSUME QualificationInv, NEW o
  PROVE  /\ Recovering(o) \in {NoEvidence, Damaged} <=> ~Written
         /\ ~Written => Recovering(o) = evidence
         /\ Written => /\ IsEvidence(Recovering(o)) /\ Recovering(o).recovery = o
                       /\ Recovering(o).cleanup = evidence.cleanup
                       /\ EvidenceState(Recovering(o)) = EvidenceState(evidence)
BY DEF QualificationInv, QualificationTyped, Written, IsEvidence, Recovering, Readable, NoEvidence,
       Damaged, EvidenceState

LEMMA AnnounceFits ==
  ASSUME QualificationInv, Announce
  PROVE  QualificationInv'
<1>1. evidence' \in {evidence, Recovering("cleanup_only_started")}
  BY DEF Announce
<1>2. IsCommand([command EXCEPT !.evidenceError = TRUE])
  BY CommandsChange
<1> QED
  BY <1>1, <1>2, RecoveringFits
     DEF Announce, QualificationInv, QualificationTyped, CommandFits, FleetFits, SavedFits,
         SendsFit, EvidenceFits, ExitFits, Written, IsEvidence, Points, TryBody, Outside, Starting,
         Closing, Unwinding, Removal, Unsent, Replayable, IsCommand, Loadable, Succeeds,
         TeardownStatuses

LEMMA EnterRunnerFits ==
  ASSUME QualificationInv, EnterRunner
  PROVE  QualificationInv'
<1> DEFINE e == IF command.mode = "resume" THEN Recovering("resume_started") ELSE evidence
<1>1. /\ evidence' \in {evidence, Recovering("resume_started")} /\ point = "begin"
      /\ command.mode # "resume" => evidence' = evidence
      /\ UNCHANGED <<driver, trial, kept, pinFile, fleet, sent>>
  BY DEF EnterRunner
<1>2. CASE Raised("error", command)
  <2>1. Thrown
    BY <1>1, <1>2, Throws DEF QualificationInv, QualificationTyped
  <2>2. JobKept
    BY <1>1, TrialRests
  <2>3. EvidenceKept
    BY <1>1, RecoveringFits
       DEF EvidenceKept, QualificationInv, QualificationTyped, EvidenceFits, TryBody, Written
  <2> QED
    BY <1>1, <2>1, <2>2, <2>3, ThrownProcessesFit
<1>3. CASE evidence' = e /\ point' = "admit" /\ command' = [command EXCEPT !.setup = TRUE]
  BY <1>1, <1>3, CommandsChange, RecoveringFits
     DEF QualificationInv, QualificationTyped, CommandFits, FleetFits, SavedFits, SendsFit,
         EvidenceFits, ExitFits, Written, IsEvidence, Points, TryBody, Outside, Starting, Closing,
         Unwinding, Removal, Unsent, Replayable, IsCommand, Loadable, Succeeds, TeardownStatuses
<1> QED
  BY <1>2, <1>3 DEF EnterRunner

LEMMA AdmitFits ==
  ASSUME QualificationInv, Admit
  PROVE  QualificationInv'
<1> DEFINE job == [trial EXCEPT !.status = "provisioning"]
<1>1. /\ point = "admit" /\ SaveTrial(job, "own") /\ trial' = job /\ kept' \in {kept, job}
      /\ UNCHANGED <<driver, pinFile, fleet, evidence, sent>>
  BY SavesOrThrows DEF Admit
<1>2. /\ IsTrial(job) /\ job.status = "provisioning" /\ job.owns = trial.owns
      /\ job.journal = trial.journal
  BY StatusOnly DEF TrialStatuses
<1> HIDE DEF job
<1>3. JobKept
  BY <1>1, <1>2, PlacesAreNumbers DEF JobKept, QualificationInv, IsTrial, FleetFits, TryBody
<1>4. ASSUME Saved("own") PROVE QualificationInv'
  BY <1>1, <1>2, <1>4
     DEF Saved, QualificationInv, QualificationTyped, CommandFits, FleetFits, SavedFits, SendsFit,
         EvidenceFits, ExitFits, Written, IsEvidence, Points, TryBody, Outside, Starting, Closing,
         Unwinding, Removal, Unsent, Replayable, IsCommand, Loadable, Succeeds, TeardownStatuses
<1> QED
  BY <1>1, <1>3, <1>4, SavesFit

LEMMA OwnFits ==
  ASSUME QualificationInv, Own
  PROVE  QualificationInv'
<1> DEFINE job == [trial EXCEPT !.owns = "owned"]
<1>1. /\ point = "own" /\ SaveTrial(job, "provision") /\ trial' = job /\ kept' \in {kept, job}
      /\ UNCHANGED <<driver, pinFile, fleet, evidence, sent>>
  BY SavesOrThrows DEF Own
<1>2. /\ IsTrial(job) /\ job.owns = "owned" /\ job.status = trial.status
      /\ job.journal = trial.journal
  BY DEF QualificationInv, QualificationTyped, IsTrial
<1> HIDE DEF job
<1>3. JobKept
  BY <1>1, <1>2, PlacesAreNumbers DEF JobKept, QualificationInv, IsTrial, FleetFits, TryBody
<1>4. ASSUME Saved("provision") PROVE QualificationInv'
  BY <1>1, <1>2, <1>4
     DEF Saved, QualificationInv, QualificationTyped, CommandFits, FleetFits, SavedFits, SendsFit,
         EvidenceFits, ExitFits, Written, IsEvidence, Points, TryBody, Outside, Starting, Closing,
         Unwinding, Removal, Unsent, Replayable, IsCommand, Loadable, Succeeds, TeardownStatuses
<1> QED
  BY <1>1, <1>3, <1>4, SavesFit

LEMMA ProvisionFleetFits ==
  ASSUME QualificationInv, ProvisionFleet
  PROVE  QualificationInv'
<1> DEFINE job == [trial EXCEPT !.status = "testing"]
<1>1. CASE fleet' = "partial" /\ UNCHANGED <<point, trial, kept, command>>
  BY <1>1
     DEF ProvisionFleet, QualificationInv, QualificationTyped, CommandFits, FleetFits, SavedFits,
         SendsFit, EvidenceFits, ExitFits, Written, IsEvidence, Points, Outside, Starting, Closing,
         Unwinding, Removal, Unsent, Replayable, IsCommand, Loadable, Succeeds, TeardownStatuses
<1>2. CASE fleet' = "ready" /\ SaveTrial(job, "runtime")
  <2>1. /\ point = "provision" /\ trial' = job /\ kept' \in {kept, job} /\ fleet # "none"
        /\ UNCHANGED <<driver, pinFile, evidence, sent>>
    BY <1>2, SavesOrThrows DEF ProvisionFleet
  <2>2. /\ IsTrial(job) /\ job.status = "testing" /\ job.owns = trial.owns
        /\ job.journal = trial.journal
    BY StatusOnly DEF TrialStatuses
  <2> HIDE DEF job
  <2>3. JobKept
    BY <2>1, <2>2, PlacesAreNumbers DEF JobKept, QualificationInv, IsTrial, FleetFits, TryBody
  <2>4. CASE Saved("runtime")
    BY <1>2, <2>1, <2>2, <2>4
       DEF Saved, QualificationInv, QualificationTyped, CommandFits, FleetFits, SavedFits, SendsFit,
           EvidenceFits, ExitFits, Written, IsEvidence, Points, TryBody, Starting, Closing,
           Unwinding, Removal, Unsent, Replayable, IsCommand, Loadable, Succeeds, TeardownStatuses
  <2>5. CASE Thrown
    BY <1>2, <2>1, <2>2, <2>3, <2>5
       DEF Thrown, QualificationInv, QualificationTyped, CommandFits, FleetFits, SavedFits,
           SendsFit, EvidenceFits, ExitFits, Written, IsEvidence, Points, TryBody, Outside,
           Starting, Closing, Unwinding, Removal, Unsent, Replayable, IsCommand, Loadable, Succeeds,
           TeardownStatuses
  <2> QED
    BY <1>2, <2>1, <2>4, <2>5, SavesOrThrows
<1> QED
  BY <1>1, <1>2 DEF ProvisionFleet

LEMMA PrepareWorkloadFits ==
  ASSUME QualificationInv, PrepareWorkload
  PROVE  QualificationInv'
BY DEF PrepareWorkload, QualificationInv, QualificationTyped, CommandFits, FleetFits, SavedFits,
       SendsFit, EvidenceFits, ExitFits, Written, IsEvidence, Points, TryBody, Outside, Starting,
       Closing, Unwinding, Removal, Unsent, Replayable, IsCommand, Loadable, Succeeds,
       TeardownStatuses

LEMMA QualifyNetworkPathsFits ==
  ASSUME QualificationInv, QualifyNetworkPaths
  PROVE  QualificationInv'
<1> DEFINE job == [trial EXCEPT !.attested = TRUE]
           next == IF command.measure THEN "measure" ELSE "qualify"
<1>1. /\ point = "paths" /\ next \in {"measure", "qualify"}
      /\ (next = "qualify" => ~command.measure)
      /\ UNCHANGED <<driver, pinFile, fleet, evidence, sent>>
  BY DEF QualifyNetworkPaths
<1>2. CASE point' = next /\ UNCHANGED <<command, trial, kept>>
  BY <1>1, <1>2, PlacesInOrder
     DEF OneShots, QualificationInv, QualificationTyped, CommandFits, FleetFits, SavedFits,
         SendsFit, EvidenceFits, ExitFits, Written, IsEvidence, Points, TryBody, Outside, Starting,
         Closing, Unwinding, Removal, Unsent, Replayable, IsCommand, Loadable, Succeeds,
         TeardownStatuses
<1>3. CASE SaveTrial(job, next)
  <2>1. trial' = job /\ kept' \in {kept, job}
    BY <1>1, <1>3, SavesOrThrows
  <2>2. /\ IsTrial(job) /\ job.status = trial.status /\ job.owns = trial.owns
        /\ job.journal = trial.journal
    BY DEF QualificationInv, QualificationTyped, IsTrial
  <2> HIDE DEF job, next
  <2>3. JobKept
    BY <1>1, <2>1, <2>2, PlacesAreNumbers DEF JobKept, QualificationInv, IsTrial, FleetFits, TryBody
  <2>4. ASSUME Saved(next) PROVE QualificationInv'
    BY <1>1, <2>1, <2>2, <2>4, PlacesInOrder
       DEF Saved, OneShots, QualificationInv, QualificationTyped, CommandFits, FleetFits, SavedFits,
           SendsFit, EvidenceFits, ExitFits, Written, IsEvidence, Points, TryBody, Outside,
           Starting, Closing, Unwinding, Removal, Unsent, Replayable, IsCommand, Loadable, Succeeds,
           TeardownStatuses
  <2> QED
    BY <1>1, <1>3, <2>1, <2>3, <2>4, SavesFit
<1> QED
  BY <1>2, <1>3 DEF QualifyNetworkPaths

LEMMA GoPastFits ==
  ASSUME QualificationInv, GoPast
  PROVE  QualificationInv'
BY DEF GoPast, QualificationInv, QualificationTyped, CommandFits, FleetFits, SavedFits, SendsFit,
       EvidenceFits, ExitFits, Written, IsEvidence, Points, TryBody, Outside, Starting, Closing,
       Unwinding, Removal, Unsent, Replayable, IsCommand, Loadable, Succeeds, TeardownStatuses

LEMMA SendOnceFits ==
  ASSUME QualificationInv, SendOnce
  PROVE  QualificationInv'
<1>1. /\ point = "send" /\ point' = "measure" /\ trial.journal \in OneShots
      /\ sent' = [sent EXCEPT ![trial.journal] = @ + 1]
      /\ UNCHANGED <<driver, command, trial, kept, pinFile, fleet, evidence>>
  BY DEF SendOnce, QualificationInv, SendsFit
<1>2. sent[trial.journal] = 0
  BY <1>1 DEF QualificationInv, QualificationTyped, SendsFit, Unsent, TryBody
<1>3. /\ sent' \in [OneShots -> {0, 1}] /\ sent'[trial.journal] = 1
      /\ \A s \in OneShots : s # trial.journal => sent'[s] = sent[s]
  BY <1>1, <1>2 DEF QualificationInv, QualificationTyped
<1>4. SendsFit'
  BY <1>1, <1>3, PlacesAreNumbers
     DEF QualificationInv, SendsFit, SavedFits, TryBody, Starting, Unsent
<1> QED
  BY <1>1, <1>3, <1>4
     DEF QualificationInv, QualificationTyped, CommandFits, FleetFits, SavedFits, EvidenceFits,
         ExitFits, Written, IsEvidence, Points, TryBody, Outside, Starting, Closing, Unwinding,
         Removal, Unsent, Replayable, IsCommand, Loadable, Succeeds, TeardownStatuses

LEMMA RequireResultFits ==
  ASSUME QualificationInv, RequireResult
  PROVE  QualificationInv'
<1>1. /\ point = "check" /\ trial' = trial /\ kept' = kept
      /\ UNCHANGED <<driver, pinFile, fleet, evidence, sent>>
  BY DEF RequireResult
<1>2. CASE Raised("error", command)
  BY <1>1, <1>2, Throws, TrialRests, EvidenceRests, ThrownProcessesFit
     DEF QualificationInv, QualificationTyped
<1>3. CASE ~trial.interrupted /\ point' = "report" /\ UNCHANGED command
  BY <1>1, <1>3
     DEF RequireResult, QualificationInv, QualificationTyped, CommandFits, FleetFits, SavedFits,
         SendsFit, EvidenceFits, ExitFits, Written, IsEvidence, Points, TryBody, Outside, Starting,
         Closing, Unwinding, Removal, Unsent, Replayable, IsCommand, Loadable, Succeeds,
         TeardownStatuses
<1> QED
  BY <1>2, <1>3 DEF RequireResult

LEMMA ReportFits ==
  ASSUME QualificationInv, Report
  PROVE  QualificationInv'
<1> DEFINE job == [trial EXCEPT !.status = "reporting"]
<1>1. /\ point = "report" /\ SaveTrial(job, "qualify") /\ trial' = job /\ kept' \in {kept, job}
      /\ UNCHANGED <<driver, pinFile, fleet, evidence, sent>>
  BY SavesOrThrows DEF Report
<1>2. /\ IsTrial(job) /\ job.status = "reporting" /\ job.owns = trial.owns
      /\ job.journal = trial.journal /\ (job.interrupted <=> trial.interrupted)
  BY StatusOnly DEF TrialStatuses
<1> HIDE DEF job
<1>3. JobKept
  BY <1>1, <1>2, PlacesAreNumbers DEF JobKept, QualificationInv, IsTrial, FleetFits, TryBody
<1>4. ASSUME Saved("qualify") PROVE QualificationInv'
  BY <1>1, <1>2, <1>4
     DEF Saved, QualificationInv, QualificationTyped, CommandFits, FleetFits, SavedFits, SendsFit,
         EvidenceFits, ExitFits, Written, IsEvidence, Points, TryBody, Outside, Starting, Closing,
         Unwinding, Removal, Unsent, Replayable, IsCommand, Loadable, Succeeds, TeardownStatuses
<1> QED
  BY <1>1, <1>3, <1>4, SavesFit

LEMMA QualifyFits ==
  ASSUME QualificationInv, Qualify
  PROVE  QualificationInv'
<1> DEFINE a == [command EXCEPT !.qualified = TRUE]
<1>1. /\ point = "qualify" /\ trial' = trial /\ kept' = kept
      /\ UNCHANGED <<driver, pinFile, fleet, evidence, sent>>
  BY DEF Qualify
<1>2. /\ IsCommand(a) /\ a.mode = command.mode /\ a.exit = command.exit
      /\ a.failure = command.failure
      /\ a.signal = command.signal /\ (a.measure <=> command.measure)
  BY DEF QualificationInv, QualificationTyped, IsCommand
<1>3. CASE Raised("error", a)
  BY <1>1, <1>2, <1>3, Throws, TrialRests, EvidenceRests, ThrownProcessesFit DEF TryBody
<1>4. CASE point' = "unwind" /\ command' = a
  BY <1>1, <1>2, <1>4, PlacesInOrder
     DEF OneShots, QualificationInv, QualificationTyped, CommandFits, FleetFits, SavedFits,
         SendsFit, EvidenceFits, ExitFits, Written, IsEvidence, Points, Outside, Starting, Closing,
         Unwinding, Removal, Unsent, Replayable, IsTrial, IsCommand, Loadable, Succeeds,
         TeardownStatuses
<1> QED
  BY <1>3, <1>4 DEF Qualify

LEMMA AdvanceFits ==
  ASSUME QualificationInv, Advance
  PROVE  QualificationInv'
<1> DEFINE s == Journal[Place(trial.journal) + 1]
           job == [trial EXCEPT !.journal = s, !.measured = s = "measurement_complete"]
           next == CASE s \in Checkpoints -> "checkpoint"
                     [] s = "measurement_complete" -> "check"
                     [] OTHER -> "measure"
<1>1. /\ point = "measure" /\ ~trial.measured /\ SaveTrial(job, next)
      /\ UNCHANGED <<driver, pinFile, fleet, evidence, sent>>
  BY DEF Advance
<1>2. s \in JournalStates /\ Place(s) = Place(trial.journal) + 1
  BY <1>1, JournalNext DEF QualificationInv, QualificationTyped, IsTrial
<1>3. /\ next \in {"checkpoint", "check", "measure"} /\ (next = "checkpoint" => s \in Checkpoints)
      /\ s \in OneShots => next = "checkpoint"
  BY DEF Checkpoints, OneShots
<1> HIDE DEF s, next
<1>4. /\ IsTrial(job) /\ job.status = trial.status /\ job.owns = trial.owns /\ job.journal = s
  BY <1>2 DEF QualificationInv, QualificationTyped, IsTrial
<1> HIDE DEF job
<1>5. trial' = job /\ kept' \in {kept, job}
  BY <1>1, SavesOrThrows
<1>6. JobKept
  BY <1>1, <1>2, <1>4, <1>5, PlacesAreNumbers
     DEF JobKept, QualificationInv, QualificationTyped, IsTrial, FleetFits
<1>7. ASSUME Saved(next) PROVE QualificationInv'
  <2>1. ASSUME NEW r \in OneShots
        PROVE  sent'[r] = 1 <=> Place(r) <= Place(trial'.journal) /\ ~Unsent(r)'
    <3>1. sent[r] = 1 <=> Place(r) <= Place(trial.journal)
      BY <1>1 DEF QualificationInv, SendsFit, Unsent, TryBody
    <3>2. r \in JournalStates
      BY DEF OneShots, JournalStates
    <3>3. Unsent(r)' <=> r = s
      BY <1>3, <1>4, <1>5, <1>7 DEF Saved, Unsent
    <3> QED
      BY <1>1, <1>2, <1>4, <1>5, <3>1, <3>2, <3>3, PlacesAreNumbers, PlacesDiffer
         DEF QualificationInv, QualificationTyped, IsTrial
  <2>2. point' \in {"checkpoint", "check", "measure"} /\ kept' = trial'
    BY <1>3, <1>7 DEF Saved
  <2>3. \A r \in OneShots : sent'[r] = 1 => Place(r) <= Place(kept'.journal)
    BY <2>1, <2>2
  <2>4. SendsFit'
    BY <1>3, <1>4, <1>5, <1>7, <2>1, <2>2, <2>3 DEF SendsFit, TryBody, Starting, Saved
  <2>5. QualificationTyped'
    BY <1>1, <1>3, <1>4, <1>5, <1>7, <2>2
       DEF Saved, QualificationInv, QualificationTyped, Points, TryBody, Written, IsEvidence
  <2>6. CommandFits' /\ FleetFits' /\ EvidenceFits' /\ ExitFits'
    BY <1>1, <1>3, <1>4, <1>5, <1>7, <2>2
       DEF Saved, QualificationInv, CommandFits, FleetFits, EvidenceFits, ExitFits, Written,
           TryBody, Outside, Starting, Closing, Unwinding, Loadable
  <2>7. SavedFits'
    BY <1>4, <1>5, <2>2, PlacesAreNumbers DEF SavedFits, IsTrial, Closing
  <2> QED
    BY <2>4, <2>5, <2>6, <2>7 DEF QualificationInv
<1> QED
  BY <1>1, <1>5, <1>6, <1>7, SavesFit

\* A process that is gone.
LEMMA StoppedProcess ==
  ASSUME NEW x \in {"86", "killed"}
  PROVE  LET a == [NoAttempt EXCEPT !.exit = x]
         IN  IsCommand(a) /\ a.exit = x /\ a.mode = "none" /\ IsTrial(NewTrial)
BY DEF NoAttempt, NewTrial, IsCommand, IsTrial, TrialStatuses, JournalStates

LEMMA InjectInterruptionFits ==
  ASSUME QualificationInv, InjectInterruption
  PROVE  QualificationInv'
<1>1. /\ point = "checkpoint" /\ trial.journal = command.checkpoint /\ kept' = kept
      /\ UNCHANGED <<driver, pinFile, fleet, sent>>
      /\ evidence' \in {evidence, AtCheckpoint}
  BY DEF InjectInterruption
<1>a. /\ command.checkpoint \in Checkpoints /\ trial.journal \in Range(Journal)
  BY <1>1, JournalRange
     DEF QualificationInv, SendsFit, QualificationTyped, IsTrial, IsCommand, JournalStates
<1>2. /\ IsEvidence(AtCheckpoint) /\ AtCheckpoint.cleanup # "completed"
      /\ AtCheckpoint \notin {NoEvidence, Damaged}
  BY <1>1, <1>a DEF AtCheckpoint, IsEvidence, Readable, NoEvidence, Damaged
<1>3. EvidenceKept
  BY <1>1, <1>2, EvidenceRests DEF EvidenceKept, Written, TryBody
<1>4. CASE Raised("cancelled", command) /\ trial' = trial
  BY <1>1, <1>3, <1>4, Throws, TrialRests, ThrownProcessesFit
     DEF QualificationInv, QualificationTyped
<1>5. CASE Raised("error", command) /\ trial' = trial
  BY <1>1, <1>3, <1>5, Throws, TrialRests, ThrownProcessesFit
     DEF QualificationInv, QualificationTyped
<1>6. CASE /\ point' = "ended" /\ trial' = NewTrial
           /\ command' = [NoAttempt EXCEPT !.exit = "86"]
  BY <1>1, <1>2, <1>3, <1>6, StoppedProcess
     DEF EvidenceKept, QualificationInv, QualificationTyped, CommandFits, FleetFits, SavedFits,
         SendsFit, EvidenceFits, ExitFits, Written, IsEvidence, Points, TryBody, Outside, Starting,
         Closing, Unwinding, Removal, Unsent, Replayable, IsCommand, Loadable, Succeeds,
         TeardownStatuses
<1> QED
  BY <1>4, <1>5, <1>6 DEF InjectInterruption

-------------------------------------------------------------------------------

\* A job that has its measurement is not marked as interrupted.
LEMMA MarkedTrials ==
  ASSUME QualificationInv
  PROVE  /\ IsTrial(Marked(trial)) /\ Marked(trial).status = trial.status
         /\ Marked(trial).owns = trial.owns /\ Marked(trial).journal = trial.journal
         /\ (Marked(trial).measured <=> trial.measured)
         /\ (trial.measured /\ ~trial.interrupted => ~Marked(trial).interrupted)
BY DEF QualificationInv, QualificationTyped, IsTrial, Marked

\* A save after the body of the try statement.
LEMMA SavedAfterwards ==
  ASSUME QualificationInv, point \in Unwinding \cup Removal \cup Closing, NEW next, Saved(next),
         JobKept, UNCHANGED <<driver, pinFile, fleet, evidence, sent>>,
         \/ next = "unwind" /\ point = "caught"
         \/ next = "record" /\ point = "unwind" /\ command.signal # "none"
         \/ next = "destroy" /\ point = "cleanup"
         \/ next \in {"late", "finalize"}
  PROVE  QualificationInv'
<1> USE DEF QualificationInv
<1>1. /\ point' \in {"unwind", "record", "destroy", "late", "finalize"}
      /\ kept' = trial' /\ command' = command
  BY DEF Saved
<1>2. point \notin Outside \cup TryBody
  BY DEF Unwinding, Removal, Closing, Outside, Starting, TryBody
<1>3. QualificationTyped'
  BY <1>1 DEF QualificationTyped, JobKept, Points, Unwinding, Removal, Closing, Written, IsEvidence
<1>4. CommandFits'
  BY <1>1, <1>2 DEF CommandFits, Saved, TryBody, Starting, Closing, Unwinding, Removal
<1>5. FleetFits'
  BY <1>1, <1>2 DEF FleetFits, JobKept, Loadable, Outside, Starting, TryBody
<1>6. SavedFits'
  BY <1>1, PlacesAreNumbers DEF SavedFits, JobKept, IsTrial, TryBody
<1>7. SendsFit'
  <2>1. \A s \in OneShots : sent'[s] = 1 => Place(s) <= Place(kept'.journal)
    BY <1>1, <1>2, PlacesAreNumbers, PlacesInOrder
       DEF SendsFit, SavedFits, JobKept, QualificationTyped, IsTrial, OneShots, Outside
  <2>2. Succeeds => trial'.measured /\ ~trial'.interrupted /\ \A s \in OneShots : sent[s] = 1
    BY <1>2 DEF SendsFit, CommandFits, Succeeds, JobKept
  <2> QED
    BY <1>1, <2>1, <2>2 DEF SendsFit, Succeeds, TryBody, Starting
<1>8. EvidenceFits'
  BY <1>1, <1>2 DEF EvidenceFits, Outside, TryBody, Written
<1>9. ExitFits'
  BY <1>1 DEF ExitFits
<1> QED
  BY <1>3, <1>4, <1>5, <1>6, <1>7, <1>8, <1>9

LEMMA CatchFits ==
  ASSUME QualificationInv, Catch
  PROVE  QualificationInv'
<1> DEFINE marked == IF command.failure = "cancelled" THEN Marked(trial) ELSE trial
           job == [marked EXCEPT !.status = "cleanup_pending"]
<1>1. /\ point = "caught" /\ SaveTrial(job, "unwind")
      /\ UNCHANGED <<driver, pinFile, fleet, evidence, sent>>
  BY DEF Catch
<1>2. /\ IsTrial(marked) /\ marked.owns = trial.owns /\ marked.journal = trial.journal
      /\ (marked.measured <=> trial.measured)
      /\ (trial.measured /\ ~trial.interrupted => ~marked.interrupted)
  BY MarkedTrials DEF QualificationInv, QualificationTyped
<1> HIDE DEF marked
<1>3. /\ IsTrial(job) /\ job.status = "cleanup_pending" /\ job.owns = trial.owns
      /\ job.journal = trial.journal /\ (job.measured <=> trial.measured)
      /\ (trial.measured /\ ~trial.interrupted => ~job.interrupted)
  BY <1>2 DEF IsTrial, TrialStatuses, TeardownStatuses
<1> HIDE DEF job
<1>4. trial' = job /\ kept' \in {kept, job}
  BY <1>1, SavesOrThrows
<1>5. JobKept
  BY <1>1, <1>3, <1>4, PlacesAreNumbers DEF JobKept, QualificationInv, IsTrial, FleetFits
<1>6. ASSUME Saved("unwind") PROVE QualificationInv'
  BY <1>1, <1>5, <1>6, SavedAfterwards DEF Unwinding
<1> QED
  BY <1>1, <1>4, <1>5, <1>6, SavesFit

LEMMA SaveMarkFits ==
  ASSUME QualificationInv, SaveMark
  PROVE  QualificationInv'
<1>1. /\ point = "unwind"
      /\ UNCHANGED <<driver, pinFile, fleet, evidence, sent>>
  BY DEF SaveMark
<1>2. CASE command.signal = "none" /\ point' = "cleanup" /\ UNCHANGED <<command, trial, kept>>
  BY <1>1, <1>2
     DEF QualificationInv, QualificationTyped, CommandFits, FleetFits, SavedFits, SendsFit,
         EvidenceFits, ExitFits, Written, IsEvidence, Points, TryBody, Outside, Starting, Closing,
         Unwinding, Removal, Unsent, Replayable, IsCommand, Loadable, Succeeds, TeardownStatuses
<1>3. CASE /\ command.signal # "none" /\ point' = "record" /\ trial' = Marked(trial)
           /\ UNCHANGED <<command, kept>>
  BY <1>1, <1>3, MarkedTrials
     DEF QualificationInv, QualificationTyped, CommandFits, FleetFits, SavedFits, SendsFit,
         EvidenceFits, ExitFits, Written, IsEvidence, Points, TryBody, Outside, Starting, Closing,
         Unwinding, Removal, Unsent, Replayable, IsCommand, Loadable, Succeeds, TeardownStatuses
<1>4. CASE command.signal # "none" /\ SaveTrial(Marked(trial), "record")
  <2>1. trial' = Marked(trial) /\ kept' \in {kept, trial'}
    BY <1>1, <1>4, SavesOrThrows
  <2>2. JobKept
    BY <1>1, <1>4, <2>1, MarkedTrials, PlacesAreNumbers
       DEF JobKept, QualificationInv, IsTrial, FleetFits
  <2>3. ASSUME Saved("record") PROVE QualificationInv'
    BY <1>1, <1>4, <2>2, <2>3, SavedAfterwards DEF Unwinding
  <2> QED
    BY <1>1, <1>4, <2>1, <2>2, <2>3, SavesFit
<1> QED
  BY <1>2, <1>3, <1>4 DEF SaveMark

\* A signal is added to the evidence that is there, or begins it.
LEMMA WithSignalFits ==
  ASSUME QualificationInv
  PROVE  /\ WithSignal # NoEvidence
         /\ WithSignal # Damaged => IsEvidence(WithSignal)
         /\ WithSignal = Damaged => evidence = Damaged
         /\ WithSignal # Damaged =>
              WithSignal.cleanup = (IF Written THEN evidence.cleanup ELSE "pending")
<1>1. IsEvidence(AtSignal) /\ AtSignal.cleanup = "pending" /\ AtSignal \notin {NoEvidence, Damaged}
  BY JournalRange
     DEF AtSignal, IsEvidence, Readable, NoEvidence, Damaged, QualificationInv, QualificationTyped,
         IsTrial, JournalStates
<1>2. ASSUME Written
      PROVE  LET e == [evidence EXCEPT !.later = trial.journal]
             IN  IsEvidence(e) /\ e.cleanup = evidence.cleanup /\ e \notin {NoEvidence, Damaged}
  <2>1. IsEvidence(evidence) /\ trial.journal \in Range(Journal)
    BY <1>2, JournalRange DEF QualificationInv, QualificationTyped, IsTrial, JournalStates
  <2> QED
    BY <2>1 DEF IsEvidence, Readable, NoEvidence, Damaged
<1> QED
  BY <1>1, <1>2 DEF WithSignal, Written, QualificationInv, QualificationTyped, NoEvidence, Damaged

LEMMA SignalsChange ==
  ASSUME QualificationInv,
         \/ command' = [command EXCEPT !.signal = "recorded"]
         \/ command' = [command EXCEPT !.signal = "lost", !.evidenceError = TRUE]
  PROVE  /\ IsCommand(command') /\ command'.signal # "none" /\ command'.mode = command.mode
         /\ command'.exit = command.exit /\ command'.failure = command.failure
BY DEF QualificationInv, QualificationTyped, IsCommand

LEMMA RecordFits ==
  ASSUME QualificationInv, Record
  PROVE  QualificationInv'
<1>1. /\ point = "record" /\ point' = "cleanup"
      /\ UNCHANGED <<driver, trial, kept, pinFile, fleet, sent>>
      /\ evidence' \in {evidence, WithSignal}
      /\ evidence' = Damaged => evidence = Damaged
      /\ \/ command' = [command EXCEPT !.signal = "recorded"]
         \/ command' = [command EXCEPT !.signal = "lost", !.evidenceError = TRUE]
  BY WithSignalFits DEF Record, RecordSignal
<1>2. /\ IsCommand(command') /\ command'.signal # "none" /\ command'.mode = command.mode
      /\ command'.exit = command.exit /\ command'.failure = command.failure
  BY <1>1, SignalsChange
<1>3. QualificationTyped'
  BY <1>1, <1>2, WithSignalFits DEF QualificationInv, QualificationTyped, Points, Removal, Written
<1>4. EvidenceFits'
  BY <1>1, <1>2, WithSignalFits DEF QualificationInv, EvidenceFits, Written, TryBody
<1> QED
  BY <1>1, <1>2, <1>3, <1>4
     DEF QualificationInv, CommandFits, FleetFits, SavedFits, SendsFit, ExitFits, TryBody, Outside,
         Starting, Closing, Unwinding, Loadable, Succeeds

LEMMA CleanupFits ==
  ASSUME QualificationInv, Cleanup
  PROVE  QualificationInv'
<1> DEFINE status == IF trial.owns = "nothing" THEN "destroyed" ELSE "destroying"
           next == IF trial.owns = "nothing" THEN "late" ELSE "destroy"
           job == [trial EXCEPT !.status = status]
<1>1. /\ point = "cleanup" /\ SaveTrial(job, next)
      /\ UNCHANGED <<driver, pinFile, fleet, evidence, sent>>
  BY DEF Cleanup
<1>2. /\ status \in TrialStatuses \ {"unwritten"} /\ next \in {"late", "destroy"}
      /\ fleet # "none" => status # "destroyed"
  BY <1>1 DEF TrialStatuses, TeardownStatuses, QualificationInv, FleetFits
<1> HIDE DEF status, next
<1>3. /\ IsTrial(job) /\ job.status = status /\ job.owns = trial.owns /\ job.journal = trial.journal
      /\ (job.measured <=> trial.measured) /\ (job.interrupted <=> trial.interrupted)
  BY <1>2, StatusOnly
<1> HIDE DEF job
<1>4. trial' = job /\ kept' \in {kept, job}
  BY <1>1, SavesOrThrows
<1>5. JobKept
  BY <1>1, <1>2, <1>3, <1>4, PlacesAreNumbers DEF JobKept, QualificationInv, IsTrial, FleetFits
<1>6. ASSUME Saved(next) PROVE QualificationInv'
  BY <1>1, <1>2, <1>5, <1>6, SavedAfterwards DEF Removal
<1> QED
  BY <1>1, <1>4, <1>5, <1>6, SavesFit

LEMMA DestroyFits ==
  ASSUME QualificationInv, Destroy
  PROVE  QualificationInv'
<1>1. /\ point = "destroy" /\ point' \in {"proved", "undone"}
      /\ point' = "proved" => fleet' = "none"
      /\ fleet' \in {"none", "partial", "ready"} /\ (fleet' # "none" => fleet # "none")
      /\ UNCHANGED <<driver, command, trial, kept, pinFile, evidence, sent>>
  BY DEF Destroy, QualificationInv, QualificationTyped
<1>2. QualificationTyped' /\ CommandFits' /\ EvidenceFits' /\ ExitFits'
  BY <1>1
     DEF QualificationInv, QualificationTyped, Points, Removal, CommandFits, EvidenceFits, ExitFits,
         Written, TryBody, Starting, Closing, Unwinding
<1>3. FleetFits' /\ SavedFits' /\ SendsFit'
  BY <1>1
     DEF QualificationInv, FleetFits, SavedFits, SendsFit, Succeeds, Loadable, TryBody, Starting,
         Outside, Closing
<1> QED
  BY <1>2, <1>3 DEF QualificationInv

LEMMA SaveDestroyedFits ==
  ASSUME QualificationInv, SaveDestroyed
  PROVE  QualificationInv'
<1> DEFINE job == [trial EXCEPT !.status = "destroyed", !.owns = "retained"]
<1>1. /\ point = "proved" /\ SaveTrial(job, "late")
      /\ UNCHANGED <<driver, pinFile, fleet, evidence, sent>>
  BY DEF SaveDestroyed
<1>2. /\ IsTrial(job) /\ job.status = "destroyed" /\ job.journal = trial.journal
      /\ (job.measured <=> trial.measured) /\ (job.interrupted <=> trial.interrupted)
  BY DEF QualificationInv, QualificationTyped, IsTrial, TrialStatuses, TeardownStatuses
<1> HIDE DEF job
<1>3. trial' = job /\ kept' \in {kept, job}
  BY <1>1, SavesOrThrows
<1>4. JobKept
  BY <1>1, <1>2, <1>3, PlacesAreNumbers DEF JobKept, QualificationInv, IsTrial, FleetFits
<1>5. ASSUME Saved("late") PROVE QualificationInv'
  BY <1>1, <1>4, <1>5, SavedAfterwards DEF Removal
<1> QED
  BY <1>1, <1>3, <1>4, <1>5, SavesFit

LEMMA SaveFailedFits ==
  ASSUME QualificationInv, SaveFailed
  PROVE  QualificationInv'
<1> DEFINE job == [trial EXCEPT !.status = "cleanup_failed"]
<1>1. /\ point = "undone" /\ SaveTrial(job, "late")
      /\ UNCHANGED <<driver, pinFile, fleet, evidence, sent>>
  BY DEF SaveFailed
<1>2. /\ IsTrial(job) /\ job.status = "cleanup_failed" /\ job.owns = trial.owns
      /\ job.journal = trial.journal
      /\ (job.measured <=> trial.measured) /\ (job.interrupted <=> trial.interrupted)
  BY StatusOnly DEF TrialStatuses, TeardownStatuses
<1> HIDE DEF job
<1>3. trial' = job /\ kept' \in {kept, job}
  BY <1>1, SavesOrThrows
<1>4. JobKept
  BY <1>1, <1>2, <1>3, PlacesAreNumbers DEF JobKept, QualificationInv, IsTrial, FleetFits
<1>5. ASSUME Saved("late") PROVE QualificationInv'
  BY <1>1, <1>4, <1>5, SavedAfterwards DEF Removal
<1> QED
  BY <1>1, <1>3, <1>4, <1>5, SavesFit

LEMMA LateSignalFits ==
  ASSUME QualificationInv, LateSignal
  PROVE  QualificationInv'
<1>1. point = "late" /\ UNCHANGED <<driver, kept, pinFile, fleet, sent>>
  BY DEF LateSignal
<1>2. CASE point' = "finalize" /\ UNCHANGED <<command, trial, evidence>>
  BY <1>1, <1>2
     DEF QualificationInv, QualificationTyped, CommandFits, FleetFits, SavedFits, SendsFit,
         EvidenceFits, ExitFits, Written, IsEvidence, Points, TryBody, Outside, Starting, Closing,
         Unwinding, Removal, Unsent, Replayable, IsCommand, Loadable, Succeeds, TeardownStatuses
<1>3. CASE command.signal = "pending" /\ RecordSignal("keep") /\ trial' = Marked(trial)
  <2>1. /\ point' = "keep" /\ evidence' \in {evidence, WithSignal}
        /\ evidence' = Damaged => evidence = Damaged
        /\ \/ command' = [command EXCEPT !.signal = "recorded"]
           \/ command' = [command EXCEPT !.signal = "lost", !.evidenceError = TRUE]
    BY <1>3, WithSignalFits DEF RecordSignal
  <2>2. /\ IsCommand(command') /\ command'.signal # "none" /\ command'.mode = command.mode
        /\ command'.exit = command.exit /\ command'.failure = command.failure
    BY <2>1, SignalsChange
  <2>3. QualificationTyped' /\ EvidenceFits'
    BY <1>1, <1>3, <2>1, <2>2, WithSignalFits, MarkedTrials
       DEF QualificationInv, QualificationTyped, EvidenceFits, Points, Closing, Written, TryBody
  <2>4. CommandFits' /\ FleetFits' /\ SavedFits' /\ ExitFits'
    BY <1>1, <1>3, <2>1, <2>2, MarkedTrials
       DEF QualificationInv, CommandFits, FleetFits, SavedFits, ExitFits, TryBody, Outside,
           Starting, Closing, Unwinding, Loadable
  <2>5. SendsFit'
    BY <1>1, <1>3, <2>1, MarkedTrials DEF QualificationInv, SendsFit, TryBody, Starting
  <2> QED
    BY <2>3, <2>4, <2>5 DEF QualificationInv
<1> QED
  BY <1>2, <1>3 DEF LateSignal

LEMMA KeepLateSignalFits ==
  ASSUME QualificationInv, KeepLateSignal
  PROVE  QualificationInv'
<1>1. /\ point = "keep" /\ SaveTrial(trial, "finalize")
      /\ UNCHANGED <<driver, pinFile, fleet, evidence, sent>>
  BY DEF KeepLateSignal
<1>2. trial' = trial /\ kept' \in {kept, trial}
  BY <1>1, SavesOrThrows
<1>3. JobKept
  BY <1>1, <1>2, TrialRests
<1>4. ASSUME Saved("finalize") PROVE QualificationInv'
  BY <1>1, <1>3, <1>4, SavedAfterwards DEF Closing
<1> QED
  BY <1>1, <1>2, <1>3, <1>4, SavesFit

\* The exit status says no more than what is left and what was done.
LEMMA ExitStatusFits ==
  ASSUME QualificationInv, point = "finalize", NEW a, IsCommand(a), a.exit = command.exit
  PROVE  LET c == [a EXCEPT !.exit = ExitStatus(a)]
         IN  /\ IsCommand(c) /\ c.mode = a.mode /\ c.signal = a.signal
             /\ (c.qualified <=> a.qualified) /\ (c.measure <=> a.measure)
             /\ c.exit \in {"0", "1", "130", "128+n"} => Clean
             /\ c.exit = "0" /\ c.mode # "cleanup" =>
                  a.signal = "none" /\ a.failure = "none" /\ a.qualified
             /\ c.exit = "0" /\ c.mode = "cleanup" => ~a.evidenceError
<1>1. ExitStatus(a) \in {"traceback", "2", "128+n", "0", "130", "1"}
  BY DEF ExitStatus
<1>2. /\ ExitStatus(a) \in {"0", "1", "130", "128+n"} => Clean
      /\ ExitStatus(a) = "0" => a.signal = "none"
      /\ ExitStatus(a) = "0" /\ a.mode # "cleanup" => a.failure = "none" /\ a.qualified
      /\ ExitStatus(a) = "0" /\ a.mode = "cleanup" => ~a.evidenceError
  BY DEF ExitStatus, IsCommand
<1> HIDE DEF ExitStatus
<1> QED
  BY <1>1, <1>2 DEF IsCommand

LEMMA FinalizeFits ==
  ASSUME QualificationInv, Finalize
  PROVE  QualificationInv'
<1> DEFINE open == command.signal \in {"pending", "lost"}
           e == IF open THEN WithSignal ELSE evidence
           job == IF open THEN Marked(trial) ELSE trial
           onRecord == [command EXCEPT !.signal = IF open THEN "recorded" ELSE @]
           inError == [command EXCEPT !.evidenceError = TRUE,
                                     !.failure = IF @ = "none" THEN "error" ELSE @]
<1>1. /\ point = "finalize" /\ point' = "ended" /\ trial' = job
      /\ kept' \in {kept, IF open THEN job ELSE kept}
      /\ evidence' \in {evidence, e, Outcomes(e)}
      /\ UNCHANGED <<driver, pinFile, fleet, sent>>
      /\ \/ /\ command' = [onRecord EXCEPT !.exit = ExitStatus(onRecord)]
            /\ evidence' = Outcomes(e) /\ evidence # Damaged
         \/ command' = [inError EXCEPT !.exit = ExitStatus(inError)]
  BY DEF Finalize, EndWith
<1>2. /\ IsCommand(onRecord) /\ onRecord.exit = command.exit /\ onRecord.mode = command.mode
      /\ (onRecord.qualified <=> command.qualified) /\ (onRecord.measure <=> command.measure)
      /\ onRecord.signal = (IF open THEN "recorded" ELSE command.signal)
      /\ onRecord.failure = command.failure
  BY DEF QualificationInv, QualificationTyped, IsCommand
<1>3. /\ IsCommand(inError) /\ inError.exit = command.exit /\ inError.mode = command.mode
      /\ inError.evidenceError /\ inError.failure # "none"
  BY DEF QualificationInv, QualificationTyped, IsCommand
<1>4. /\ IsTrial(job) /\ job.status = trial.status /\ job.owns = trial.owns
      /\ job.journal = trial.journal
      /\ ~open => job = trial
  BY MarkedTrials DEF QualificationInv, QualificationTyped
<1>5. /\ e # Damaged /\ e # NoEvidence => IsEvidence(e) /\ e.cleanup # "completed"
      /\ ~open => e = evidence
  BY <1>1, WithSignalFits DEF QualificationInv, QualificationTyped, EvidenceFits, Written
<1> HIDE DEF job, e, onRecord, inError
<1>6. /\ Outcomes(e) \notin {NoEvidence, Damaged} =>
           /\ IsEvidence(Outcomes(e)) /\ e \notin {NoEvidence, Damaged}
           /\ Outcomes(e).cleanup = "completed" <=> Clean
           /\ command.mode # "new" => Outcomes(e).recovery = RecoveryOutcome
  BY <1>5 DEF Outcomes, IsEvidence, Readable, NoEvidence, Damaged
<1>7. Clean => kept.status = "destroyed" /\ kept'.status = "destroyed" /\ fleet' = "none"
  BY <1>1, <1>4 DEF Clean, QualificationInv, SavedFits, CommandFits, FleetFits, Closing
<1>8. /\ IsCommand(command') /\ command'.mode = command.mode
      /\ command'.exit \in {"0", "1", "130", "128+n"} => Clean
      /\ command'.exit = "0" /\ command'.mode # "cleanup" =>
           /\ Clean /\ ~open /\ evidence' = Outcomes(e)
           /\ command.qualified /\ command.signal = "none" /\ command.failure = "none"
           /\ command'.qualified /\ command'.signal = "none"
           /\ (command'.measure <=> command.measure)
  <2>1. CASE /\ command' = [onRecord EXCEPT !.exit = ExitStatus(onRecord)]
             /\ evidence' = Outcomes(e)
    <3>1. /\ IsCommand(command') /\ command'.mode = onRecord.mode
          /\ command'.signal = onRecord.signal
          /\ (command'.qualified <=> onRecord.qualified) /\ (command'.measure <=> onRecord.measure)
          /\ command'.exit \in {"0", "1", "130", "128+n"} => Clean
          /\ command'.exit = "0" /\ command'.mode # "cleanup" =>
               onRecord.signal = "none" /\ onRecord.failure = "none" /\ onRecord.qualified
      BY <1>1, <1>2, <2>1, ExitStatusFits
    <3> QED
      BY <1>2, <2>1, <3>1
  <2>2. CASE command' = [inError EXCEPT !.exit = ExitStatus(inError)]
    <3>1. /\ IsCommand(command') /\ command'.mode = inError.mode
          /\ command'.exit \in {"0", "1", "130", "128+n"} => Clean
          /\ command'.exit = "0" /\ command'.mode # "cleanup" => inError.failure = "none"
      BY <1>1, <1>3, <2>2, ExitStatusFits
    <3> QED
      BY <1>3, <3>1
  <2> QED
    BY <1>1, <2>1, <2>2
<1>9. QualificationTyped'
  BY <1>1, <1>4, <1>5, <1>6, <1>8 DEF QualificationInv, QualificationTyped, Points, Outside, Written
<1>10. EvidenceFits'
  BY <1>1, <1>5, <1>6, <1>7 DEF QualificationInv, EvidenceFits, Written, TryBody
<1>11. SendsFit'
  BY <1>1, <1>4, PlacesAreNumbers, PlacesInOrder
     DEF QualificationInv, QualificationTyped, IsTrial, SavedFits, SendsFit, TryBody, Outside,
         Starting, OneShots
<1>12. FleetFits' /\ SavedFits' /\ CommandFits'
  BY <1>1, <1>4
     DEF QualificationInv, FleetFits, SavedFits, CommandFits, TryBody, Outside, Starting, Closing,
         Unwinding, Loadable
<1>13. ExitFits'
  <2>1. ASSUME command'.exit = "0", command'.mode # "cleanup"
        PROVE  /\ command'.qualified /\ command'.signal = "none"
               /\ (command'.measure =>
                     kept'.measured /\ ~kept'.interrupted /\ \A s \in OneShots : sent'[s] = 1)
               /\ Written' =>
                    evidence'.cleanup = "completed" /\ evidence'.recovery = "resume_completed"
    <3>1. /\ Clean /\ ~open /\ evidence' = Outcomes(e) /\ e = evidence /\ kept' = kept
          /\ command.qualified /\ command.signal = "none" /\ command.failure = "none"
          /\ command'.qualified /\ command'.signal = "none" /\ command.mode # "cleanup"
          /\ (command'.measure <=> command.measure)
      BY <1>1, <1>5, <1>8, <2>1
    <3>2. kept = trial
      BY <1>1, <3>1 DEF Clean, QualificationInv, SavedFits, CommandFits, Closing
    <3>3. command.measure => trial.measured /\ ~trial.interrupted /\ \A s \in OneShots : sent[s] = 1
      BY <1>1, <3>1 DEF QualificationInv, SendsFit, Succeeds, TryBody, Outside, Starting
    <3>4. command.mode = "new" => ~Written'
      BY <1>1, <3>1 DEF QualificationInv, EvidenceFits, Written, Outcomes
    <3>5. RecoveryOutcome = "resume_completed"
      BY <3>1 DEF RecoveryOutcome
    <3>6. Written' => evidence'.cleanup = "completed" /\ evidence'.recovery = "resume_completed"
      BY <1>6, <3>1, <3>4, <3>5 DEF Written
    <3> QED
      BY <1>1, <3>1, <3>2, <3>3, <3>6
  <2> QED
    BY <1>1, <1>7, <1>8, <2>1 DEF ExitFits
<1> QED
  BY <1>9, <1>10, <1>11, <1>12, <1>13 DEF QualificationInv

-------------------------------------------------------------------------------

LEMMA BreaksFits ==
  ASSUME QualificationInv, Breaks
  PROVE  QualificationInv'
<1>1. /\ point \in TryBody /\ Raised("error", command)
      /\ UNCHANGED <<driver, trial, kept, pinFile, fleet, evidence, sent>>
  BY DEF Breaks
<1>2. point \notin {"idle", "ended"}
  BY <1>1 DEF TryBody
<1> QED
  BY <1>1, <1>2, Throws, TrialRests, EvidenceRests, ThrownProcessesFit
     DEF QualificationInv, QualificationTyped

LEMMA SignalFits ==
  ASSUME QualificationInv, Signal
  PROVE  QualificationInv'
<1> DEFINE a == [command EXCEPT !.signal = IF @ = "none" THEN "pending" ELSE @]
<1>1. /\ Handled /\ UNCHANGED <<driver, trial, kept, pinFile, fleet, evidence, sent>>
      /\ IF point \notin {"late", "keep", "finalize"} THEN Raised("cancelled", a)
         ELSE point' = point /\ command' = a
  BY DEF Signal
<1>2. /\ IsCommand(a) /\ a.mode = command.mode /\ a.exit = command.exit
      /\ a.failure = command.failure
      /\ a.signal # "none"
  BY DEF QualificationInv, QualificationTyped, IsCommand
<1>3. point \notin {"idle", "ended"}
  BY <1>1 DEF Handled, TryBody
<1> HIDE DEF a
<1>4. CASE Raised("cancelled", a)
  BY <1>1, <1>2, <1>3, <1>4, Throws, TrialRests, EvidenceRests, ThrownProcessesFit
<1>5. CASE point \in Closing /\ point' = point /\ command' = a
  BY <1>1, <1>2, <1>5
     DEF QualificationInv, QualificationTyped, CommandFits, FleetFits, SavedFits, SendsFit,
         EvidenceFits, ExitFits, Written, IsEvidence, Points, TryBody, Starting, Closing, Unwinding,
         Removal, Unsent, Replayable, IsCommand, Loadable, Succeeds, TeardownStatuses
<1> QED
  BY <1>1, <1>4, <1>5 DEF Closing

LEMMA KilledFits ==
  ASSUME QualificationInv, Killed
  PROVE  QualificationInv'
<1>1. /\ point \notin {"idle", "ended"} /\ point' = "ended" /\ trial' = NewTrial
      /\ command' = [NoAttempt EXCEPT !.exit = "killed"]
      /\ UNCHANGED <<driver, kept, pinFile, fleet, evidence, sent>>
  BY DEF Killed
<1> QED
  BY <1>1, StoppedProcess
     DEF QualificationInv, QualificationTyped, CommandFits, FleetFits, SavedFits, SendsFit,
         EvidenceFits, ExitFits, Written, IsEvidence, Points, TryBody, Outside, Starting, Closing,
         Unwinding, Removal, Unsent, Replayable, IsCommand, Loadable, Succeeds, TeardownStatuses

LEMMA DamageFits ==
  ASSUME QualificationInv, Damage
  PROVE  QualificationInv'
BY DEF Damage, QualificationInv, QualificationTyped, CommandFits, FleetFits, SavedFits, SendsFit,
       EvidenceFits, ExitFits, Written, IsEvidence, Points, Closing, Unwinding, Removal, Unsent,
       Replayable, IsCommand, Loadable, Succeeds, TeardownStatuses

LEMMA ResumeFits ==
  ASSUME QualificationInv, Resume
  PROVE  QualificationInv'
<1>1. /\ point = "ended" /\ Loadable /\ UNCHANGED <<driver, kept, pinFile, fleet, sent>>
  BY DEF Resume
<1>2. CASE /\ command' = [NoAttempt EXCEPT !.mode = "resume", !.exit = "2"]
           /\ evidence' = Recovering("resume_refused") /\ point' = point /\ trial' = trial
  <2>1. IsCommand(command') /\ command'.exit = "2" /\ command'.mode = "resume"
    BY <1>2 DEF NoAttempt, IsCommand
  <2> QED
    BY <1>1, <1>2, <2>1, RecoveringFits
       DEF QualificationInv, QualificationTyped, CommandFits, FleetFits, SavedFits, SendsFit,
           EvidenceFits, ExitFits, Written, IsEvidence, Points, TryBody, Starting, Closing,
           Unwinding, Removal, Unsent, Replayable, IsCommand, Loadable, Succeeds, TeardownStatuses
<1>3. ASSUME NEW o \in Options, Resumable(o), EvidenceAllows(o), point' = "begin",
             command' = Invoked("resume", o), trial' = kept, evidence' = evidence
      PROVE  QualificationInv'
  <2>1. /\ kept.status \notin TeardownStatuses \cup {"unwritten"} /\ Replayable(kept.journal)
        /\ Written => Replayable(EvidenceState(evidence))
    BY <1>1, <1>3, PlacesInOrder
       DEF Resumable, EvidenceAllows, Replayable, Loadable, Written, Damaged
  <2>2. ASSUME NEW r \in OneShots PROVE ~(Place(r) <= Place(kept.journal)) /\ sent[r] # 1
    BY <2>1, PlacesInOrder, PlacesAreNumbers
       DEF OneShots, Replayable, QualificationInv, QualificationTyped, IsTrial, SendsFit
  <2>3. /\ IsCommand(command') /\ command'.mode = "resume" /\ command'.exit = "none"
        /\ command'.failure = "none" /\ command'.signal = "none"
    BY <1>3, InvokedCommands
  <2>4. SendsFit' /\ SavedFits'
    BY <1>1, <1>3, <2>1, <2>2, <2>3, PlacesAreNumbers
       DEF SendsFit, SavedFits, TryBody, Closing, Replayable, Unsent, QualificationInv,
           QualificationTyped, IsTrial
  <2>5. QualificationTyped' /\ CommandFits' /\ EvidenceFits' /\ ExitFits'
    BY <1>1, <1>3, <2>1, <2>3
       DEF QualificationInv, QualificationTyped, CommandFits, EvidenceFits, ExitFits, Points,
           TryBody, Written, Starting, Closing, Unwinding, TeardownStatuses, IsEvidence
  <2>6. FleetFits'
    BY <1>1, <1>3, <2>1 DEF QualificationInv, FleetFits, Loadable, TeardownStatuses
  <2> QED
    BY <2>4, <2>5, <2>6 DEF QualificationInv
<1> QED
  BY <1>1, <1>2, <1>3 DEF Resume

LEMMA CleanupOnlyFits ==
  ASSUME QualificationInv, CleanupOnly
  PROVE  QualificationInv'
<1>1. /\ point = "ended" /\ Loadable /\ kept.status # "destroyed"
      /\ point' = "announce" /\ trial' = kept
      /\ command' = [NoAttempt EXCEPT !.mode = "cleanup"]
      /\ UNCHANGED <<driver, kept, pinFile, fleet, evidence, sent>>
  BY DEF CleanupOnly
<1>2. /\ IsCommand(command') /\ command'.mode = "cleanup"
      /\ command'.exit = "none" /\ ~command'.qualified
  BY <1>1 DEF NoAttempt, IsCommand
<1> QED
  BY <1>1, <1>2, PlacesAreNumbers
     DEF QualificationInv, QualificationTyped, CommandFits, FleetFits, SavedFits, SendsFit,
         EvidenceFits, ExitFits, Written, IsEvidence, Points, TryBody, Starting, Closing, Unwinding,
         Removal, Unsent, Replayable, IsTrial, IsCommand, Loadable, Succeeds, TeardownStatuses

-------------------------------------------------------------------------------

\* Every step of the qualification keeps the invariant.
LEMMA QualificationStays ==
  QualificationInv /\ [QualificationNext]_qualification => QualificationInv'
<1> SUFFICES ASSUME QualificationInv, [QualificationNext]_qualification
             PROVE  QualificationInv'
  OBVIOUS
<1>1. CASE QualificationStep
  BY <1>1, NewJobFits, WriteProviderPinFits, AnnounceFits, EnterRunnerFits, AdmitFits, OwnFits,
     ProvisionFleetFits, PrepareWorkloadFits, QualifyNetworkPathsFits, AdvanceFits, GoPastFits,
     InjectInterruptionFits, SendOnceFits, RequireResultFits, ReportFits, QualifyFits, CatchFits,
     SaveMarkFits, RecordFits, CleanupFits, DestroyFits, SaveDestroyedFits, SaveFailedFits,
     LateSignalFits, KeepLateSignalFits, FinalizeFits
     DEF QualificationStep
<1>2. CASE Resume \/ CleanupOnly \/ Upsets
  BY <1>2, ResumeFits, CleanupOnlyFits, BreaksFits, SignalFits, KilledFits, DamageFits DEF Upsets
<1>3. CASE UNCHANGED qualification
  BY <1>3
     DEF qualification, Clean, QualificationInv, QualificationTyped, CommandFits, FleetFits,
         SavedFits, SendsFit, EvidenceFits, ExitFits, Written, IsEvidence, Points, Closing,
         Unwinding, Removal, Unsent, Replayable, IsCommand, Loadable, Succeeds, TeardownStatuses
<1> QED
  BY <1>1, <1>2, <1>3 DEF QualificationNext

-------------------------------------------------------------------------------

\* The origin of an interruption, and the first signal after it.
SameOrigin(e) ==
  /\ e.source = evidence.source /\ e.checkpoint = evidence.checkpoint
  /\ e.hard = evidence.hard /\ e.state = evidence.state
  /\ evidence.later # "no" => e.later = evidence.later

\* Whatever the program writes into evidence leaves its origin.
LEMMA OriginsStay ==
  ASSUME QualificationInv, Written
  PROVE  /\ SameOrigin(evidence) /\ SameOrigin(WithSignal)
         /\ \A o : SameOrigin(Recovering(o))
         /\ SameOrigin(Outcomes(evidence)) /\ SameOrigin(Outcomes(WithSignal))
<1>1. IsEvidence(evidence)
  BY DEF QualificationInv, QualificationTyped
<1>2. IsEvidence(WithSignal) /\ SameOrigin(WithSignal) /\ WithSignal \notin {NoEvidence, Damaged}
  BY <1>1, WithSignalFits DEF WithSignal, SameOrigin, IsEvidence, Written, NoEvidence, Damaged
<1>3. \A o : SameOrigin(Recovering(o))
  BY <1>1 DEF Recovering, SameOrigin, IsEvidence
<1>4. ASSUME NEW e, IsEvidence(e), SameOrigin(e) PROVE SameOrigin(Outcomes(e))
  BY <1>4 DEF Outcomes, SameOrigin, IsEvidence
<1>5. SameOrigin(evidence)
  BY DEF SameOrigin
<1> QED
  BY <1>1, <1>2, <1>3, <1>4, <1>5

\* Evidence only changes by a signal, a recovery, or the outcome of cleanup.
LEMMA EvidenceSteps ==
  ASSUME [QualificationNext]_qualification, Written, evidence' # Damaged
  PROVE  \/ evidence' \in {evidence, WithSignal, Outcomes(evidence), Outcomes(WithSignal)}
         \/ \E o : evidence' = Recovering(o)
<1>1. CASE QualificationStep
  <2>1. CASE Announce
    BY <2>1 DEF Announce
  <2>2. CASE EnterRunner
    BY <2>2 DEF EnterRunner
  <2>3. CASE Record \/ LateSignal
    BY <2>3 DEF Record, LateSignal, RecordSignal
  <2>4. CASE Finalize
    BY <2>4 DEF Finalize
  <2>5. CASE InjectInterruption
    BY <2>5 DEF InjectInterruption, Written
  <2>6. CASE \/ NewJob \/ WriteProviderPin \/ Admit \/ Own \/ ProvisionFleet \/ PrepareWorkload
             \/ QualifyNetworkPaths \/ Advance \/ GoPast \/ SendOnce \/ RequireResult
             \/ Report \/ Qualify \/ Catch \/ SaveMark \/ Cleanup \/ Destroy \/ SaveDestroyed
             \/ SaveFailed \/ KeepLateSignal
    BY <2>6
       DEF NewJob, WriteProviderPin, Admit, Own, ProvisionFleet, PrepareWorkload,
           QualifyNetworkPaths, Advance, GoPast, SendOnce, RequireResult, Report, Qualify, Catch,
           SaveMark, Cleanup, Destroy, SaveDestroyed, SaveFailed, KeepLateSignal
  <2> QED
    BY <1>1, <2>1, <2>2, <2>3, <2>4, <2>5, <2>6 DEF QualificationStep
<1>2. CASE Resume
  BY <1>2 DEF Resume
<1>3. CASE CleanupOnly \/ Upsets \/ UNCHANGED qualification
  BY <1>3 DEF CleanupOnly, Upsets, Breaks, Signal, Killed, Damage, qualification
<1> QED
  BY <1>1, <1>2, <1>3 DEF QualificationNext

\* Only a step of the measurement that is sent is counted.
LEMMA SendSteps ==
  ASSUME [QualificationNext]_qualification
  PROVE  sent' = sent \/ SendOnce
<1>1. CASE QualificationStep
  BY <1>1
     DEF QualificationStep, NewJob, WriteProviderPin, Announce, EnterRunner, Admit, Own,
         ProvisionFleet, PrepareWorkload, QualifyNetworkPaths, Advance, GoPast, InjectInterruption,
         RequireResult, Report, Qualify, Catch, SaveMark, Record, Cleanup, Destroy, SaveDestroyed,
         SaveFailed, LateSignal, KeepLateSignal, Finalize
<1>2. CASE Resume \/ CleanupOnly \/ Upsets \/ UNCHANGED qualification
  BY <1>2 DEF Resume, CleanupOnly, Upsets, Breaks, Signal, Killed, Damage, qualification
<1> QED
  BY <1>1, <1>2 DEF QualificationNext

\* The saved journal never goes back.
LEMMA JournalSteps ==
  ASSUME QualificationInv, [QualificationNext]_qualification
  PROVE  Place(kept.journal) <= Place(kept'.journal)
<1>1. Place(kept.journal) \in 1..9 /\ Place(trial.journal) \in 1..9
  BY PlacesAreNumbers DEF QualificationInv, QualificationTyped, IsTrial
<1>2. ASSUME point \notin {"idle", "ended"}, kept' = kept \/ kept'.journal = trial.journal
      PROVE  Place(kept.journal) <= Place(kept'.journal)
  BY <1>1, <1>2 DEF QualificationInv, SavedFits
<1>3. /\ [trial EXCEPT !.status = "provisioning"].journal = trial.journal
      /\ [trial EXCEPT !.status = "testing"].journal = trial.journal
      /\ [trial EXCEPT !.status = "reporting"].journal = trial.journal
      /\ [trial EXCEPT !.status = "destroyed"].journal = trial.journal
      /\ [trial EXCEPT !.status = "destroying"].journal = trial.journal
      /\ [trial EXCEPT !.status = "cleanup_failed"].journal = trial.journal
  BY DEF QualificationInv, QualificationTyped, IsTrial
<1>4. CASE NewJob \/ KeepLateSignal
  BY <1>2, <1>4 DEF NewJob, KeepLateSignal, SaveTrial
<1>5. CASE Admit \/ ProvisionFleet \/ Report \/ Cleanup \/ SaveFailed
  BY <1>2, <1>3, <1>5 DEF Admit, ProvisionFleet, Report, Cleanup, SaveFailed, SaveTrial
<1>6. CASE Own \/ QualifyNetworkPaths \/ SaveDestroyed
  <2>1. /\ [trial EXCEPT !.owns = "owned"].journal = trial.journal
        /\ [trial EXCEPT !.attested = TRUE].journal = trial.journal
        /\ [trial EXCEPT !.status = "destroyed", !.owns = "retained"].journal = trial.journal
    BY DEF QualificationInv, QualificationTyped, IsTrial
  <2> QED
    BY <1>2, <1>6, <2>1 DEF Own, QualifyNetworkPaths, SaveDestroyed, SaveTrial
<1>7. CASE Catch \/ SaveMark \/ Finalize
  <2>1. /\ Marked(trial).journal = trial.journal
        /\ [Marked(trial) EXCEPT !.status = "cleanup_pending"].journal = trial.journal
        /\ [trial EXCEPT !.status = "cleanup_pending"].journal = trial.journal
    BY MarkedTrials DEF QualificationInv, QualificationTyped, IsTrial
  <2>2. point \in {"caught", "unwind", "finalize"}
    BY <1>7 DEF Catch, SaveMark, Finalize
  <2>3. CASE Catch
    BY <1>2, <2>1, <2>2, <2>3 DEF Catch, SaveTrial
  <2>4. CASE SaveMark
    BY <1>2, <2>1, <2>2, <2>4 DEF SaveMark, SaveTrial
  <2>5. CASE Finalize
    BY <1>2, <2>1, <2>2, <2>5 DEF Finalize
  <2> QED
    BY <1>7, <2>3, <2>4, <2>5
<1>8. CASE Advance
  <2> DEFINE s == Journal[Place(trial.journal) + 1]
  <2>1. Place(s) = Place(trial.journal) + 1 /\ point = "measure"
    BY <1>8, JournalNext DEF Advance, QualificationInv, QualificationTyped, IsTrial
  <2>2. [trial EXCEPT !.journal = s, !.measured = s = "measurement_complete"].journal = s
    BY DEF QualificationInv, QualificationTyped, IsTrial
  <2>3. kept' = kept \/ kept'.journal = s
    BY <1>8, <2>2 DEF Advance, SaveTrial
  <2> HIDE DEF s
  <2> QED
    BY <1>1, <2>1, <2>3 DEF QualificationInv, SavedFits
<1>9. ASSUME kept' = kept PROVE Place(kept.journal) <= Place(kept'.journal)
  BY <1>1, <1>9
<1>10. CASE \/ WriteProviderPin \/ Announce \/ EnterRunner \/ PrepareWorkload \/ GoPast
            \/ InjectInterruption \/ SendOnce \/ RequireResult \/ Qualify \/ Record \/ Destroy \/ LateSignal \/ Resume
            \/ CleanupOnly \/ Upsets \/ UNCHANGED qualification
  BY <1>9, <1>10
     DEF WriteProviderPin, Announce, EnterRunner, PrepareWorkload, GoPast, InjectInterruption,
         SendOnce, RequireResult, Qualify, Record, Destroy, LateSignal, Resume, CleanupOnly, Upsets,
         Breaks, Signal, Killed, Damage, qualification
<1> QED
  BY <1>4, <1>5, <1>6, <1>7, <1>8, <1>10 DEF QualificationNext, QualificationStep

\* The origin of the evidence is kept at every step.
LEMMA OriginHolds ==
  ASSUME QualificationInv, [QualificationNext]_qualification
  PROVE  KeepsOrigin
<1>1. Written /\ evidence' # Damaged => SameOrigin(evidence')
  BY OriginsStay, EvidenceSteps
<1>2. sent' # sent /\ Written => Replayable(EvidenceState(evidence))
  BY SendSteps DEF SendOnce, TryBody, QualificationInv, EvidenceFits
<1> QED
  BY <1>1, <1>2 DEF SameOrigin, KeepsOrigin

\* What is sent was latched in the saved journal, and not sent before.
LEMMA SendsAreLatched ==
  ASSUME QualificationInv, QualificationInv', [QualificationNext]_qualification
  PROVE  [OneShotJournal!Next]_<<{s \in OneShots : Place(kept.journal) >= Place(s)}, sent>>
<1> DEFINE Latched == {s \in OneShots : Place(kept.journal) >= Place(s)}
<1>1. /\ Place(kept.journal) \in 1..9 /\ Place(kept'.journal) \in 1..9
      /\ \A s \in OneShots : Place(s) \in 1..9
  BY PlacesAreNumbers DEF QualificationInv, QualificationTyped, IsTrial, OneShots, JournalStates
<1>2. Latched \subseteq Latched' /\ Latched' \subseteq OneShots
  BY <1>1, JournalSteps
<1>3. CASE sent' = sent
  BY <1>2, <1>3 DEF OneShotJournal!Next, OneShotJournal!Latch
<1>4. CASE SendOnce
  <2>1. /\ trial.journal \in OneShots /\ sent[trial.journal] = 0 /\ kept' = kept /\ kept = trial
        /\ sent' = [sent EXCEPT ![trial.journal] = 1]
    BY <1>4 DEF SendOnce, QualificationInv, QualificationTyped, SendsFit, SavedFits, Unsent, TryBody
  <2>2. trial.journal \in Latched /\ Latched' = Latched
    BY <1>1, <2>1
  <2>3. OneShotJournal!Begin(trial.journal)
    BY <2>1, <2>2 DEF OneShotJournal!Begin
  <2> QED
    BY <2>1, <2>3 DEF OneShotJournal!Next
<1> QED
  BY <1>3, <1>4, SendSteps
-------------------------------------------------------------------------------
(* What follows for the qualification of a provider.                       *)

LEMMA QualificationAlone ==
  ASSUME [RunNext]_run
  PROVE  [QualificationNext]_qualification
BY DEF RunNext, Work, Awaited, Passing, Later, Distributed, CompactRun, Candidate, Operator, run,
       QualificationNext

\* The invariant of the qualification, at every step of every program.
THEOREM QualificationInvHolds == RunSpec => []QualificationInv
<1>1. RunInit => QualificationInv
  BY QualificationStarts DEF RunInit
<1>2. QualificationInv /\ [RunNext]_run => QualificationInv'
  BY QualificationAlone, QualificationStays
<1>3. QED
  BY <1>1, <1>2, PTL DEF RunSpec

\* Neither a candidate nor a qualification says that cleanup is complete, or ends
\* with an exit status that says so, unless nothing is left, and what is left can be
\* cleaned up by a later process.
THEOREM CleanupStaysProved == RunSpec => []CleanupIsProved
<1>1. CandidateInv /\ QualificationInv => CleanupIsProved
  BY ProofFollows, QualificationImplied DEF CleanupIsProved
<1>2. QED
  BY <1>1, CandidateInvHolds, QualificationInvHolds, PTL

\* The journal of a candidate's stage and the evidence of an interruption are kept:
\* neither is replaced by what a later signal, save or process would write.
THEOREM EvidenceStaysKept == RunSpec => EvidenceIsKept
<1>1. QualificationInv /\ [RunNext]_run => [KeepsOrigin]_qualification
  BY QualificationAlone, OriginHolds
<1>2. RunSpec => OriginIsKept
  BY <1>1, QualificationInvHolds, PTL DEF RunSpec, OriginIsKept
<1>3. QED
  BY <1>2, StageEvidenceStays DEF EvidenceIsKept

\* The initialization, the warm-up and the measurement of a qualification are each
\* sent at most once, after the journal says so, over all processes that resume it.
THEOREM QualificationSendsOnce == RunSpec => QualifiesOnce
<1>1. RunInit => OneShotJournal!Init
  BY PlacesInOrder
     DEF RunInit, QualificationInit, QualificationIdle, NewTrial, OneShots, OneShotJournal!Init
<1>2. QualificationInv /\ QualificationInv' /\ [RunNext]_run =>
        [OneShotJournal!Next]_<<{s \in OneShots : Place(kept.journal) >= Place(s)}, sent>>
  BY QualificationAlone, SendsAreLatched
<1>3. QED
  BY <1>1, <1>2, QualificationInvHolds, PTL DEF RunSpec, QualifiesOnce, OneShotJournal!Spec
===============================================================================
