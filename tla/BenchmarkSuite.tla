----------------------------- MODULE BenchmarkSuite -----------------------------
(***************************************************************************)
(* The compact benchmark run of app/main.py: run_oci_benchmarks,           *)
(* run_aws_benchmarks and run_rocky_linux_benchmarks, which GCP and Azure  *)
(* share, with what they call.  A row of results says that one workload    *)
(* completed or failed.  Core, network, llama.cpp and DeathStarBench stop  *)
(* the run where they fail; Phoronix profiles and the modes of ApacheBench *)
(* and hey are independent, their failures are raised at the end.          *)
(*                                                                         *)
(* A command over SSH goes well, or raises, or is stopped by the user;     *)
(* event() saves the job and may raise after any of them.                  *)
(***************************************************************************)
EXTENDS StorageTarget, Sequences, FiniteSetsExt

VARIABLES
  bench,       \* index of the current benchmark in the provider's order
  place,       \* where the runner stands
  item,        \* index of the preparation step, row, profile or mode
  local,       \* httpd_installed and httpd_ready
  raised,      \* the exception that waits for a finally clause
  rows,        \* the statuses of the rows of each result
  deferred,    \* a failure is to be raised at the end
  interrupted, \* benchmark_interrupted
  stopAsked,   \* the cancel event
  httpd,       \* on the benchmark instance
  stopLost     \* a command that should stop it was lost

runner == <<bench, place, item, local, raised>>
suite == <<plan, runner, rows, deferred, interrupted, stopAsked, guestDisks, httpd, stopLost, mishaps>>

Compact == {"core", "network", "phoronix", "llama", "apachebench", "hey", "deathstarbench"}
Http == {"apachebench", "hey"}
Independent == Http \cup {"phoronix"}

Order(provider) ==
  IF provider = "oci"
  THEN <<"core", "phoronix", "network", "llama", "apachebench", "hey", "deathstarbench">>
  ELSE <<"core", "network", "phoronix", "llama", "apachebench", "hey", "deathstarbench">>

\* The rows a benchmark owes.
Results ==
  [core |-> <<"sysbench_cpu", "fio">>,
   network |-> <<"iperf_tcp">>,
   phoronix |-> <<"compress_7zip", "openssl">>,
   llama |-> <<"llama_bench">>,
   apachebench |-> <<"ab_new_connections", "ab_keep_alive">>,
   hey |-> <<"hey_keep_alive">>,
   deathstarbench |-> <<"deathstarbench">>]

\* BenchmarkPlan.validate_plan; the providers are those with a compact runner.
ASSUME PlansAreValid ==
  \A p \in Plans :
    /\ p.provider \in {"oci", "aws", "gcp", "azure"}
    /\ p.benchmarks \subseteq Compact /\ p.benchmarks # {}
ASSUME MaxMishapsNat == MaxMishaps \in Nat

RowsOf(b) == {Results[b][i] : i \in 1..Len(Results[b])}
ResultIds == UNION {RowsOf(b) : b \in Compact}
Expected == UNION {RowsOf(b) : b \in plan.benchmarks}   \* expected_benchmark_result_ids

Statuses == UNION {rows[r] : r \in ResultIds}

\* benchmark_status, with job['error'] set where a run failed without a stop.
Outcome ==
  CASE "failed" \in Statuses -> "failed"
    [] "failed" \notin Statuses /\ interrupted -> "interrupted"
    [] "failed" \notin Statuses /\ ~interrupted ->
         IF Statuses # {} /\ \A r \in Expected : "completed" \in rows[r] THEN "complete"
         ELSE IF place = "failed" /\ ~stopAsked THEN "failed" ELSE "pending"

\* What comes before the first benchmark, and what of it a plan wants.
Preparation == <<"transport", "readiness", "install", "peer", "storage", "topology">>

Wanted(step) ==
  CASE step = "transport" -> plan.provider \in {"gcp", "azure"}
    [] step = "peer" -> "network" \in plan.benchmarks
    [] step = "storage" -> "core" \in plan.benchmarks \/ plan.volume
    [] step = "topology" -> plan.provider = "oci" /\ "core" \in plan.benchmarks
    [] OTHER -> TRUE

SuiteInit ==
  /\ bench = 0 /\ item = (IF Wanted("transport") THEN 1 ELSE 2) /\ local = {} /\ raised = "none"
  /\ rows = [r \in ResultIds |-> {}] /\ deferred = FALSE
  /\ interrupted = FALSE /\ stopAsked = FALSE
  /\ DisksInit /\ httpd = "absent" /\ stopLost = FALSE
  /\ mishaps = 0

Running == place \notin {"idle", "returned", "failed", "stopped"}

-------------------------------------------------------------------------------
(* How the runner goes on.                                                 *)

Works == ~stopAsked /\ UNCHANGED mishaps
Fails(n) == ~stopAsked /\ mishaps + n <= MaxMishaps /\ mishaps' = mishaps + n
Stopped == stopAsked /\ UNCHANGED mishaps

GoTo(p, i) == place' = p /\ item' = i /\ UNCHANGED <<bench, local, raised>>

Raise == GoTo("failed", 1)
Cancelled == GoTo("stopped", 1)

Entry(b) ==
  CASE b = "phoronix" -> "pts"
    [] b \in Http -> "addresses"
    [] b = "deathstarbench" -> "stack"
    [] OTHER -> "measure"

\* The next selected benchmark, or the end.
NextBenchmark ==
  LET order == Order(plan.provider)
      rest == {i \in bench + 1 .. Len(order) : order[i] \in plan.benchmarks}
  IN /\ IF rest = {} THEN place' = "end" /\ bench' = bench
        ELSE place' = Entry(order[Min(rest)]) /\ bench' = Min(rest)
     /\ item' = 1 /\ local' = {} /\ raised' = "none"

Current == IF bench = 0 THEN "none" ELSE Order(plan.provider)[bench]
At(p, benchmarks) == place = p /\ Current \in benchmarks
Row == Results[Current][item]
Onward(p) == IF item < Len(Results[Current]) THEN GoTo(p, item + 1) ELSE NextBenchmark

Append1(r, statuses) == rows' = [rows EXCEPT ![r] = @ \cup statuses]

\* Rows that are still missing are recorded as failed.
FailMissing == rows' = [r \in ResultIds |->
  IF r \in RowsOf(Current) /\ rows[r] = {} THEN {"failed"} ELSE rows[r]]

untouched == <<plan, interrupted, stopAsked>>
web == <<httpd, stopLost>>
guests == <<guestDisks, web>>

-------------------------------------------------------------------------------
(* Preparation of the benchmark instance.                                  *)

Step == Preparation[item]
Preparing(steps) == place = "prepare" /\ Step \in steps
StepDone ==
  LET rest == {i \in item + 1 .. Len(Preparation) : Wanted(Preparation[i])}
  IN IF rest = {} THEN NextBenchmark ELSE GoTo("prepare", Min(rest))

\* wait_for_ssh_transport asks again until the guest answers, or gives up.
ConnectTransport ==
  /\ Preparing({"transport"})
  /\ \/ Works /\ StepDone
     \/ Fails(1) /\ GoTo("prepare", item)
     \/ Fails(1) /\ Raise
     \/ Stopped /\ Cancelled
  /\ UNCHANGED <<untouched, rows, deferred, guests>>

\* A command or two that must go well.
PreparationStep(step) ==
  /\ Preparing({step})
  /\ \/ Works /\ StepDone
     \/ Fails(1) /\ Raise
     \/ Stopped /\ Cancelled
  /\ UNCHANGED <<untouched, rows, deferred, guests>>

WaitForReadiness == PreparationStep("readiness")
InstallTools == PreparationStep("install")
WaitForPeer == PreparationStep("peer")
RecordTopology == PreparationStep("topology")

-------------------------------------------------------------------------------
(* The storage target; the scripts are in StorageTarget.                   *)

Measures == "core" \in plan.benchmarks   \* fio is among the core benchmarks
Send(d, p) == script' = Sent(d) /\ GoTo(p, item)
Drop == script' = NoScript
Abandon == script' = NoScript /\ leftovers' = leftovers \cup (IF Busy(script) THEN {script} ELSE {})

\* Without a disk that was promised, without a volume, a run that measures ends.
ToVolume ==
  IF plan.volume THEN Send("data", "mount") ELSE Drop /\ Raise

BeginStorage ==
  /\ Preparing({"storage"})
  /\ \/ Works /\ Measures /\ plan.nvme /\ Send("local", "local")
     \/ Works /\ ~(Measures /\ plan.nvme) /\ ToVolume
     \/ Fails(1) /\ Drop /\ Raise
     \/ Stopped /\ Drop /\ Cancelled
  /\ UNCHANGED <<untouched, rows, deferred, disks, leftovers, target, web>>

\* The command for the local disk is sent once.
AwaitLocal ==
  /\ place = "local"
  /\ \/ /\ script.at = "ok" /\ target' = "local" /\ Drop /\ UNCHANGED leftovers
        /\ \/ Works /\ StepDone
           \/ Fails(1) /\ Raise
     \/ /\ script.at = "fallback" /\ UNCHANGED <<target, leftovers>>
        /\ \/ Works /\ ToVolume
           \/ Fails(1) /\ Drop /\ Raise
     \/ script.at = "failed" /\ Works /\ Drop /\ Raise /\ UNCHANGED <<target, leftovers>>
     \/ Fails(1) /\ Abandon /\ Raise /\ UNCHANGED target
     \/ Stopped /\ Abandon /\ Cancelled /\ UNCHANGED target
  /\ UNCHANGED <<untouched, rows, deferred, disks, web>>

\* Mistake: what answers is taken for the volume, without a look at it.
AwaitMountOnly ==
  /\ place = "mount"
  /\ \/ /\ script.at \in {"ok", "failed"} /\ Works /\ UNCHANGED leftovers
        /\ target' = "data" /\ Drop /\ StepDone
     \/ /\ Busy(script) /\ Fails(1) /\ UNCHANGED target
        /\ leftovers' = leftovers \cup {script} /\ Send("data", "mount")
     \/ Fails(1) /\ Abandon /\ Raise /\ UNCHANGED target
     \/ Stopped /\ Abandon /\ Cancelled /\ UNCHANGED target
  /\ UNCHANGED <<untouched, rows, deferred, disks, web>>

\* The command for the volume is sent again when its connection is lost.
AwaitMount ==
  /\ place = "mount"
  /\ \/ /\ script.at = "ok" /\ Works /\ UNCHANGED leftovers
        /\ IF Measures THEN script' = [disk |-> "data", at |-> "describe"] /\ GoTo("describe", item)
           ELSE Drop /\ StepDone
     \/ script.at = "failed" /\ Works /\ Drop /\ Raise /\ UNCHANGED leftovers
     \/ /\ Busy(script) /\ Fails(1)
        /\ leftovers' = leftovers \cup {script} /\ Send("data", "mount")
     \/ Fails(1) /\ Abandon /\ Raise
     \/ Stopped /\ Abandon /\ Cancelled
  /\ UNCHANGED <<untouched, rows, deferred, disks, target, web>>

\* What is mounted at /data is recorded as the target.
AwaitDescription ==
  /\ place = "describe"
  /\ \/ /\ script.at = "described" /\ target' = "data" /\ Drop
        /\ \/ Works /\ StepDone
           \/ Fails(1) /\ Raise
     \/ script.at # "described" /\ Fails(1) /\ Drop /\ Raise /\ UNCHANGED target
     \/ Stopped /\ Drop /\ Cancelled /\ UNCHANGED target
  /\ UNCHANGED <<untouched, rows, deferred, disks, leftovers, web>>

-------------------------------------------------------------------------------
(* execute_benchmark, where a failure ends the run.                        *)

\* The save of Started may raise before there is a row, the save of Run complete
\* after a completed one; a failed command and useless output leave a failed
\* row.  DeathStarBench adds a failed row if there is none.
Measure ==
  /\ At("measure", {"core", "network", "llama", "deathstarbench"})
  /\ \/ Works /\ Append1(Row, {"completed"}) /\ Onward("measure")
     \/ /\ Fails(1)
        /\ \E s \in {{}, {"failed"}, {"completed"}} :
             /\ Current = "deathstarbench" => s # {}
             /\ Append1(Row, s)
        /\ Raise
     \/ Stopped /\ UNCHANGED rows /\ Cancelled
  /\ UNCHANGED <<untouched, deferred, guests>>

-------------------------------------------------------------------------------
(* run_phoronix_profiles.                                                  *)

\* Preparation that fails gives every profile a failed row.
PreparePhoronix ==
  /\ At("pts", {"phoronix"})
  /\ \/ Works /\ GoTo("measure", 1) /\ UNCHANGED <<rows, deferred>>
     \/ Fails(1) /\ FailMissing /\ deferred' = TRUE /\ NextBenchmark
     \/ Fails(1) /\ UNCHANGED <<rows, deferred>> /\ Raise
     \/ Stopped /\ UNCHANGED <<rows, deferred>> /\ Cancelled
  /\ UNCHANGED <<untouched, guests>>

\* Mistake: a profile that fails before it has a row is passed over.
MeasureProfileRowless ==
  /\ At("measure", {"phoronix"})
  /\ \/ Works /\ Append1(Row, {"completed"}) /\ Onward("measure") /\ UNCHANGED deferred
     \/ Fails(1) /\ (\E s \in {{}, {"failed"}, {"completed"}} : Append1(Row, s))
          /\ deferred' = TRUE /\ Onward("measure")
     \/ Stopped /\ UNCHANGED <<rows, deferred>> /\ Cancelled
  /\ UNCHANGED <<untouched, guests>>

\* A failed profile has a row at least; the warning that follows may raise.
MeasureProfile ==
  /\ At("measure", {"phoronix"})
  /\ \/ Works /\ Append1(Row, {"completed"}) /\ Onward("measure") /\ UNCHANGED deferred
     \/ /\ \E s \in {{"failed"}, {"completed"}} : Append1(Row, s)
        /\ deferred' = TRUE
        /\ \/ Fails(1) /\ Onward("measure")
           \/ Fails(2) /\ Raise
     \/ Stopped /\ UNCHANGED <<rows, deferred>> /\ Cancelled
  /\ UNCHANGED <<untouched, guests>>

-------------------------------------------------------------------------------
(* _run_http_benchmark, for ApacheBench and hey.                           *)

\* An exception waits until httpd has been looked after.
Unwind(kind) == place' = "finally" /\ raised' = kind /\ UNCHANGED <<bench, item, local>>

\* Provisioning must have left addresses and a capacity.
CheckAddresses ==
  /\ At("addresses", Http)
  /\ \/ GoTo("service", 1) /\ UNCHANGED <<rows, deferred, mishaps>>
     \/ /\ FailMissing
        /\ \/ Fails(1) /\ deferred' = TRUE /\ NextBenchmark
           \/ Fails(2) /\ UNCHANGED deferred /\ Raise
  /\ UNCHANGED <<untouched, guests>>

Present(state) == IF state = "absent" THEN "installed" ELSE state

InstallServer ==
  /\ At("service", Http)
  /\ \/ /\ Works
        /\ httpd' = Present(httpd)
        /\ local' = {"installed"} /\ place' = "client" /\ UNCHANGED <<bench, item, raised>>
     \/ Fails(1) /\ httpd' \in {httpd, Present(httpd)} /\ GoTo("handler", 1)
     \/ Stopped /\ httpd' \in {httpd, Present(httpd)} /\ Unwind("stop")
  /\ UNCHANGED <<untouched, rows, deferred, guestDisks, stopLost>>

InstallClient ==
  /\ At("client", Http)
  /\ \/ Works /\ GoTo("target", 1)
     \/ Fails(1) /\ GoTo("handler", 1)
     \/ Stopped /\ Unwind("stop")
  /\ UNCHANGED <<untouched, rows, deferred, guests>>

\* Starts httpd.
PrepareTarget ==
  /\ At("target", Http)
  /\ \/ /\ Works
        /\ httpd' = "serving" /\ local' = local \cup {"ready"}
        /\ place' = "probe" /\ UNCHANGED <<bench, item, raised>>
     \/ Fails(1) /\ httpd' \in {httpd, "serving"} /\ GoTo("handler", 1)
     \/ Stopped /\ httpd' \in {httpd, "serving"} /\ Unwind("stop")
  /\ UNCHANGED <<untouched, rows, deferred, guestDisks, stopLost>>

\* The load generator, architectures, and a first request.
ProbeTarget ==
  /\ At("probe", Http)
  /\ \/ Works /\ GoTo("mode", 1)
     \/ Fails(1) /\ GoTo("handler", 1)
     \/ Stopped /\ Unwind("stop")
  /\ UNCHANGED <<untouched, rows, deferred, guests>>

OnwardMode ==
  IF item < Len(Results[Current]) THEN GoTo("mode", item + 1) ELSE GoTo("finally", 1)

\* Mistake: failures of the modes are recorded but not raised at the end.
MeasureModeQuietly ==
  /\ At("mode", Http)
  /\ \/ Works /\ Append1(Row, {"completed"}) /\ OnwardMode
     \/ Fails(1) /\ Append1(Row, {"failed"}) /\ OnwardMode
     \/ Stopped /\ UNCHANGED rows /\ Unwind("stop")
  /\ UNCHANGED <<untouched, deferred, guests>>

\* Warm-up and trials of one mode.  A completed row whose save raises is joined
\* by a failed one; the warning after a failure may raise too.
MeasureMode ==
  /\ At("mode", Http)
  /\ \/ Works /\ Append1(Row, {"completed"}) /\ OnwardMode /\ UNCHANGED deferred
     \/ /\ \E s \in {{"failed"}, {"completed", "failed"}} : Append1(Row, s)
        /\ deferred' = TRUE
        /\ \/ Fails(1) /\ OnwardMode
           \/ Fails(2) /\ GoTo("handler", item)
     \/ Stopped /\ UNCHANGED <<rows, deferred>> /\ Unwind("stop")
  /\ UNCHANGED <<untouched, guests>>

\* The rest of the modes fails with the setup.
HandleFailure ==
  /\ At("handler", Http)
  /\ FailMissing
  /\ deferred' = (deferred \/ \E r \in RowsOf(Current) : rows[r] = {})
  /\ \/ GoTo("finally", 1) /\ UNCHANGED mishaps
     \/ mishaps < MaxMishaps /\ mishaps' = mishaps + 1 /\ Unwind("error")
  /\ UNCHANGED <<untouched, guests>>

Leave ==
  CASE raised = "none" -> NextBenchmark
    [] raised = "error" -> Raise
    [] raised = "stop" -> Cancelled

\* Mistake: a server that is to be retained is retained although DeathStarBench follows.
RetainAlways == "ready" \in local /\ ~plan.destroy

Retain == "ready" \in local /\ ~plan.destroy /\ "deathstarbench" \notin plan.benchmarks

\* The finally clause: httpd is retained for follow-up tests, or stopped if this
\* benchmark installed it; a stop that fails is a warning, which may raise.
LookAfterServer ==
  /\ At("finally", Http)
  /\ \/ /\ Retain /\ UNCHANGED <<httpd, stopLost>>
        /\ \/ Leave /\ UNCHANGED mishaps
           \/ mishaps < MaxMishaps /\ mishaps' = mishaps + 1 /\ Raise
     \/ /\ ~Retain /\ "installed" \in local
        /\ \/ Works /\ httpd' = "installed" /\ Leave /\ UNCHANGED stopLost
           \/ /\ httpd' \in {httpd, "installed"} /\ stopLost' = TRUE
              /\ \/ Fails(1) /\ Leave
                 \/ Fails(2) /\ Raise
           \/ Stopped /\ httpd' \in {httpd, "installed"} /\ UNCHANGED stopLost /\ Cancelled
     \/ /\ ~Retain /\ "installed" \notin local
        /\ Leave /\ UNCHANGED <<httpd, stopLost, mishaps>>
  /\ UNCHANGED <<untouched, rows, deferred, guestDisks>>

-------------------------------------------------------------------------------
(* run_deathstarbench, and the end.                                        *)

FailStack ==
  /\ Fails(1) /\ Append1(Row, {"failed"}) /\ Raise

\* Podman, sources, images, build and deployment.
DeployStack ==
  /\ At("stack", {"deathstarbench"})
  /\ \/ Works /\ GoTo("dataset", 1) /\ UNCHANGED rows
     \/ FailStack
     \/ Stopped /\ UNCHANGED rows /\ Cancelled
  /\ UNCHANGED <<untouched, deferred, guests>>

\* The load generator, readiness, data and warm-up.
LoadDataset ==
  /\ At("dataset", {"deathstarbench"})
  /\ \/ Works /\ GoTo("measure", 1) /\ UNCHANGED rows
     \/ FailStack
     \/ Stopped /\ UNCHANGED rows /\ Cancelled
  /\ UNCHANGED <<untouched, deferred, guests>>

RaiseDeferred ==
  /\ place = "end"
  /\ IF deferred THEN Raise ELSE GoTo("returned", 1)
  /\ UNCHANGED <<untouched, rows, deferred, guests, mishaps>>

\* The destroy endpoint, while the worker runs: it looks at the outcome first.
\* RunLifecycle takes this apart.
AskStop ==
  /\ Running /\ ~stopAsked
  /\ stopAsked' = TRUE
  /\ interrupted' = (Outcome \notin {"complete", "failed"})
  /\ UNCHANGED <<plan, runner, rows, deferred, guests, mishaps>>

SuiteStep ==
  \/ ConnectTransport \/ WaitForReadiness \/ InstallTools \/ WaitForPeer \/ RecordTopology
  \/ BeginStorage \/ AwaitLocal \/ AwaitMount \/ AwaitDescription
  \/ Measure \/ PreparePhoronix \/ MeasureProfile
  \/ CheckAddresses \/ InstallServer \/ InstallClient \/ PrepareTarget \/ ProbeTarget
  \/ MeasureMode \/ HandleFailure \/ LookAfterServer
  \/ DeployStack \/ LoadDataset \/ RaiseDeferred

\* The guest, while the runner waits.
Guest(A) == Running /\ A /\ UNCHANGED <<runner, rows, deferred, interrupted, stopAsked, web>>
Agent == place = "local" /\ AgentTakesLocal
===============================================================================
