------------------------------ MODULE RunBenchmarks ------------------------------
(***************************************************************************)
(* The programs that work on provisioned guests.  run_benchmarks           *)
(* (app/main.py) takes a plan with the distributed DeathStarBench to       *)
(* PipelineRun and any other to the compact runner of its provider; a      *)
(* candidate of the distributed DeathStarBench is staged by the operator   *)
(* of scripts/qualify_deathstarbench_candidate_support.py or, for Hotel,   *)
(* of qualify_deathstarbench_hotel_initialization.py; and a provider is    *)
(* qualified by qualify_*_deathstarbench_distributed.py.                   *)
(***************************************************************************)
EXTENDS PipelineRun, BenchmarkSuite, SupportOperator, Qualification

NoPlan == [provider |-> "none", benchmarks |-> {}, destroy |-> TRUE, nvme |-> FALSE, volume |-> FALSE]

\* The storage target of every provider; and selections in which what stops the
\* run, what is independent, and a server that must be quiet or retained follow
\* each other.
SmallPlans ==
  [provider : {"oci", "aws", "gcp", "azure"}, benchmarks : {{"core"}},
   destroy : {TRUE}, nvme : BOOLEAN, volume : BOOLEAN]
  \cup
  [provider : {"oci", "gcp"},
   benchmarks : {{"core", "network", "phoronix"}, {"phoronix", "llama", "hey"},
                 {"apachebench", "hey"}, {"apachebench", "hey", "deathstarbench"}},
   destroy : BOOLEAN, nvme : {FALSE}, volume : {TRUE}]

run == <<vars, suite, candidateRun, qualification>>

RunInit ==
  /\ \/ /\ workload \in Workloads /\ plan = NoPlan /\ place = "idle"
        /\ CandidateIdle /\ QualificationIdle
     \/ /\ workload = "none" /\ plan \in Plans /\ place = "prepare"
        /\ CandidateIdle /\ QualificationIdle
     \/ /\ workload = "none" /\ plan = NoPlan /\ place = "idle"
        /\ (CandidateInit /\ QualificationIdle) \/ (CandidateIdle /\ QualificationInit)
  /\ GuestsInit /\ SuiteInit
  /\ workload = "none" => network.enforced

Distributed(A) == workload # "none" /\ A /\ UNCHANGED <<suite, candidateRun, qualification>>
CompactRun(A) == plan # NoPlan /\ A /\ UNCHANGED <<vars, candidateRun, qualification>>
Candidate(A) == at # "idle" /\ A /\ UNCHANGED <<vars, suite, qualification>>
Operator(A) == point # "idle" /\ A /\ UNCHANGED <<vars, suite, candidateRun>>

\* The programs; what they wait for; and what else happens.
Work ==
  \/ Distributed(Attempt) \/ CompactRun(SuiteStep) \/ Candidate(OperatorStep)
  \/ Operator(QualificationStep)
Awaited == Distributed(PodsStart) \/ CompactRun(Guest(RunScript)) \/ Candidate(PodEnds)
Passing == Distributed(PathReturns) \/ Candidate(Settle)
Later == Distributed(EffectEnds) \/ Candidate(StartCleanup) \/ Operator(CleanupOnly)

RunNext ==
  \/ Work \/ Awaited \/ Passing \/ Later
  \/ Distributed(Restart) \/ Distributed(Others)
  \/ CompactRun(AskStop) \/ CompactRun(Guest(RunLeftover)) \/ CompactRun(Guest(Agent))
  \/ Candidate(StartResume) \/ Candidate(Around)
  \/ Operator(Resume) \/ Operator(Upsets)

\* An attempt goes on and is repeated; Pods start, outages end and commands
\* that were sent end.  A command of the compact run ends, since ssh has a
\* timeout, and so does a script, which counts its attempts.  The steps of the
\* operator have timeouts too; cleanup is asked for until it is proved, and what
\* was deleted is gone at last.
RunSpec ==
  /\ RunInit /\ [][RunNext]_run
  /\ WF_run(Work) /\ WF_run(Awaited) /\ WF_run(Passing) /\ WF_run(Later)

-------------------------------------------------------------------------------
(* Properties of the compact run, and those that the programs share; the   *)
(* others are in PipelineRun and SupportOperator.                          *)

\* When a benchmark of independent workloads is behind, each of them has a row,
\* whatever failed: its setup, a neighbour, or the save of its own row.
NoWorkloadIsForgotten ==
  Running =>
    \A i \in 1..(IF place = "end" THEN bench ELSE bench - 1) :
      LET b == Order(plan.provider)[i]
      IN b \in plan.benchmarks \cap Independent => \A r \in RowsOf(b) : rows[r] # {}

\* A runner that returns has completed every row the plan expects, so
\* require_complete_benchmark_results finds nothing that a runner forgot: no
\* deferred failure is lost on the way.  A stop is no failure: commands that were
\* killed leave no failed row, and a stopped run is told from one under way.
OutcomeIsHonest ==
  /\ place = "returned" => Outcome = "complete"
  /\ place = "stopped" => Outcome # "pending"
  /\ mishaps = 0 => "failed" \notin Statuses
  /\ NoWorkloadIsForgotten

\* fio only writes to the storage on record, which is mounted where the record
\* says, and which no script that was left behind can touch any more; and no web
\* server of an earlier benchmark runs beside DeathStarBench unless the command
\* to stop it was lost.
TargetIsReady ==
  place = "measure" =>
    /\ Row = "fio" =>
         /\ target \in Disk /\ disks[target] = [content |-> "xfs", mount |-> MountPoint(target)]
         /\ \A s \in leftovers : DisksAfter(s) = disks
    /\ Row = "deathstarbench" /\ httpd = "serving" => stopLost

\* Neither a file system of others, nor what a run has recorded or found.
NothingIsLost == NothingIsOverwritten /\ NothingIsReplaced

\* The one-shot steps of a public run, of a candidate and of a qualification.
OneShotsAreKept == ImplementsOneShot /\ InitializesOnce /\ QualifiesOnce

\* What a candidate or a qualification reports of its cleanup is so.
CleanupIsProved == CandidateIsProved /\ FleetIsProved

\* Neither loses or replaces the evidence of what it did.
EvidenceIsKept == StageEvidenceIsKept /\ OriginIsKept

\* The distributed run gets through with failures that come to an end, the
\* compact run comes to its end, and what a candidate or a qualification
\* provisioned is gone.
BenchmarksEnd ==
  <>(/\ workload # "none" => GotThrough
     /\ plan # NoPlan => ~Running
     /\ at # "idle" => CleanedUp
     /\ point # "idle" => QualificationEnds)
===============================================================================
