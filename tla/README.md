# A verification project for Cloud Self-Service Benchmarks

The repository is a local FastAPI application (`app/main.py`) that creates cloud
infrastructure on OCI, AWS, GCP or Azure, runs benchmarks over SSH, writes a
report and destroys what it created.  State lives in `app/runs/<run id>/`: a
`state.json`, artifacts, and the files of a lease that keeps two processes from
working on one run.  Beside it stand programs for operators (`scripts/`), which
qualify a provider or a candidate of a benchmark with the same modules.  What can
go wrong is money and evidence: cloud resources nobody can find any more, things
of others that are deleted, two cleanups of one run, a finished benchmark that is
called interrupted, a result that rests on a step that was made twice or not at
all.

## Inventory

| Part | State | Operations | Interacts with | Hard because | Correct when |
|---|---|---|---|---|---|
| Run lease (`run_lease.py`) | two lock files, owner sidecar, descriptors | acquire, inspect, release, validate | every process that shares `runs/`, an older qualifier that knows one lock only, history deletion | locks belong to open files, directories are renamed under open descriptors, holders die | one owner; a returned lease stays valid; "unheld" is true |
| Run supervisor (`run_job`, `finish_cancelled_job`) | job dict, `jobs`, `job_tasks`, `job_cancel_events` | provision, test, report, clean up, stop | worker threads, destroy requests, shutdown | a stop, a failure and a shutdown can meet in any await | cleanup is tried, the outcome is kept, the lease is given up |
| Destroy endpoint (`destroy`) | request-local job references, lease | stop a live run, recover a saved one | supervisor, saved state, lease | everything is read before an await or a lease and used after it | one cleanup at a time, from a state read under the lease |
| History (`clear_saved_runs`, `forget_deleted_run`) | directories, registries | delete, forget | lease, registries of this and other servers | runs on a thread, registries of other servers stay stale | nothing recoverable or live is deleted |
| State file (`persist_job_state`, `record_resource`) | `state.json`, temporary files | save, load | loop thread and worker thread save one job | no lock around copy, write and rename | what was recorded can be recovered |
| Compact provisioning and cleanup (OCI in `main.py`; `providers/aws.py`, `gcp.py`, `azure.py`) | resource manifest: identities, intents, contracts | create, record, adopt, look up, delete | cloud control planes, others in the account | answers lost after a create, dependency order, retries, deletion by name | the manifest covers what exists; `destroyed` means gone; nothing of others goes |
| Distributed provider graphs (`providers/*.py`, `deathstarbench_distributed.py`) | the plan with a status for every resource | create, resume, reconcile, stop the load, verify, delete | cloud control planes, the measurement journal | the same, and tombstones, damaged records, foreign attachments | nothing is created twice or deleted on incomplete knowledge |
| SSH processes and cancellation (`ssh`, `job_processes`) | process sets, event | register, signal, reap | destroy endpoint, workers | a process started while a stop is signalled | a stopped run has no process left |
| Compact benchmarks (`run_*_benchmarks`, `benchmark_status`) | result rows, status, a retained web server | prepare, execute, record, classify | supervisor, guests | partial results, saves that raise, stops | complete only when every expected row is |
| Storage target (`storage_target.py`, mount commands) | disks of the guest, the target on record | choose, format, mount | image agents, retried SSH | commands that are sent again while the first still runs | nothing of others is formatted; fio writes where the record says |
| Distributed DeathStarBench (`deathstarbench_distributed.py`, `k3s_*`, guest scripts) | journals in the manifest, authority, file system, cluster objects | prepare hosts, join, deploy, qualify the network, measure once | five guests over SSH, Kubernetes | attempts are repeated over what earlier ones left; ambiguous SSH after a one-shot step | what is recorded is there; nothing found is replaced; no one-shot step is repeated |
| Hotel and Media benchmarks | stage journal, result | seed, check, warm up, measure | the cluster | everything happens once | a result rests on steps that finished |
| Candidate support stage, Hotel initialization, their operator (`deathstarbench_candidate_*`, `deathstarbench_hotel_*`) | `state.json` of the candidate, latch and event files, journal archive | provision, apply phases, dispatch behind latches, archive, remove, prove absence | Kubernetes, provider graphs, signals | latches written before effects, applies that outlive their process, cleanup that must prove itself | a latched dispatch is never repeated; "complete" means gone |
| Provider qualification (`qualify_*_deathstarbench_distributed.py`) | run state, measurement journal, `qualification-interruption.json` | qualify, interrupt, resume, clean up only | measurement, graphs, signals | signals in every step, two files that must tell one story | evidence is never replaced; nothing is measured twice; cleanup is always possible |
| Resource inventory (`resource_inventory.py`) | inventory in the manifest | register, adopt, forget nodes | providers | merging with legacy fields | node identities are stable |
| Run status (`job_status`) | none | show | lease, `state.json` | reads one after the other | - |
| Comparison and reports (`comparison.py`, `make_report`) | documents | build, group | history | pure data | only comparable runs are grouped |
| Catalog, models, registry, request guard | none | validate | HTTP | pure functions | - |
| Front end (`app/static`) | polled view | poll, render | HTTP API | stale responses | - |
| Image builders, Go and Lua drivers | their own | build images, make load | clouds, registries | operator tools | - |

`PROJECT.json` lists the parts with what is modelled of each, and the hazards
with the lines where they bite.

## Modules

### The run and its lease

`RunOwnership` is the abstract promise of a lease: at most one owner, a grant of
the current protocol only while the directory is in place, removal only by the
owner.

`RunLease` is `run_lease.py` at the level of its system calls.  Files are inode
numbers, a descriptor refers to an inode, `flock` is refused when another open
file on the same inode is locked.  An element of `Proc` is one *call* (open file
descriptions, not processes, hold locks), an element of `OldQualifier` is a
process of the historical Azure qualifier, which is external to the repository's
current code and known from the comments of `acquire_run_lease`.  `mode` tells an
acquisition from an inspection, `pc` where it stands; every call of the operating
system between two places is one action, every exception path leads to the
unlock epilogue, a crash drops descriptors and locks.  History deletion is
included as `HideDirectory`, `Unlink`, `FinishRemoval` since it removes the lock
files themselves.  Abstracted: permissions, ownership and size checks of files
(they turn into `AcquireFails`/`InspectFails`), the text of the sidecar.
`MCRunLease` adds a history variable for inspections.

`RunLifecycle` is one run as all servers see it.  A server is an event loop (its
handlers and supervisor run between awaits; `LoopFree` says no handler is between
two of its steps), one worker thread for the run and one for history deletion.
The lease is reduced to its owner, which the proved refinement of `RunLease`
justifies.  Shared state is `state.json` (`disk`), the directory, the lease and
the cloud; each server has its own job object and registries.  A destroy request
is split where another thread or server can be seen: at awaits, file reads and
lease acquisition, so what it read before can be stale when used.  Providers come
in three kinds, which differ in what is saved when: `ids` (OCI: the ID is saved
after the create returned), `owned` (AWS, GCP, Azure: intent and deterministic
identity are saved first), `distributed` (a contract that covers all resources is
saved first).  Abstracted: results are none, partial, complete or failed
(`BenchmarkSuite` opens them up); a create takes effect at once and a cleanup
lookup finds what exists (`CompactRun` and `DistributedRun` open that up); a
failed save, the 409 gates on inconsistent manifests and the normalisation of
states written by old versions are left out.  SIGTERM is a crash; SIGINT is the
orderly `Shutdown`, in which asyncio cancels the tasks.

`StatePersistence` opens up the save that `RunLifecycle` takes as one step: copy
of the status, walk over the live resources dict, rename, from two threads.

`SshCommand` is `ssh` with the processes it starts, the registry of a job's
processes and the stop that sets the event and signals what is registered.
`pc` tells where the worker stands in `ssh`; a wait is a loop of slices, so an
event set in a slice is seen at its end.  A process may ignore SIGTERM (`deaf`)
and may never exit.  Only the last process can be alive; the others have been
reaped, so their numbers suffice.  Key files, arguments and outputs are left out.

### Cloud resources

`Custody` is what every provider promises about the resources of a run: whatever
exists can be traced from what is saved, a trace is given up only when nothing is
left at its end, and a finished run has left nothing and creates nothing.

`CompactCloud` holds what compact runs share: a plan as a sequence of creates
(`at`), identities on record (`ids`), intents that were saved before a create
(`intent`), those whose answer is lost (`unresolved`), what exists (`cloud`), what
belongs to somebody else (`foreign`), and passes of cleanup (`phase`).  A step is
one call to the cloud with the saves around it.  It is answered, refused, or
fails and leaves open whether it took effect; a crash between a call and the save
of its answer looks like the last of these.  `AwsRun`, `GcpRun`, `AzureRun` and
`OciRun` are `provision` and `destroy_resources` of one provider each, in the
order of the code, with the way each finds a lost create again: ownership tags
and an ambiguity flag, client tokens (AWS), deterministic names and request IDs
that are replayed, boot disks with a contract of their own (GCP), one group
(Azure), nothing (OCI).  On GCP and Azure others may take a name whose resource
was deleted by hand; deletion there goes by name, after a look at it.
`CompactRun` puts the four together and states their properties.

`GraphCloud` holds what distributed graphs share: a plan saved before the first
create, a `status` for every resource of it, the state of its record (`contract`:
also empty, truncated or damaged), load that may run (`traffic`), and where the
graph is not, or not only, what the run has made (`stranger`): at its load
generator, at the group that Azure keeps it in, or anywhere else.  Before the load
is stopped the code verifies the load generator (on Azure first the group) and
nothing else (`Guards`, `StopExact`).  `AwsGraph`, `OciGraph`, `GcpGraph` and
`AzureGraph` create, resume, reconcile, verify and delete; `DistributedRun` puts
them together.  Resources of a kind that the code treats alike are represented by
one (or two, where one may fail and the other not).

### What runs on the guests

`Guests` is a distributed run after its resources exist: the job in memory and on
disk, the guests that commands change, the cluster.  A command is answered, or
fails and leaves nothing, a part of its effect or all of it; a save changes the
job in memory before it may fail; attempts are repeated in the same process or in
a new one.  On it stand `K3sPreparation` (hosts, file system, authority, joining),
`SocialPreparation` (secrets, volume, phases of the workload, attestations),
`NetworkQualification` (a probe Pod that policies must cut off, between two
controls), `SupportBenchmark` (Hotel and Media to their results) and
`PipelineRun`, which is `run_distributed_deathstarbench`.

`OneShot` is the abstract promise of a one-shot journal: a step is latched on
disk before it begins, begins at most once, and no latch is ever taken back.

`MeasurementJournal` is `deathstarbench_distributed_measurement.py`: one
invocation of `run_distributed_social_network_measurement` after another, in the
same process or after a restart, against a load generator that keeps going on its
own.  `pc` is the next command or save of the invocation; `memory` and `disk` are
the journal state and the presence of a result in the job and in `state.json`,
and a save may raise and leave them apart.  A dispatch is sent, may fly for any
time, arrive, or be lost, and so may its answer; the transient systemd unit and
its claim directory, the databases and the load commands of the two phases move
by themselves.  A poll sees the unit or nothing.  The transports' failures,
parsers and attestations that raise, passed deadlines, a replaced pod and a stop
are all `Fail`.  The application calls the function once in a run; the function
itself, its comment on recovery and its tests promise that it may be called
again, so `Invoke` is not restricted.  A save is one step here; what can happen
inside is the subject of `StatePersistence`.  Contents of journals and results
are left out, and so are the prerequisites, which change no state.

`StorageTarget` is the choice, formatting and mounting of the disk that fio
writes to: a local disk if the control plane promised one and the guest finds it
blank, else the volume.  A command is a script of several steps on the guest; when
its connection is lost it may go on while `ssh` sends it again.

`BenchmarkSuite` is the compact runner of each provider over the rows of results:
the order of benchmarks, what stops the run and what is independent, deferred
failures, the web server that is stopped or retained, stops, and saves that raise
after a command went well.

`CandidateState` is the private store of a candidate; `SupportStage` stages its
support services in six journaled phases; `HotelInitialization` dispatches the
initializer and the verifier behind latches; `SupportOperator` is the program
around them that provisions, archives, deletes and proves absence.

`Qualification` is the operator's qualification of a provider: a new run, its
resumption after a process ended, or cleanup only, with signals at any moment
and the evidence file of an interruption.  The AWS and OCI, the Azure and the GCP
driver differ in `driver`; where the three take the same step the map names one of
them.

`RunBenchmarks` puts `PipelineRun`, `BenchmarkSuite`, `SupportOperator` and
`Qualification` together as the programs that work on provisioned guests; a
behaviour takes one of them.

`RunLeaseProofs`, `RunLifecycleProofs`, `WorkerThreadProofs` (SSH and the saves of
the state file), `MeasurementJournalProofs`, `CompactRunProofs`,
`DistributedRunProofs`, `RunBenchmarksProofs` (compact benchmarks, candidate,
qualification) and `PipelineRunProofs` (the distributed run) hold the theorems.

Definitions introduced by a comment "Mistake:" are wrong versions of the
definition that follows them or is named by them.  They are used by nothing; put
in its place they make the property they were written for fail.

## Runs

| Run | Shows |
|---|---|
| `lease` (`MCRunLease.cfg`) | mutual exclusion, validity of held leases, truth of "unheld", refinement of `RunOwnership` |
| `lifecycle` (`MCRunLifecycle.cfg`) | workers own their run, `destroyed` means gone, what exists can be recovered, `destroyed` is final, outcomes are kept, cleanup follows stops and failures |
| `lifecycle_live` (`RunLifecycleLive.cfg`) | the lease is given up, requests are answered |
| `persistence` (`StatePersistence.cfg`) | the supervisor's next save settles whatever races did |
| `persistence_lost` (`StatePersistenceLost.cfg`) | finding: a late save takes a recorded resource off the disk |
| `ssh` (`SshCommand.cfg`) | nothing is left running between calls and before cleanup, a stop lets at most one process start and ends the worker |
| `measurement` (`MeasurementJournal.cfg`) | each one-shot step begins at most once and after its latch, nothing overlaps the measured traffic, a saved result is evidence, an invocation ends |
| `compact` (`CompactRun.cfg`) | the four compact providers implement `Custody`, spare what others have, and repeated passes end in `destroyed` |
| `aws_association` (`AwsAssociation.cfg`) | finding: a lost answer to a disassociation keeps the run from ever being destroyed |
| `graph` (`DistributedRun.cfg`) | the four graphs implement `Custody`; tombstones are true, nothing is created twice, nothing is deleted on incomplete knowledge or under load, passes converge |
| `pipeline` (`RunBenchmarks.cfg`) | what runs on the guests, for operators too: eleven properties about journals, results, outcomes, storage, evidence, one-shot steps, proofs of cleanup, and the end of each program |
| `damaged_evidence` (`DamagedEvidence.cfg`) | finding: damaged evidence keeps AWS and OCI from cleaning up |

The properties of `pipeline` that combine those of several programs name their
parts: `NothingIsLost` (`NothingIsOverwritten` of storage, `NothingIsReplaced` of
the cluster), `OneShotsAreKept` (Hotel and Media, the Hotel initialization, the
qualification; all three refine `OneShot`), `CleanupIsProved`, `EvidenceIsKept`,
and `BenchmarksEnd`.

### Bounds

`lease`: three calls and one old qualifier.  Two calls compete for the lock, the
third is the one a removal overtakes or that inspects; the proofs cover any
number.  Inode numbers are not bounded by a constraint: a name can only be bound
again after it was unlinked, and only until the directory is gone, so the state
space is finite.

`lifecycle`: two servers, one destroy request at a time, two resources, the
kinds `owned` and `distributed`.  Two servers are enough for a stale registry or
a stale read, since what the others did can be done by one; two resources are
needed for a cleanup that fails on one of them and for partial provisioning.
Three servers are needed for one more history: two with stale registries saving
without a lease after the third has deleted the directory.  It has the cause of
the observation about deleted history below: `dir` is then `recreated`, and
`DestroyedIsFinal` speaks of runs in history.  The proofs cover any number of
servers, requests and resources.

`lifecycle_live`: one server and two requests: what a request or a supervisor
waits for is always in its own process.

`persistence`: three resources, so a save of the loop can be overtaken more than
once.

`ssh`: three calls of three attempts: a stop can meet the first, a middle and the
last attempt of a call, and a call after which others follow.

`measurement`: a dispatch that shows no unit is given up after two polls, and
everything after three (`Grace`, `Deadline`), so each can pass first or last; a
poll may take any part of it.  Invocations, restarts, reboots and failures are
not bounded: the state space is finite because the journal only climbs.  The
proofs cover every `Grace` and `Deadline`.

`compact`: `MaxFaults` = 2 failures of calls, crashes or interventions of others
over a whole behaviour, so a lost create can meet a lost lookup or a deletion
that fails; refusals that provisioning runs into are not counted.  The plans are
the smallest with a volume and the largest, with a peer and a load generator.
About 199,000 states, depth 65.  `graph`: `MaxFaults` = 3, since a graph is
resumed before it is deleted; 149,000 states, depth 90.  The proofs about both
cover any number of failures, and those about `compact` any plan.

`pipeline`: two failures of each kind per program (`MaxFaults`, `MaxMishaps`,
`MaxSetbacks`, `MaxUpsets`), so that what repairs a failure can fail itself.
`SmallPlans` combines the storage targets of every provider with one benchmark,
and on OCI and GCP, the two orders of tools that differ, selections in which what
stops the run, what is independent and a web server follow each other.
`Interruptions` are two of the checkpoints at which the drivers inject a signal,
one before and one after the first one-shot step.  548,000 states, depth 143.

Deadlock is not checked where the system may rest: a run whose users ask for
nothing more.

### Fairness

In `lifecycle_live`, worker threads finish (cloud calls and SSH have timeouts,
and a stopped worker is signalled), and so do the deletion of history and an exit
that has begun: weak fairness for `Worker`, `ClearThread` and `Exit`.  A handler that
the loop has started runs on to its next await: weak fairness for `Handler`.  The
loop takes ready callbacks in the order in which they became ready, so a
resumption is not overtaken for ever by new requests: strong fairness for
`Supervisor` and `TaskEnded`, which need the loop free.  Nothing is assumed of
users, crashes or shutdowns.  Without strong fairness for `TaskEnded` TLC finds a
request that starves behind an endless row of other requests.

In `persistence` saves and the supervisor go on; its invariant does not need it.

In `ssh` only the worker is fair: no step of it blocks for ever, since waits are
sliced and a process can be killed.  Processes need not exit and deadlines need
not come.

In `measurement` the invocation goes on (weak fairness for `Work`), and a command
that is not answered raises at its timeout (weak fairness for `Fail` outside the
poll loop).  In the poll loop a failure of the transport is no way out: only the
unit, the grace or the deadline ends it.  Nothing is assumed of the load
generator, the network, restarts or later invocations.

In `compact` and `graph` a pass that was begun goes on (calls to the clouds have
timeouts and polling is counted), provisioning ends (`Cease`), and a pass that
failed is asked for again (`BeginCleanup`): the application keeps such a run as
`cleanup_failed` with its resources, and Destroy accepts it again.  On OCI what
was terminated disappears from lists at last (`Drop`).  Failures come to an end
because they are counted.  Others are never made to leave.

In `pipeline` the programs go on (`Work`: every command has a timeout and every
polling script counts its attempts), what they wait for happens (`Awaited`: Pods
start or end, scripts of the guests end), outages pass (`Passing`), and what was
sent ends and an operator asks for cleanup until it is proved (`Later`).  Nothing
is assumed of stops, signals, restarts or others.

## Findings

1. `persistence_lost`: a stop request's save can overtake the worker's:
   `state.json` is without the resource just recorded until somebody saves again
   (`RecordedIsSaved`), although the docstring of `record_resource` and the
   README promise that it is recorded before the next step.
2. `aws_association`: a `disassociate_route_table` without an answer keeps the
   association on record while the same pass deletes and forgets its table; the
   next pass refuses the manifest before it changes anything, every time
   (`CleanupIsIdempotent`), although a comment calls the retry safe.
3. `damaged_evidence`: cleanup-only of the AWS and OCI driver ends with an
   exception before it asks for cleanup when `qualification-interruption.json`
   cannot be read (`DamageNeverBlocksCleanup`), although the documentation says
   of every provider that damaged evidence never blocks cleanup.

### Observations without a run

What else became apparent while modelling.  Each is either excepted by name in a
property or left out of the model.

- A compact OCI run records an ID only after the create returned.  A crash in
  between leaves a resource that Destroy does not look for (`Untraced` in
  `CompactRun`; `DestroyedMeansGone` of `RunLifecycle` fails with `Kinds` =
  `{"ids"}`).
- A destroy request looks at the benchmark's outcome before it marks the run as
  interrupted; a worker that adds the last row in between has its complete
  benchmark saved as interrupted (`OutcomeSurvivesStop` in `RunLifecycle`).
- A destroy request whose `state.json` is gone saves the registered job, which
  creates the deleted directory again without a lease (`DeletionIsPermanent`).
  With three requests two of them can then save in turn, so that even a run that
  was destroyed before it was deleted gets another status.
  `forget_deleted_run` then pops the registries of the cleanup task that the
  request started.
- `job_status` reads the status, then the lease; a run that ends in between is
  shown as interrupted.
- The walk over `resources` in `json.dumps` raises when the worker adds a key
  meanwhile (the indenting encoder of Python 3.10, which the workflow tests, is
  written in Python and can be interrupted); the stop request fails with the
  status `cancelling` and the event not set (`CancellingIsHeard`).
- A mode of ApacheBench or hey that completed and whose save raised has a
  completed and a failed row.
- OCI graphs: the load generator is asked for by its implicit identity before its
  state is looked at; while a terminated instance is still listed, a pass after a
  lost answer is refused (`EndedInView`, `DeletionResumes`).
- GCP graphs: when a launch without an answer is repeated and then rejected for
  certain, the contract of its boot disk is forgotten without a look; a disk that
  the first launch left is then found by the final sweep, which refuses for good
  (`Forgotten`).
- Compact AWS and Azure runs have states that no later pass gets past: the
  association of finding 2, and settings saved without the name of the group
  (`Stuck`).
- Azure graphs: a comment says that a refused cleanup must not leave measured
  traffic running (`providers/azure.py:4565`); the deallocation is one best-effort
  call whose failure is ignored, so together with a foreign sibling the load may
  run on after such a pass.  `TrafficStopsFirst` speaks of passes without failure.
- All graphs: a load generator whose own attributes or attachments were changed is
  refused before it is stopped (`providers/aws.py:4898`, `gcp.py:5586`,
  `oci.py:1330`, `azure.py:4429`), and on Azure so is one whose group was changed
  (`azure.py:4540`): its load goes on until the change is undone.  The code promises
  only that a sibling cannot keep the load going (`aws.py:4956`, `gcp.py:5585`,
  `azure.py:4565`), and `TrafficStopsFirst` says this much.
- Deletion by name on GCP is repeated with the same request ID after a transport
  failure without another look at what has the name now.  The model takes look,
  deletion and its repetitions as one step.
- The K3s journal keeps `cluster_ready` while a retry prepares the hosts again.
- Candidate operator: a write of the acceptance of a resumed run that fails, or is
  interrupted, is outside the `try` statement, so no cleanup follows and
  `RunCancelled` leaves `main`.  Cleanup-only returns 0 also for a run that
  failed.
- Provider qualification: a save that fails, or a second signal, inside the
  `finally` clause before cleanup leaves with a traceback and without cleanup;
  cleanup-only converges afterwards.  A record whose rename took effect and whose
  directory sync failed is finalized with its origin repeated as a later signal.
  Cleanup-only on Azure installs no signal handlers.  A run that was interrupted in
  its benchmark is never qualified by a measurement when it is resumed, but a
  resumption without one may exit 0: neither `_require_resumable` nor `_resume_job`
  looks at the mark (`qualify_deathstarbench_distributed_shared.py`:913-930,
  1101-1158).  `FleetIsProved` speaks of the mark only when a measurement was asked
  for; it had said more until its proof failed.
- The compact DeathStarBench initializer and its measurement are sent again after
  lost connections and may overlap with what the first connection left running.
- A distributed run whose record holds no plan stays refused after a restart,
  since the record may be truncated.

## Hazards

`PROJECT.json` lists the hazards with the properties that would catch them going
wrong.  Where several lines are exposed to one hazard the list names the one that
is hardest to test.  Others that the same models cover:

| Line | What can go wrong | Properties |
|---|---|---|
| `main.py:2012` | `rmtree` unlinks the locked lease file; nobody may lock a second one | `MutualExclusion`, `HeldLeaseIsValid` |
| `main.py:2697` | a request waits for a supervisor while others keep the loop busy | `RequestsAreAnswered` |
| `main.py:2820` | cleanup of one server meets cleanup or history deletion of another | `WorkersOwnTheRun` |
| `main.py:3863` | the stop comes in the pause between two attempts | `StopIsHeard` |
| `main.py:5135` | a setup fails and workloads behind it get no row | `OutcomeIsHonest` |
| `main.py:6911` | one resource fails to be deleted and the others go on | `DestroyedMeansGone`, `ImplementsCustody` |
| `providers/aws.py:1995` | a create is repeated with its token by a cleanup, and makes something new | `ImplementsCustody` |
| `deathstarbench_distributed_measurement.py:2201` | the save of a latch raises, and memory is ahead of the disk | `ImplementsOneShot` |
| `deathstarbench_distributed.py:2459` | the journal says ready while the workload is being revisited | `ClaimsAreTrue` |
| `k3s_runtime.py:775` | a lost command leaves credentials; the next one must accept and never replace them | `NothingIsLost`, `BenchmarksEnd` |

## Proofs

`RunLeaseProofs` proves, for every number of calls and old qualifiers:
`TypeCorrect`, `OneOwner` (mutual exclusion), `HeldLeaseStaysValid`,
`LockFilesNeverReplaced` and `LeaseImplementsOwnership` (every step of `RunLease`
is a step of `RunOwnership` or leaves owner and presence alone).  The only
assumption is `HoldersDistinct`.

Mutual exclusion is not inductive: that two callers cannot both pass `flock`
depends on their having the same file open.  `IInv` adds what makes it so.  While
the directory is at its path each name has been bound to at most one file
(`FirstFiles`), so every open descriptor is of that file (`OpenedFirst`); locks
exclude each other per file (`LockExclusion`); each place in the code implies the
locks held there (`LabelsTellLocks`, `OwnersHoldLocks`).  Once the directory is
hidden new files may exist, but a caller with a lock on one of them is turned
away when `_record_acquired_lease` compares the paths, so no new owner appears
(`HeldPathsUnchanged`, `RemovingIsHidden`).  An old qualifier opens by path, so
it can only have the first file.

`MeasurementJournalProofs` proves, for every grace and deadline (the only
assumption, `ClockAssumption`, is that the grace is not longer than the deadline):
`MeasurementTypeCorrect`, `NothingOverlapsMeasurement` (`MeasuredAlone`) and
`MeasurementIsOneShot` (the refinement of `OneShot`).

That a command is sent at most once is not inductive: it depends on where the
invocation stands.  `IInv` says what each place implies for the journal in memory
and on disk (`PlacesTellJournal`), that the job in memory is never behind the
disk (`MemoryLeads`, which failed saves need), that what was sent has its latch
on disk (`SentIsLatched`), that the load generator only does what it was sent
(`EffectsAreSent`), and that the initializer and the warm-up have ended where an
invocation has seen them end, and stay so (`EndedIsEnded`).  An invocation starts
only below the first latch, climbs, and stops where a save fails; so where it
sends a command the disk has just reached that command's latch, and an earlier
sending would have had the disk there before.

`ResultsAreEvidence` (`ResultIsEvidence`) adds `Evidence`: what the phases before a
result have seen of the databases and of the warm-up is still so when the result
is saved, because a restart or a reboot that takes it away also ends the
invocation that relied on it.

`UnheldIsTrue` in `RunLeaseProofs` is about `MCSpec`, whose history variable
`sawFree` records whether nobody owned the run at some moment of an inspection.
An inspection that answers "unheld" has both locks, or found a file missing.  With
both locks nobody owns the run now.  `SawNoFile` covers the rest: an inspection
without the legacy file looked before the first one was created, when nobody could
own the run; and a legacy file without its companion has never had an owner.

`WorkerThreadProofs` proves of SSH, for every number of calls and attempts,
`WorkerLeavesNothing` (`NothingLeftRunning`) and `StopStartsAtMostOne`
(`StopStartsNothingNew`); it assumes `BoundsArePositive`.  The invariant says for each place of the worker whether a
process runs, whether it is registered, and whether the stop can already have
taken its snapshot of the registry: a process that is started after the snapshot
finds the event set at its next check.

Of the state file it proves `SettledStateIsSaved` (`SettledIsSaved`) for any set of
resources: a save that has not read yet will read everything recorded by then,
and one that has read holds the loop, so the supervisor's save comes after it.

`RunLifecycleProofs` proves, for any number of servers, requests and resources, and
for either kind of plan, `WorkersAlwaysOwn`, `OwnersSave`, `DestroyedStaysDestroyed`,
`OutcomesAreKept` and `SupervisorsCleanUp`, and, unless a run keeps IDs only (the
first observation), `DestroyedRunsAreGone` and `CloudStaysRecoverable`.  The
assumptions are that the labels of the registry and `None` are different from
resources and jobs (`ResDistinct`, `NoneDistinct`), and `KindsKnown`.  The invariant has three layers.  `Control`: the
places of supervisor, worker and requests on one server fit together, a lease is
owned by one that is going to give it up, and only the owner's registry can be
ahead of the disk; from it follow ownership and who saves.  `CloudIsCovered`: what exists is
reachable from the disk, or from the owner's job that is about to be saved, and a
status of `destroyed` is only ever written after a cleanup that left nothing.
`StopsFit`: a stop or a failure that a supervisor has not answered yet is recorded
where its next await looks.  `DestroyedIsFinal` was not inductive as it had been
stated: the counterexample was a real history of three requests (see the
observation about deleted history), so the property now speaks of runs in
history.

`DistributedRunProofs` proves, for any subset of the four providers and any number
of failures, `TombstonesHold`, `NothingIsCreatedTwice`, `DeletionIsInformed`
(`AllIsKnownBeforeAnyDeletion`), `LoadStopsFirst` (`TrafficStopsFirst`) and
`GraphsImplementCustody` (the refinement of `Custody`).  The assumptions are
`ProvidersKnown` and `MaxFaultsNat`.  The invariant has three parts.  `Custodial`
relates the plan to the cloud: an entry that says planned or deleted stands for
nothing that exists (`Covered`; on GCP not for boot disks), an instance and its boot
disk exist together on AWS (`Paired`, which closing a rejected launch needs), an
identity on OCI is of something that exists until deletion begins (`Identified`,
which lets a resumed run skip it), GCP and Azure write tombstones for everything at
once (`Cleared`), and on Azure nothing exists outside the group (`Grouped`).
`Loaded`: load has a generator that exists and a journal.  `PassFits`: what each
step of a pass has established for the steps behind it (the record is accepted,
the load has stopped, no create is open, nothing foreign is attached).  `LoadStopsFirst`
adds that a step that ends a pass with load going on has met one of four things
(`Interrupts`): a failure, a damaged record, a changed load generator, or on Azure
a changed group.  Creates of
AWS, OCI and Azure are instances of one action, `Creates`, those of GCP of
`GcpAsks`, and deletions of `Deletes` or of the premise of `ShrinkKeeps`, so each
argument is made once.  The refinement follows because every step only adds to the
cloud, only takes from it, or leaves it alone (`StepKind`), and what exists is
traced (`AllIsTraced`).

`CompactRunProofs` proves, for any of the four providers, any plans and any number
of failures, `CompactRunsImplementCustody` (the refinement of `Custody`) and
`CompactRunsSpareOthers` (`OthersAreSpared`), and on the way `CompactRunsAreTraced`
and `DestroyedCompactRunsAreGone`.  The only assumption is `ProvidersKnown`.  Each
provider has an invariant of its own (`AwsInv`, `GcpInv`, `AzureInv`, `OciInv`) with
the same parts.  `Stands`: what exists hangs on the root of the run, because a
cloud refuses to delete what something else needs.  `Kept`: the root, and whatever
can outlive it, is on record as long as it exists.  `Built`: what provisioning has
made when it is at a place.  `Pass`: what the steps of a pass guarantee to those
behind them.  On AWS what may exist without a saved identity is found or counted as
unresolved, and what has one is deleted or the pass has failed; on GCP whatever has
an identity and exists was found by the survey, and identities and announcements are
disjoint (`GcpApart`); Azure's group is only deleted while it holds nothing of
others; on OCI a network or volume that remains behind its step means that the pass
has failed.  At the last step of a pass without failure nothing is left, and every
step before it only adds to the cloud or only takes from it.

`RunBenchmarksProofs` proves of the compact benchmark run, for any plans and any
number of failures, `RunsAreHonest` (`OutcomeIsHonest`), `TargetsAreReady`
(`TargetIsReady`) and `NothingIsFormattedAway` (`NothingIsOverwritten`).  The
assumptions are `PlansAreValid`, what `validate_plan` and the choice of the runner
guarantee, and `MaxMishapsNat`.  `SuiteInv` has six parts.  `StorageFits`: the
runner's place tells which script it waits for and how far that is; a target on
record is mounted, and a mounted disk is not changed by any script
(`MountedStays`), so that scripts left behind are harmless once there is a target.
`RunnerFits`: no selected benchmark lies behind the end.  `RowsFit`: every benchmark
that is behind has all its rows.  `FailuresFit`: a failed row is deferred or has
ended the run, and comes from a failure.  `StopFits`: what a stop found out about
the outcome stays so, because after it rows are only added to by failures.
`ServerFits`: a web server that serves where DeathStarBench is to come is still in
the hands of its benchmark, or the command to stop it was lost.  `WorkFits` says
once what a step of a benchmark has to show; each action is an instance of it.

Of the candidate run it proves, for any number of setbacks, `CandidateRecordsHold`
(`RecordsAreEvidence`), `CandidateCleanupIsProved` (`CandidateIsProved`),
`StageEvidenceStays` (`StageEvidenceIsKept`) and `InitializationIsOneShot`
(`InitializesOnce`: the latches and gates of the Hotel Pods refine `OneShot`).  The
only assumption is `MaxSetbacksNat`.  None of the
four is inductive: what state.json says of the cloud depends on the job in memory
that will be saved next, and on where the process stands.  `CandidateInv` says that
for both copies of the job.  `JournalFits`: which events, latches and Pods there are
at each place of the Hotel controller, so that a gate that is released was latched
and never begun.  `HotelFits`: neither copy denies an execution that a Pod may have
begun.  `PhasesFit`: a phase on record in either copy is there, as long as nobody
meddled, and support is ready only with all six.  `DatabasesFit`: directories that
are open, or that an apply under way may open, are prepared on record.
`CustodyFits`: what is provisioned is named by the contract, or by the copy of it
when that is cleared, and a proof is saved only with nothing left.  `ArchiveFits`:
what cleanup still has to archive is on record or archived.  `SuccessFits`: a
process without a failure has seen what it will report.  Each step is proved to keep
these parts from the little that `StageWorks`, `HotelWorks`, `Cleaned` and
`Preserves` say of it.

Of the qualification of a provider it proves, for any number of upsets,
`QualificationSendsOnce` (`QualifiesOnce`: its journal refines `OneShot`) and what
`CleanupStaysProved` (`CleanupIsProved`) and `EvidenceStaysKept` (`EvidenceIsKept`)
say of it; these two theorems state the properties as the run checks them, for the
candidate and the qualification.  They assume nothing of the constants of the
module: any set of injected interruptions will do.  `QualificationInv` relates the
job in memory to the saved one, and both to the place of the process.  `FleetFits`: what
exists is owned by both copies, which is why a process that dies anywhere leaves it
to the next.  `SavedFits`: memory is not behind the disk in its journal, and the two
agree where the code goes on only after a save that worked.  `SendsFit`: a step that
was sent is in the saved journal, and while the body runs the steps that were sent
are exactly those up to the journal in memory, but for the one that is next; so a
resumption, which starts below the first step or not at all, cannot send one
again.  `EvidenceFits`: evidence of a step that must not be replayed keeps every
process out of the body, and evidence of a completed cleanup is of a process that
has ended.  `ExitFits`: what the exit status says.  That evidence keeps its origin
(`OriginIsKept`) is proved from it action by action.

`PipelineRunProofs` proves of the distributed run, for any workload and any number
of failures, restarts and attempts, `ClaimsStayTrue` (`ClaimsAreTrue`),
`DenialsAreReal` (`DenialIsReal`) and `SupportResultsAreEvidence`
(`SupportResultIsEvidence`).  A claim of a journal is not inductive: it was checked
against the world some steps before it is saved, and it must still be so when
another attempt relies on it.  `PipelineInv` therefore relates both copies of the job
to the world, and the place of the attempt to what this attempt has found again.
`JobsFit`: behind the secret whatever is in memory has been saved.  `HostsFit`: hosts
on record, or behind the place, are prepared.  `VolumeFits` and `AuthorityFits`: the
file system and the authority on record are those that are there, unless somebody
replaced them between attempts, and then no attempt gets beyond finding it out; a
credential is only handed out of an authority that is already on disk.
`WorkloadFits`: phases on record, or behind, are applied, on a store that is ready.
`PathsFit`: what the probes have shown so far, and that a denial between two positive
controls without a policy needs an outage (`glitch`).  `SupportFits`: the steps behind
the place of the attempt are finished and were sent once, those from the place on
were not sent, and the stage on disk is not behind what was sent.

That nothing is replaced is proved from the same invariant: `StepKept` says of each
action that a save carries on what memory tells (`RecordKept`) and that the hosts and
the Pods of others are only added to (`HostsKept`, `ForeignKept`); as the disk is
never ahead of memory, what is on record stays (`NothingGoes`).
`NothingIsEverLost` joins this with `NothingIsFormattedAway` into `NothingIsLost`, the
property the run checks.  For the refinement of `OneShot` the steps that a stage on
disk has announced are those whose place it has reached (`Rank` is `StagePlace`), so
they grow with the stage, and `SupportFits` says that a step which is sent is
announced and has not been sent.  `OneShotsAreSentOnce` joins the refinements of the
distributed run, the candidate and the qualification into `OneShotsAreKept`.

So every safety property that a passing run checks, invariant, action property or
refinement, is stated by a theorem.  Only model-checked is liveness under fairness
(`LeaseIsReleased`, `RequestsAreAnswered`, `StopIsHeard`, `InvocationEnds`,
`CleanupConverges`, `BenchmarksEnd`), which is out of the proof system's reach
together with `ENABLED`.

## Assumptions and abstractions

Stated once here; the comments at the definitions say where they apply.

- Clouds.  A lookup may show too little, but repeated lookups by name (GCP's sweep
  of boot disks, Azure's group) are conclusive.  A partial deletion of a group has
  two outcomes.  OCI's verification happens once per pass.  Others act on GCP at
  any time, on Azure until the last look of a pass; identities of AWS and OCI are
  nobody else's.  In graphs, attachments and attributes that are not those of the
  run are one fact at one place at a time (`stranger`) that changes between passes;
  access rules and routes have no state of their own.  Of the load generator,
  `"loadgen"` is what its provider reads before the stop (on Azure its tags of
  ownership); a foreign data volume on OCI, which is read later, is `"sibling"`.
- Records.  A step of the cloud models is saved as the code saves it, but GCP's
  identities are saved in one step.  A record that was truncated is only refused.
  A damaged record is refused before the load is stopped, and so is a load
  generator that was changed; `TrafficStopsFirst` excepts both.  Creates without an answer that never took effect keep a graph
  refused (the code fails closed); `CleanupConverges` excepts them.
- Guests.  What a lost command still did is over before the next attempt.  One
  process makes attempts.  Tampering with the guests happens between attempts;
  outages, Pods of others and failures of Pods at any time.  The four providers'
  guest scripts share one abstraction; the map names those of Azure and GCP.
  Contents of manifests, markers of binaries and addresses of firewalls are left
  out.  A network path may be cut by drop in one attempt and by reject in another,
  which the later attempt refuses (`GotThrough` excepts it).
- Compact benchmarks.  The save of an event and the command before it are one step
  with the outcomes of both; the trials of a mode are one step; a stop is atomic.
- Storage.  The volume starts blank and only the run touches it.  `mkfs` and
  `mount` are atomic.  `fstab`, partitions and device aliases are left out.
- Candidates.  Others meddle between attempts, or replace a cloud identity at any
  time.  Latch and event files that are torn count as present.  Retries of an
  apply are excluded by its lock and left out.  The second attempt of a provider's
  destroy and the lease are not part of this model (`RunLease` has the lease).
- Qualification.  What happens on the guests is `PipelineRun` and
  `MeasurementJournal`; the deletion of the graph is one step (`DistributedRun`).
  A zero warm-up, the injected loss of a response and the contents of reports are
  left out.

## Plan

1. Done: all modules above.
2. Proofs.  Done: all safety properties of the passing runs.  Next: what no run
   checks yet is the part of the code under 3.  None of the modules declares a
   RECURSIVE operator.
3. Model: the status as a client sees it, migration of saved states, and
   `benchmark_status` and the grouping of `comparison.py` as operators.

## Not modelled

- Comparison, reports, run status and summaries: pure transformation and rendering
  of documents that were saved.
- Resource inventory: merging of records without a state of its own; the graphs and
  the compact runs take what it keeps as their status.
- Catalog, models, registry, request guard: validation and constants.
- Front end: rendering of polled responses.
- Image builders, the text of shell commands and their parsers, the contents of
  manifests, the Go and Lua drivers: text and pure input and output.

Definitions of properties that no run checks (`OutcomeSurvivesStop`,
`DeletionIsPermanent`, `OnlyTheOwnerSaves`, `RecordsReturn`, `CancellingIsHeard`,
`EverythingIsTraced`, `CalmPassFinishes`, `DeletionResumes`, several `TypeOK`)
stay in their modules: they state what the observations violate, what stronger
properties imply, or what helps to read a counterexample.  `OnlyTheOwnerSaves`,
`EverythingIsTraced` and several `TypeOK` are proved.
