----------------------------- MODULE CompactCloud -----------------------------
(***************************************************************************)
(* What the compact providers have in common: a run whose resources are    *)
(* created one after another, a record of them that is saved after every   *)
(* change, and cleanup passes that may be repeated until one succeeds.     *)
(*                                                                         *)
(* Only provision and destroy_resources of one provider work on a run, and *)
(* one at a time (RunLifecycle), so a step here is one call to the cloud   *)
(* with the saves around it.  A call can be answered, refused, or fail in  *)
(* a way that leaves open whether it took effect; a crash of the server    *)
(* between a call and the save of its answer looks like the last of these. *)
(***************************************************************************)
EXTENDS Integers, Sequences

CONSTANTS Plans,      \* which optional parts the runs have
          MaxFaults   \* bound: failures in all cleanups of a run

VARIABLES
  provider,    \* who the resources are bought from
  plan,        \* the optional parts of this run: "volume", "peer", "loadgen"
  phase,       \* provision, idle, cleanup or destroyed
  at,          \* how many steps of provisioning or of the pass are behind, plus 1
  ids,         \* resources whose identity is saved, and facts about the run
  intent,      \* resources whose create is announced, with no identity yet
  unresolved,  \* announced resources a pass could neither find nor rule out
  cloud,       \* what exists
  foreign,     \* what others have put under a name of this run, or into its resources
  found,       \* what this pass has learned and not saved
  failed,      \* this pass has met an error it goes on after
  faults,      \* failures so far
  calm         \* this pass has met no failure

record == <<ids, intent, unresolved>>
pass == <<found, failed>>
vars == <<provider, plan, phase, at, record, cloud, foreign, pass, faults, calm>>

Phase == {"provision", "idle", "cleanup", "destroyed"}

\* Facts: the settings of an Azure run, and the proof of GCP that its network
\* is gone.
Facts == {"context", "networkGone"}

\* In these relations the second of a pair cannot be deleted before the first
\* is gone (holds), or takes the first with it (carries).
Held(r, holds) == \E h \in cloud : <<h, r>> \in holds
Without(r, carries) == cloud \ ({r} \cup {x \in cloud : <<x, r>> \in carries})

-------------------------------------------------------------------------------

Fault == faults < MaxFaults /\ faults' = faults + 1 /\ calm' = FALSE

\* No failure of the environment is part of this step.
Calmly == UNCHANGED <<faults, calm>>

\* A choice counts as a failure unless it is the expected one.
Expect(usual) == IF usual THEN Calmly ELSE Fault

Advance == at' = at + 1 /\ UNCHANGED <<provider, plan, phase>>

\* The pass or the provisioning ends by an exception.
Raise == phase' = "idle" /\ at' = 1 /\ UNCHANGED <<provider, plan>>

Start(names) ==
  /\ provider \in names
  /\ plan \in Plans
  /\ phase = "provision"
  /\ at = 1
  /\ ids = {} /\ intent = {} /\ unresolved = {}
  /\ cloud = {} /\ foreign = {}
  /\ found = {} /\ failed = FALSE
  /\ faults = 0 /\ calm = TRUE

-------------------------------------------------------------------------------
(* Provisioning.                                                           *)

Provisioning(order, r) ==
  phase = "provision" /\ at <= Len(order) /\ order[at] = r

\* The create succeeds and its identity is saved, unless nothing is to be saved.
Accept(r, recorded) ==
  /\ cloud' = cloud \cup r
  /\ ids' = ids \cup (r \cap recorded)
  /\ intent' = intent \ r
  /\ UNCHANGED <<unresolved, pass>>
  /\ Calmly
  /\ Advance

\* The create is refused for certain; what it had saved is kept or not.
Reject(kept) ==
  /\ intent' = intent \cup kept
  /\ UNCHANGED <<ids, unresolved, cloud, pass>>
  /\ Calmly
  /\ Raise

\* The create has no answer: it has taken effect, or part of it, or has not.
Lose(saved, effects) ==
  /\ intent' = intent \cup saved
  /\ \E made \in effects : cloud' = cloud \cup made
  /\ UNCHANGED <<ids, unresolved, pass>>
  /\ Calmly
  /\ Raise

\* A part that the plan does not ask for.
Omit(order, wanted) ==
  /\ phase = "provision" /\ at <= Len(order) /\ order[at] \notin wanted
  /\ Advance
  /\ UNCHANGED <<record, cloud, pass>>
  /\ Calmly

\* A wait, a read or a setting fails, the run is stopped, the server dies, or
\* provisioning has done all its steps.
Cease ==
  /\ phase = "provision"
  /\ Raise
  /\ UNCHANGED <<record, cloud, foreign, pass>>
  /\ Calmly

-------------------------------------------------------------------------------
(* Cleanup.                                                                *)

Cleaning(steps, s) == phase = "cleanup" /\ at <= Len(steps) /\ steps[at] = s

BeginCleanup ==
  /\ phase = "idle"
  /\ phase' = "cleanup"
  /\ at' = 1
  /\ found' = {}
  /\ failed' = FALSE
  /\ calm' = TRUE
  /\ UNCHANGED <<provider, plan, record, cloud, foreign, faults>>

\* The server dies, or a read fails where the pass does not go on.
Abort ==
  /\ phase = "cleanup"
  /\ Fault
  /\ Raise
  /\ UNCHANGED <<record, cloud, foreign, pass>>

Skip ==
  /\ UNCHANGED <<record, cloud, pass>>
  /\ Calmly
  /\ Advance

\* The contract of r is closed.
Forget(r) ==
  /\ ids' = ids \ r
  /\ intent' = intent \ r
  /\ unresolved' = unresolved \ r

\* r is gone, and what is saved about it is removed or kept.
Deleted(r, holds, carries, closed) ==
  /\ ~Held(r, holds)
  /\ cloud' = Without(r, carries)
  /\ Forget(closed)
  /\ UNCHANGED pass
  /\ Calmly

\* r is still needed by something else.
Refused(r, holds) ==
  /\ r \in cloud /\ Held(r, holds)
  /\ failed' = TRUE
  /\ UNCHANGED <<record, cloud, found>>
  /\ Calmly

\* The request fails, before or after it took effect.
Errs(r, holds, carries) ==
  /\ \/ UNCHANGED cloud
     \/ ~Held(r, holds) /\ cloud' = Without(r, carries)
  /\ failed' = TRUE
  /\ UNCHANGED <<record, found>>
  /\ Fault

\* Errors are collected and the pass goes on with what is independent.
Delete(r, holds, carries, closed) ==
  /\ \/ Deleted(r, holds, carries, closed)
     \/ Refused(r, holds)
     \/ Errs(r, holds, carries)
  /\ Advance

\* The end of a pass.
Finish(complete) ==
  /\ IF complete
     THEN /\ phase' = "destroyed"
          /\ ids' = ids \ Facts
          /\ intent' = {}
          /\ UNCHANGED unresolved
     ELSE phase' = "idle" /\ UNCHANGED record
  /\ at' = 1
  /\ UNCHANGED <<provider, plan, cloud, pass>>
  /\ Calmly

-------------------------------------------------------------------------------
(* Others.                                                                 *)

\* Somebody puts something of their own in the way of a later or running pass.
Intrude(things) ==
  /\ phase \in {"idle", "cleanup"} /\ foreign = {}
  /\ foreign' = things
  /\ Fault
  /\ UNCHANGED <<provider, plan, phase, at, record, pass>>

\* A resource on record is deleted by hand, and its name is given to another.
Replace(r, holds, carries) ==
  /\ r \in ids \cup intent
  /\ r \in cloud => ~Held(r, holds)
  /\ cloud' = Without(r, carries)
  /\ Intrude({r})

Leave ==
  /\ phase = "idle" /\ foreign # {}
  /\ foreign' = {}
  /\ UNCHANGED <<provider, plan, phase, at, record, cloud, pass, faults, calm>>
===============================================================================
