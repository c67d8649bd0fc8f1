------------------------------ MODULE StorageTarget ------------------------------
(***************************************************************************)
(* Where the storage benchmarks write: prepare_storage_benchmark_target    *)
(* and mount_data_volume of app/main.py, with the commands of              *)
(* app/storage_target.py and the mount commands of the four providers.     *)
(*                                                                         *)
(* A local NVMe disk is used if the control plane promised it and the      *)
(* guest finds it blank; the provisioned volume otherwise.  A command is a *)
(* script on the guest that looks, formats and mounts, one after another.  *)
(* When its connection is lost, ssh() sends the command for the volume     *)
(* again while the first script may still go on.                           *)
(***************************************************************************)
EXTENDS Naturals

CONSTANTS
  Plans,       \* [provider, benchmarks, destroy, nvme, volume]
  MaxMishaps   \* bound: commands and saves that fail

VARIABLES
  plan,        \* of the run
  mishaps,
  disks,       \* what is on "local" and "data", and where they are mounted
  script,      \* the script whose answer the runner awaits
  leftovers,   \* scripts whose connection is lost
  target       \* benchmark_storage_target of the job

guestDisks == <<disks, script, leftovers, target>>

Disk == {"local", "data"}
Content == {"absent", "blank", "xfs", "foreign"}
MountPoint(d) == IF d = "local" THEN "/benchmark-local" ELSE "/data"

NoScript == [disk |-> "none", at |-> "none"]
Sent(d) == [disk |-> d, at |-> "look"]

\* A local disk may be something else than promised, or be in use; the volume is new.
DisksInit ==
  /\ \E c \in (IF plan.nvme THEN {"absent", "blank", "foreign"} ELSE {"absent"}) :
       disks = [local |-> [content |-> c, mount |-> "none"],
                data |-> [content |-> IF plan.volume THEN "blank" ELSE "absent", mount |-> "none"]]
  /\ script = NoScript /\ leftovers = {} /\ target = "none"

-------------------------------------------------------------------------------
(* The scripts: what a look finds, and what is done.                       *)

InPlace(d) == disks[d].mount = MountPoint(d)

\* Provider, number and capacity as promised, blank, unused, mount point free:
\* anything else is a reason to fall back, and nothing was touched.
LookAtLocal ==
  IF disks.local = [content |-> "blank", mount |-> "none"] THEN "format" ELSE "fallback"

\* The EBS volume with the recorded serial; a file system that is there stays,
\* whatever it is.
LookAtAws ==
  IF disks.data.content = "absent" THEN "failed"
  ELSE CASE disks.data.mount = "elsewhere" -> "failed"
         [] InPlace("data") -> "ok"
         [] disks.data = [content |-> "blank", mount |-> "none"] -> "format"
         [] OTHER -> "mount"

\* The device of the attachment, a whole disk and not the root disk.
LookAtOci ==
  IF disks.data.content \in {"absent", "foreign"} THEN "failed"
  ELSE CASE disks.data.mount = "elsewhere" -> "failed"
         [] InPlace("data") -> "ok"
         [] disks.data = [content |-> "blank", mount |-> "none"] -> "format"
         [] disks.data = [content |-> "xfs", mount |-> "none"] -> "mount"

\* The link with the device name.  The file system is made before anybody asks
\* what is mounted.
LookAtGcp ==
  CASE disks.data.content = "blank" -> "format"
    [] disks.data.content = "xfs" -> "place"
    [] OTHER -> "failed"

\* The links with the LUN, NVMe or SCSI; otherwise as GCP.
LookAtAzure == LookAtGcp

LookAtData ==
  CASE plan.provider = "aws" -> LookAtAws
    [] plan.provider = "oci" -> LookAtOci
    [] plan.provider = "gcp" -> LookAtGcp
    [] plan.provider = "azure" -> LookAtAzure

\* The rocky_linux scripts make no -f, write fstab, and mount what is not mounted yet.
Rocky(s) == s.disk = "data" /\ plan.provider \in {"gcp", "azure"}
Forced(s) == s.disk = "data" /\ plan.provider \in {"aws", "oci"}

\* Mistake: the local disk is formatted with -f, whatever is on it.
AcceptsAll(s) == TRUE

\* mkfs.xfs refuses a disk that is mounted, and one with a signature unless forced.
Accepts(s) == disks[s.disk].mount = "none" /\ (disks[s.disk].content = "blank" \/ Forced(s))

\* mounted_storage_descriptor_command reads and insists on XFS.
Describe == IF InPlace("data") /\ disks.data.content = "xfs" THEN "described" ELSE "failed"

After(s) ==
  CASE s.at = "look" -> IF s.disk = "local" THEN LookAtLocal ELSE LookAtData
    [] s.at = "format" -> IF ~Accepts(s) THEN "failed" ELSE IF Rocky(s) THEN "place" ELSE "mount"
    [] s.at = "place" -> IF InPlace(s.disk) THEN "ok" ELSE "mount"
    [] s.at = "mount" -> IF disks[s.disk].mount = "none" THEN "ok" ELSE "failed"
    [] s.at = "describe" -> Describe

DisksAfter(s) ==
  CASE s.at = "format" /\ Accepts(s) -> [disks EXCEPT ![s.disk].content = "xfs"]
    [] s.at = "mount" /\ disks[s.disk].mount = "none" ->
         [disks EXCEPT ![s.disk].mount = MountPoint(s.disk)]
    [] OTHER -> disks

Busy(s) == s.at \in {"look", "format", "place", "mount", "describe"}

RunScript ==
  /\ Busy(script)
  /\ disks' = DisksAfter(script)
  /\ script' = [script EXCEPT !.at = After(script)]
  /\ UNCHANGED <<plan, mishaps, leftovers, target>>

\* A script without a connection goes on all the same, until it ends.
RunLeftover ==
  /\ \E s \in leftovers :
       LET t == [s EXCEPT !.at = After(s)]
       IN /\ disks' = DisksAfter(s)
          /\ leftovers' = (leftovers \ {s}) \cup (IF Busy(t) THEN {t} ELSE {})
  /\ UNCHANGED <<plan, mishaps, script, target>>

\* The image's own agent prepares a local disk at the first boot.
AgentTakesLocal ==
  /\ disks.local = [content |-> "blank", mount |-> "none"]
  /\ disks' = [disks EXCEPT !.local = [content |-> "foreign", mount |-> "elsewhere"]]
  /\ UNCHANGED <<plan, mishaps, script, leftovers, target>>

-------------------------------------------------------------------------------
(* Properties.                                                             *)

\* Nobody's data is formatted away: what was on a disk when the run came stays
\* there, and a file system is never made under a mount, even by a script whose
\* look is long past.
NothingIsOverwritten ==
  [][\A d \in Disk :
       disks'[d].content # disks[d].content /\ disks'[d].content = "xfs"
         => disks[d] = [content |-> "blank", mount |-> "none"]]_guestDisks
===============================================================================
