-------------------------------- MODULE Custody --------------------------------
(***************************************************************************)
(* What provisioning and cleanup of a run promise about the resources of   *)
(* an account: whatever exists can be traced from what is saved, a trace   *)
(* is given up only when nothing is left at its end, and a run is finished *)
(* when nothing exists, after which nothing is created for it.             *)
(***************************************************************************)

VARIABLES exists,   \* resources of the run in the account
          traced,   \* resources that lead from something saved
          finished  \* the run is destroyed

Init == exists = {} /\ traced = {} /\ ~finished

\* Nothing may exist without a trace.
InSight == exists' \subseteq traced'

Create == ~finished /\ exists \subseteq exists' /\ InSight /\ UNCHANGED finished

Vanish == exists' \subseteq exists /\ InSight /\ UNCHANGED finished

Finish == exists = {} /\ exists' = {} /\ finished'

Next == Create \/ Vanish \/ Finish

Spec == Init /\ [][Next]_<<exists, traced, finished>>
===============================================================================
