-------------------------------- MODULE OneShot --------------------------------
(***************************************************************************)
(* What a one-shot journal promises: a step that must not be replayed is   *)
(* first latched on disk, then begun, and begun at most once.  Latches are *)
(* never taken back, also when the process that set them dies.             *)
(***************************************************************************)
EXTENDS Naturals

CONSTANT Step

VARIABLES latched,  \* steps whose latch is on disk
          times     \* how often each step was begun

Init == latched = {} /\ times = [s \in Step |-> 0]

\* A later latch implies the earlier ones.
Latch ==
  /\ latched \subseteq latched'
  /\ latched' \subseteq Step
  /\ UNCHANGED times

Begin(s) ==
  /\ s \in latched
  /\ times[s] = 0
  /\ times' = [times EXCEPT ![s] = 1]
  /\ UNCHANGED latched

Next == Latch \/ \E s \in Step : Begin(s)

Spec == Init /\ [][Next]_<<latched, times>>
===============================================================================
