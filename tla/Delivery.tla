------------------------------- MODULE Delivery -------------------------------
(***************************************************************************)
(* What a tracker that keeps its batches until they are acknowledged gets   *)
(* from the receiver: a batch may reach the store many times, and it is     *)
(* given up by the tracker only after it has got there.                     *)
(***************************************************************************)
EXTENDS Naturals

VARIABLES stored,  \* the batches the store has been given whole
          acked    \* the number of batches the tracker has given up

Init == stored = {} /\ acked = 0

\* Batches reach the store, in any order.
Store == stored \subseteq stored' /\ acked' = acked

\* The tracker gives up the next one.
Acknowledge == acked + 1 \in stored /\ acked' = acked + 1 /\ stored' = stored

Next == Store \/ Acknowledge

Spec == Init /\ [][Next]_<<stored, acked>>

===============================================================================
