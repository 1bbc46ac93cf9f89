----------------------------- MODULE SlotClock -----------------------------
(***************************************************************************)
(* What a TDMA clock promises: it counts the timeslots of a cycle.         *)
(***************************************************************************)
EXTENDS Naturals

CONSTANT Cycle      \* timeslots in a cycle
VARIABLE slot       \* the current timeslot

Init == slot \in 0..(Cycle - 1)
Next == slot' = (slot + 1) % Cycle
Spec == Init /\ [][Next]_slot
=============================================================================
