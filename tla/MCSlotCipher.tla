---------------------------- MODULE MCSlotCipher ----------------------------
(* The bits of la, cn and cc are numbered 0 to 31, and the n-th location has *)
(* those set that have bit n in their number: no two bits are alike in all   *)
(* of the locations, so that one in the wrong place is noticed.              *)
EXTENDS SlotCipher, FiniteSetsExt

Field(n, first, width) ==
  MapThenSumSet(LAMBDA b : IF (((first + b) \div 2 ^ n) % 2) = 1 THEN 2 ^ b ELSE 0,
                0..(width - 1))

MCLocations ==
  {[la |-> Field(n, 0, 14), cn |-> Field(n, 14, 12), cc |-> Field(n, 26, 6)] : n \in 0..4}
    \cup {[la |-> 16383, cn |-> 4095, cc |-> 63]}
=============================================================================
