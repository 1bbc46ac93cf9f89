---------------------------- MODULE MCBlockCoding ----------------------------
(* Cells for the run of BlockCoding: every bit that a cell contributes to   *)
(* the scrambler's register is set in one cell and clear in the other.      *)
EXTENDS BlockCoding

MCCells == {[mcc |-> 901, mnc |-> 9999, cc |-> 1], [mcc |-> 122, mnc |-> 6384, cc |-> 62]}
=============================================================================
