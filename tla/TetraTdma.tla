----------------------------- MODULE TetraTdma -----------------------------
(***************************************************************************)
(* The TDMA time of a TETRA cell, src/tetra_tdma.c: a record of hyperframe,*)
(* multiframe, frame, timeslot and symbol numbers, and the operations that *)
(* add to one of them and normalise the carry into the next.               *)
(*                                                                         *)
(* The second half is the receiver's use of them: a clock that is set by a *)
(* SYNC PDU and stepped by one timeslot for every burst.                   *)
(***************************************************************************)
EXTENDS Naturals

Time == [hn : Nat, mn : Nat, fn : Nat, tn : Nat, sn : Nat]

(* What the comments of struct tetra_tdma_time promise of the fields the   *)
(* burst path maintains.                                                   *)
InRange(tm) == tm.tn \in 1..4 /\ tm.fn \in 1..18 /\ tm.mn \in 1..60

(* All fields of the zero-initialised t_phy_state.                         *)
ZeroTime == [hn |-> 0, mn |-> 0, fn |-> 0, tn |-> 0, sn |-> 0]

-----------------------------------------------------------------------------
WithMn(tm, n) == [tm EXCEPT !.mn = n]
WithFn(tm, n) == [tm EXCEPT !.fn = n]
WithTn(tm, n) == [tm EXCEPT !.tn = n]
WithSn(tm, n) == [tm EXCEPT !.sn = n]

NormalizeMnAtLimit(tm) ==
  IF tm.mn >= 60 THEN WithMn(tm, tm.mn % 60) ELSE tm

NormalizeMn(tm) ==
  IF tm.mn > 60 THEN WithMn(tm, tm.mn % 60) ELSE tm

NormalizeFnNoCarry(tm) ==
  NormalizeMn(IF tm.fn > 18 THEN WithFn(tm, tm.fn % 18) ELSE tm)

NormalizeFn(tm) ==
  NormalizeMn(IF tm.fn > 18
                THEN WithMn(WithFn(tm, tm.fn % 18), tm.mn + (tm.fn \div 18))
                ELSE tm)

NormalizeTnAtLimit(tm) ==
  NormalizeFn(IF tm.tn >= 4
                THEN WithFn(WithTn(tm, tm.tn % 4), tm.fn + (tm.tn \div 4))
                ELSE tm)

NormalizeTn(tm) ==
  NormalizeFn(IF tm.tn > 4
                THEN WithFn(WithTn(tm, tm.tn % 4), tm.fn + (tm.tn \div 4))
                ELSE tm)

NormalizeSn(tm) ==
  NormalizeTn(IF tm.sn > 255
                THEN WithTn(WithSn(tm, (tm.sn % 255) + 1), tm.tn + (tm.sn \div 255))
                ELSE tm)

AddSym(tm, count) == NormalizeSn(WithSn(tm, tm.sn + count))
AddTn(tm, count)  == NormalizeTn(WithTn(tm, tm.tn + count))
AddFn(tm, count)  == NormalizeFn(WithFn(tm, tm.fn + count))

(* The frame number that goes into the GSMTAP header; with a 16-bit hn it  *)
(* does not reach the limit of its 32 bits.                                *)
Time2fn(tm) == (tm.hn * 60 + tm.mn) * 18 + tm.fn

-----------------------------------------------------------------------------
(* The position of a timeslot in the cycle of 60 * 18 * 4 slots that a     *)
(* hyperframe is: the abstract meaning of an in-range time.                *)
SlotsPerCycle == 4320
SlotIndex(tm) == ((tm.mn - 1) * 18 + (tm.fn - 1)) * 4 + (tm.tn - 1)

VARIABLE time    \* t_phy_state.time, after the first decoded SYNC PDU

Init == \E tn \in 1..4, fn \in 1..18, mn \in 1..60 :
          time = [ZeroTime EXCEPT !.tn = tn, !.fn = fn, !.mn = mn]

(* tetra_burst_sync_in steps the clock once for every burst.               *)
BurstTick == time' = AddTn(time, 1)

Next == BurstTick

Spec == Init /\ [][Next]_time

-----------------------------------------------------------------------------
(* The abstract clock: a counter of timeslots modulo the cycle.  The       *)
(* nested normalisations implement it: the receiver's clock and the base   *)
(* station's slot count, once equal, stay equal through every carry.       *)
SlotClock == INSTANCE SlotClock WITH slot <- SlotIndex(time), Cycle <- SlotsPerCycle
ClockImplementsSlotCount == SlotClock!Spec

(* The carries keep every field in the range its comment in tetra_tdma.h   *)
(* gives: no timeslot 0, frame 19 or multiframe 61 reaches the MAC, whose  *)
(* fragment slots are indexed by tn and whose cipher IV asserts the range. *)
TimeInRange == time \in Time /\ InRange(time)
=============================================================================
