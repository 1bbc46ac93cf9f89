-------------------------- MODULE TetraTdma_proofs --------------------------
(***************************************************************************)
(* The receiver's clock stays in range and counts timeslots, for ever; and *)
(* what it puts into the cipher is what the base station enciphers with.   *)
(***************************************************************************)
EXTENDS SlotCipher, TLAPS

(* The remainder of a small number is that number.                         *)
LEMMA ModSmall ==
  ASSUME NEW c \in Nat, NEW x \in Nat, x < c
  PROVE  x % c = x
  OBVIOUS

(* What setting one field leaves of a time.                                *)
LEMMA WithFields ==
  ASSUME NEW tm \in Time, NEW n \in Nat
  PROVE  /\ WithTn(tm, n) \in Time /\ WithTn(tm, n).tn = n
         /\ WithTn(tm, n).fn = tm.fn /\ WithTn(tm, n).mn = tm.mn
         /\ WithFn(tm, n) \in Time /\ WithFn(tm, n).fn = n
         /\ WithFn(tm, n).tn = tm.tn /\ WithFn(tm, n).mn = tm.mn
         /\ WithMn(tm, n) \in Time /\ WithMn(tm, n).mn = n
         /\ WithMn(tm, n).tn = tm.tn /\ WithMn(tm, n).fn = tm.fn
  BY DEF Time, WithTn, WithFn, WithMn

(* A time within the ranges has a number within the cycle.                 *)
LEMMA SlotIndexRange ==
  ASSUME NEW tm \in Time, InRange(tm)
  PROVE  SlotIndex(tm) \in Nat /\ SlotIndex(tm) < SlotsPerCycle
  BY DEF Time, InRange, SlotIndex, SlotsPerCycle

(* A time that lies one slot later without a hyperframe wrap.              *)
LEMMA NextSlotIndex ==
  ASSUME NEW tm \in Time, NEW t \in Time, InRange(tm), InRange(t),
         \/ t.tn = tm.tn + 1 /\ t.fn = tm.fn /\ t.mn = tm.mn
         \/ t.tn = 1 /\ tm.tn = 4 /\ t.fn = tm.fn + 1 /\ t.mn = tm.mn
         \/ t.tn = 1 /\ tm.tn = 4 /\ t.fn = 1 /\ tm.fn = 18 /\ t.mn = tm.mn + 1
  PROVE  SlotIndex(t) = (SlotIndex(tm) + 1) % SlotsPerCycle
<1>1. SlotIndex(t) = SlotIndex(tm) + 1
  BY DEF Time, InRange, SlotIndex
<1>2. SlotIndex(t) \in Nat /\ SlotIndex(t) < SlotsPerCycle /\ SlotsPerCycle \in Nat
  BY SlotIndexRange DEF SlotsPerCycle
<1>3. SlotIndex(t) % SlotsPerCycle = SlotIndex(t)
  BY <1>2, ModSmall, Zenon
<1>4. QED
  BY <1>1, <1>3

(* One slot more: the three normalisations keep an in-range time in range  *)
(* and move it to the next slot of the cycle.                              *)
LEMMA AddTnOne ==
  ASSUME NEW tm \in Time, InRange(tm)
  PROVE  /\ AddTn(tm, 1) \in Time
         /\ InRange(AddTn(tm, 1))
         /\ SlotIndex(AddTn(tm, 1)) = (SlotIndex(tm) + 1) % SlotsPerCycle
<1>0. tm.tn + 1 \in Nat /\ tm.fn + 1 \in Nat /\ tm.mn + 1 \in Nat /\ 1 \in Nat
  BY DEF Time
<1> DEFINE t1 == WithTn(tm, tm.tn + 1)
<1>1. /\ t1 \in Time /\ t1.tn = tm.tn + 1 /\ t1.fn = tm.fn /\ t1.mn = tm.mn
      /\ AddTn(tm, 1) = NormalizeTn(t1)
  BY <1>0, WithFields, Zenon DEF AddTn
<1> HIDE DEF t1
<1>2. CASE tm.tn < 4
  <2>1. NormalizeTn(t1) = t1 /\ InRange(t1)
    BY <1>1, <1>2 DEF Time, InRange, NormalizeTn, NormalizeFn, NormalizeMn
  <2>2. SlotIndex(t1) = (SlotIndex(tm) + 1) % SlotsPerCycle
    BY <1>1, <2>1, NextSlotIndex
  <2>3. QED
    BY <1>1, <2>1, <2>2
<1>3. CASE tm.tn = 4
  <2> DEFINE t2 == WithFn(WithTn(t1, 1), tm.fn + 1)
  <2>1. NormalizeTn(t1) = NormalizeFn(t2)
    <3>1. t1.tn > 4 /\ t1.tn % 4 = 1 /\ t1.tn \div 4 = 1
      BY <1>1, <1>3
    <3>2. QED
      BY <1>1, <3>1 DEF NormalizeTn
  <2>2. t2 \in Time /\ t2.tn = 1 /\ t2.fn = tm.fn + 1 /\ t2.mn = tm.mn
    <3>1. /\ WithTn(t1, 1) \in Time /\ WithTn(t1, 1).tn = 1 /\ WithTn(t1, 1).mn = tm.mn
      BY <1>0, <1>1, WithFields, Zenon
    <3>2. QED
      BY <1>0, <3>1, WithFields, Zenon
  <2> HIDE DEF t2
  <2>3. CASE tm.fn < 18
    <3>1. NormalizeFn(t2) = t2 /\ InRange(t2)
      BY <2>2, <2>3 DEF Time, InRange, NormalizeFn, NormalizeMn
    <3>2. SlotIndex(t2) = (SlotIndex(tm) + 1) % SlotsPerCycle
      BY <1>3, <2>2, <3>1, NextSlotIndex
    <3>3. QED
      BY <1>1, <2>1, <2>2, <3>1, <3>2
  <2>4. CASE tm.fn = 18
    <3> DEFINE t3 == WithMn(WithFn(t2, 1), tm.mn + 1)
    <3>1. NormalizeFn(t2) = NormalizeMn(t3)
      <4>1. t2.fn > 18 /\ t2.fn % 18 = 1 /\ t2.fn \div 18 = 1
        BY <2>2, <2>4
      <4>2. QED
        BY <2>2, <4>1 DEF NormalizeFn
    <3>2. t3 \in Time /\ t3.tn = 1 /\ t3.fn = 1 /\ t3.mn = tm.mn + 1
      <4>1. /\ WithFn(t2, 1) \in Time /\ WithFn(t2, 1).tn = 1 /\ WithFn(t2, 1).fn = 1
        BY <1>0, <2>2, WithFields, Zenon
      <4>2. QED
        BY <1>0, <4>1, WithFields, Zenon
    <3> HIDE DEF t3
    <3>3. CASE tm.mn < 60
      <4>1. NormalizeMn(t3) = t3 /\ InRange(t3)
        BY <3>2, <3>3 DEF Time, InRange, NormalizeMn
      <4>2. SlotIndex(t3) = (SlotIndex(tm) + 1) % SlotsPerCycle
        BY <1>3, <2>4, <3>2, <4>1, NextSlotIndex
      <4>3. QED
        BY <1>1, <2>1, <3>1, <3>2, <4>1, <4>2
    <3>4. CASE tm.mn = 60
      <4> DEFINE t4 == WithMn(t3, 1)
      <4>1. NormalizeMn(t3) = t4
        <5>1. t3.mn > 60 /\ t3.mn % 60 = 1
          BY <3>2, <3>4
        <5>2. QED
          BY <5>1 DEF NormalizeMn
      <4>2. t4 \in Time /\ t4.tn = 1 /\ t4.fn = 1 /\ t4.mn = 1
        BY <3>2, WithFields
      <4> HIDE DEF t4
      <4>3. SlotIndex(t4) = 0 /\ SlotIndex(tm) + 1 = SlotsPerCycle
        BY <1>3, <2>4, <3>4, <4>2 DEF SlotIndex, SlotsPerCycle
      <4>4. InRange(t4) /\ SlotsPerCycle % SlotsPerCycle = 0
        BY <4>2 DEF InRange, SlotsPerCycle
      <4>5. QED
        BY <1>1, <2>1, <3>1, <4>1, <4>2, <4>3, <4>4
    <3>5. QED
      BY <3>3, <3>4 DEF InRange
  <2>5. QED
    BY <2>3, <2>4 DEF InRange
<1>4. QED
  BY <1>2, <1>3 DEF InRange

-----------------------------------------------------------------------------
(* The times that a SYNC PDU can set are in range.                         *)
LEMMA InitInRange == Init => TimeInRange
<1> SUFFICES ASSUME NEW tn \in 1..4, NEW fn \in 1..18, NEW mn \in 1..60,
                    time = [ZeroTime EXCEPT !.tn = tn, !.fn = fn, !.mn = mn]
             PROVE  TimeInRange
  BY DEF Init
<1>1. time = [hn |-> 0, mn |-> mn, fn |-> fn, tn |-> tn, sn |-> 0]
  BY DEF ZeroTime
<1>2. QED
  BY <1>1 DEF TimeInRange, InRange, Time

(* Once set by a SYNC PDU the clock is in range after any number of        *)
(* bursts: no carry of tetra_tdma.c produces a timeslot, frame or          *)
(* multiframe number outside the ranges tetra_tdma.h gives.                *)
THEOREM ClockInRange == Spec => []TimeInRange
<1>1. Init => TimeInRange
  BY InitInRange
<1>2. TimeInRange /\ [Next]_time => TimeInRange'
  BY AddTnOne DEF TimeInRange, Next, BurstTick, InRange
<1>3. QED
  BY <1>1, <1>2, PTL DEF Spec

(* The receiver's clock implements the counter of timeslots: the cascade   *)
(* of carries is, for every time, one step of the cycle of 4320 slots.     *)
THEOREM ClockCounts == Spec => ClockImplementsSlotCount
<1>1. Init => SlotClock!Init
  <2> SUFFICES ASSUME NEW tn \in 1..4, NEW fn \in 1..18, NEW mn \in 1..60,
                      time = [ZeroTime EXCEPT !.tn = tn, !.fn = fn, !.mn = mn]
               PROVE  SlotClock!Init
    BY DEF Init
  <2>1. time = [hn |-> 0, mn |-> mn, fn |-> fn, tn |-> tn, sn |-> 0]
    BY DEF ZeroTime
  <2>2. SlotIndex(time) = ((mn - 1) * 18 + (fn - 1)) * 4 + (tn - 1)
    BY <2>1 DEF SlotIndex
  <2>3. QED
    BY <2>2 DEF SlotClock!Init, SlotsPerCycle
<1>2. TimeInRange /\ [Next]_time => [SlotClock!Next]_(SlotIndex(time))
  <2>1. CASE BurstTick
    BY <2>1, AddTnOne DEF TimeInRange, BurstTick, SlotClock!Next
  <2>2. CASE UNCHANGED time
    BY <2>2 DEF SlotIndex
  <2>3. QED
    BY <2>1, <2>2 DEF Next
<1>3. QED
  BY <1>1, <1>2, ClockInRange, PTL DEF Spec, ClockImplementsSlotCount, SlotClock!Spec

-----------------------------------------------------------------------------
(* The cipher's side: words are sets of bits, so an IV or a mask is shown  *)
(* equal to the base station's bit by bit.                                 *)

(* The bits of a number, one by one, without the power.                    *)
LEMMA InBits ==
  ASSUME NEW v \in Nat
  PROVE  /\ Bits(v) \subseteq 0..15
         /\ 0 \in Bits(v) <=> (v \div 1) % 2 = 1
         /\ 1 \in Bits(v) <=> (v \div 2) % 2 = 1
         /\ 2 \in Bits(v) <=> (v \div 4) % 2 = 1
         /\ 3 \in Bits(v) <=> (v \div 8) % 2 = 1
         /\ 4 \in Bits(v) <=> (v \div 16) % 2 = 1
         /\ 5 \in Bits(v) <=> (v \div 32) % 2 = 1
         /\ 6 \in Bits(v) <=> (v \div 64) % 2 = 1
         /\ 7 \in Bits(v) <=> (v \div 128) % 2 = 1
         /\ 8 \in Bits(v) <=> (v \div 256) % 2 = 1
         /\ 9 \in Bits(v) <=> (v \div 512) % 2 = 1
         /\ 10 \in Bits(v) <=> (v \div 1024) % 2 = 1
         /\ 11 \in Bits(v) <=> (v \div 2048) % 2 = 1
         /\ 12 \in Bits(v) <=> (v \div 4096) % 2 = 1
         /\ 13 \in Bits(v) <=> (v \div 8192) % 2 = 1
         /\ 14 \in Bits(v) <=> (v \div 16384) % 2 = 1
         /\ 15 \in Bits(v) <=> (v \div 32768) % 2 = 1
BY DEF Bits

(* A number below 2^w has no bits from w on.                               *)
LEMMA Bits2 ==
  ASSUME NEW v \in Word(2)
  PROVE  Bits(v) \subseteq 0..1
<1>1. v \in Nat /\ v < 4
  BY DEF Word
<1>2. QED
  BY <1>1, InBits

(* The digits of a number of so many bits.                                 *)
LEMMA Bits5 ==
  ASSUME NEW v \in Word(5)
  PROVE  Bits(v) \subseteq 0..4
<1>1. v \in Nat /\ v < 32
  BY DEF Word
<1>2. QED
  BY <1>1, InBits

LEMMA Bits6 ==
  ASSUME NEW v \in Word(6)
  PROVE  Bits(v) \subseteq 0..5
<1>1. v \in Nat /\ v < 64
  BY DEF Word
<1>2. QED
  BY <1>1, InBits

LEMMA Bits12 ==
  ASSUME NEW v \in Word(12)
  PROVE  Bits(v) \subseteq 0..11
<1>1. v \in Nat /\ v < 4096
  BY DEF Word
<1>2. v \div 4096 = 0 /\ v \div 8192 = 0 /\ v \div 16384 = 0 /\ v \div 32768 = 0
  BY <1>1
<1>3. 12 \notin Bits(v) /\ 13 \notin Bits(v) /\ 14 \notin Bits(v) /\ 15 \notin Bits(v)
  BY <1>1, <1>2 DEF Bits
<1>4. Bits(v) \subseteq 0..15
  BY DEF Bits
<1>5. QED
  BY <1>3, <1>4

LEMMA Bits14 ==
  ASSUME NEW v \in Word(14)
  PROVE  Bits(v) \subseteq 0..13
<1>1. v \in Nat /\ v < 16384
  BY DEF Word
<1>2. v \div 16384 = 0 /\ v \div 32768 = 0
  BY <1>1
<1>3. 14 \notin Bits(v) /\ 15 \notin Bits(v)
  BY <1>1, <1>2 DEF Bits
<1>4. Bits(v) \subseteq 0..15
  BY DEF Bits
<1>5. QED
  BY <1>3, <1>4

LEMMA Bits15 ==
  ASSUME NEW v \in Word(15)
  PROVE  Bits(v) \subseteq 0..14
<1>1. v \in Nat /\ v < 32768
  BY DEF Word
<1>2. v \div 32768 = 0
  BY <1>1
<1>3. 15 \notin Bits(v)
  BY <1>1, <1>2 DEF Bits
<1>4. Bits(v) \subseteq 0..15
  BY DEF Bits
<1>5. QED
  BY <1>3, <1>4

(* The hyperframe number loses its highest bit on the way into the IV.     *)
LEMMA HighBit ==
  ASSUME NEW r \in Word(15)
  PROVE  Bits(r + 32768) \cap (0..14) = Bits(r)
<1>1. Bits(r) \subseteq 0..14
  BY Bits15
<1>2. \A b \in 0..14 : b \in Bits(r + 32768) <=> b \in Bits(r)
  <2>1. 0 \in Bits(r + 32768) <=> 0 \in Bits(r)
    BY DEF Bits, Word
  <2>2. 1 \in Bits(r + 32768) <=> 1 \in Bits(r)
    BY DEF Bits, Word
  <2>3. 2 \in Bits(r + 32768) <=> 2 \in Bits(r)
    BY DEF Bits, Word
  <2>4. 3 \in Bits(r + 32768) <=> 3 \in Bits(r)
    BY DEF Bits, Word
  <2>5. 4 \in Bits(r + 32768) <=> 4 \in Bits(r)
    BY DEF Bits, Word
  <2>6. 5 \in Bits(r + 32768) <=> 5 \in Bits(r)
    BY DEF Bits, Word
  <2>7. 6 \in Bits(r + 32768) <=> 6 \in Bits(r)
    BY DEF Bits, Word
  <2>8. 7 \in Bits(r + 32768) <=> 7 \in Bits(r)
    BY DEF Bits, Word
  <2>9. 8 \in Bits(r + 32768) <=> 8 \in Bits(r)
    BY DEF Bits, Word
  <2>10. 9 \in Bits(r + 32768) <=> 9 \in Bits(r)
    BY DEF Bits, Word
  <2>11. 10 \in Bits(r + 32768) <=> 10 \in Bits(r)
    BY DEF Bits, Word
  <2>12. 11 \in Bits(r + 32768) <=> 11 \in Bits(r)
    BY DEF Bits, Word
  <2>13. 12 \in Bits(r + 32768) <=> 12 \in Bits(r)
    BY DEF Bits, Word
  <2>14. 13 \in Bits(r + 32768) <=> 13 \in Bits(r)
    BY DEF Bits, Word
  <2>15. 14 \in Bits(r + 32768) <=> 14 \in Bits(r)
    BY DEF Bits, Word
  <2>20. QED
    BY <2>1, <2>2, <2>3, <2>4, <2>5, <2>6, <2>7, <2>8, <2>9, <2>10, <2>11, <2>12, <2>13, <2>14, <2>15
<1>3. QED
  BY <1>1, <1>2

(* The IV takes fifteen bits of the hyperframe number.                     *)
LEMMA LowBits ==
  ASSUME NEW h \in Word(16)
  PROVE  Bits(h % 65536) \cap (0..14) = Bits(h % 32768)
<1>1. h \in Nat /\ h < 65536
  BY DEF Word
<1>2. h % 65536 = h
  BY <1>1
<1>3. CASE h < 32768
  <2>1. h % 32768 = h
    BY <1>1, <1>3
  <2>2. h \in Word(15)
    BY <1>1, <1>3 DEF Word
  <2>3. Bits(h) \subseteq 0..14
    BY <2>2, Bits15
  <2>4. QED
    BY <1>2, <2>1, <2>3
<1>4. CASE ~(h < 32768)
  <2>1. PICK r \in Nat : h = r + 32768 /\ r < 32768
    <3>1. h - 32768 \in Nat /\ h - 32768 < 32768 /\ h = (h - 32768) + 32768
      BY <1>1, <1>4
    <3>2. QED
      BY <3>1
  <2>2. (r + 32768) % 32768 = r
    BY <2>1
  <2>3. r \in Word(15)
    BY <2>1 DEF Word
  <2>4. Bits(r + 32768) \cap (0..14) = Bits(r)
    BY <2>3, HighBit
  <2>5. QED
    BY <1>2, <2>1, <2>2, <2>4
<1>5. QED
  BY <1>3, <1>4

(* Of two numbers of six bits the greater is above in its bits: the        *)
(* highest bit in which they differ is the greater's.                      *)
LEMMA AboveIsGreater ==
  ASSUME NEW v \in Word(6), NEW u \in Word(6), v < u
  PROVE  Above(Bits(u), Bits(v))
<1> DEFINE Differ(b) == b \in Bits(u) /\ b \notin Bits(v)
           Same(b) == b \in Bits(u) <=> b \in Bits(v)
<1>1. \/ Differ(5)
      \/ Same(5) /\ Differ(4)
      \/ Same(5) /\ Same(4) /\ Differ(3)
      \/ Same(5) /\ Same(4) /\ Same(3) /\ Differ(2)
      \/ Same(5) /\ Same(4) /\ Same(3) /\ Same(2) /\ Differ(1)
      \/ Same(5) /\ Same(4) /\ Same(3) /\ Same(2) /\ Same(1) /\ Differ(0)
  <2>1. \A x \in Nat :
          /\ 0 \in Bits(x) <=> (x \div 1) % 2 = 1
          /\ 1 \in Bits(x) <=> (x \div 2) % 2 = 1
          /\ 2 \in Bits(x) <=> (x \div 4) % 2 = 1
          /\ 3 \in Bits(x) <=> (x \div 8) % 2 = 1
          /\ 4 \in Bits(x) <=> (x \div 16) % 2 = 1
          /\ 5 \in Bits(x) <=> (x \div 32) % 2 = 1
    BY InBits
  <2>2. ASSUME NEW x \in Nat, x < 64
        PROVE  \E p, q, r, t, w, z \in 0..1 :
                 /\ x = 32 * p + 16 * q + 8 * r + 4 * t + 2 * w + z
                 /\ (5 \in Bits(x) <=> p = 1) /\ (4 \in Bits(x) <=> q = 1)
                 /\ (3 \in Bits(x) <=> r = 1) /\ (2 \in Bits(x) <=> t = 1)
                 /\ (1 \in Bits(x) <=> w = 1) /\ (0 \in Bits(x) <=> z = 1)
    <3> DEFINE p == x \div 32
               q == (x \div 16) % 2
               r == (x \div 8) % 2
               t == (x \div 4) % 2
               w == (x \div 2) % 2
               z == x % 2
    <3>1. /\ p \in 0..1 /\ q \in 0..1 /\ r \in 0..1 /\ t \in 0..1 /\ w \in 0..1 /\ z \in 0..1
          /\ x = 32 * p + 16 * q + 8 * r + 4 * t + 2 * w + z /\ p % 2 = p
      BY <2>2
    <3>2. /\ (5 \in Bits(x) <=> p = 1) /\ (4 \in Bits(x) <=> q = 1)
          /\ (3 \in Bits(x) <=> r = 1) /\ (2 \in Bits(x) <=> t = 1)
          /\ (1 \in Bits(x) <=> w = 1) /\ (0 \in Bits(x) <=> z = 1)
      BY <2>1, <3>1
    <3> HIDE DEF p, q, r, t, w, z
    <3>3. QED
      BY <3>1, <3>2
  <2>3. v \in Nat /\ u \in Nat /\ v < 64 /\ u < 64
    BY DEF Word
  <2>4. QED
    BY <2>2, <2>3
<1>2. Bits(v) \subseteq 0..5
  BY Bits6
<1>3. ASSUME NEW b \in 0..5, Differ(b), \A c \in (b + 1)..5 : Same(c)
      PROVE  Above(Bits(u), Bits(v))
  <2>1. ASSUME NEW c \in Bits(v) \ Bits(u) PROVE c < b
    BY <1>2, <1>3
  <2>2. QED
    BY <1>3, <2>1 DEF Above
<1> HIDE DEF Differ, Same
<1>4. \E b \in 0..5 : Differ(b) /\ \A c \in (b + 1)..5 : Same(c)
  <2>1. CASE Differ(5)
    BY <2>1
  <2>2. CASE Same(5) /\ Differ(4)
    BY <2>2
  <2>3. CASE Same(5) /\ Same(4) /\ Differ(3)
    BY <2>3
  <2>4. CASE Same(5) /\ Same(4) /\ Same(3) /\ Differ(2)
    BY <2>4
  <2>5. CASE Same(5) /\ Same(4) /\ Same(3) /\ Same(2) /\ Differ(1)
    BY <2>5
  <2>6. CASE Same(5) /\ Same(4) /\ Same(3) /\ Same(2) /\ Same(1) /\ Differ(0)
    BY <2>6
  <2>7. QED
    BY <1>1, <2>1, <2>2, <2>3, <2>4, <2>5, <2>6
<1>5. QED
  BY <1>3, <1>4

(* An IV of tea_build_iv: two bits of timeslot, five of frame, six of      *)
(* multiframe and fifteen of hyperframe, none of them in another's place.  *)
IvHyper(h) == Bits(h % 65536) \cap (0..14)
IvWord(T, F, M, H) == T \cup Shl(F, 2) \cup Shl(M, 7) \cup Shl(H, 13)

(* A bit of a word that was shifted.                                       *)
LEMMA InShl ==
  ASSUME NEW w \in SUBSET Int, NEW k \in Int, NEW b \in Int
  PROVE  b \in Shl(w, k) <=> (b - k \in w /\ b \in 0..31)
BY DEF Shl

(* Which field a bit of the IV comes from: the fields do not overlap.      *)
LEMMA InIvWord ==
  ASSUME NEW T \in SUBSET (0..1), NEW F \in SUBSET (0..4), NEW M \in SUBSET (0..5),
         NEW H \in SUBSET (0..14), NEW b \in Int
  PROVE  b \in IvWord(T, F, M, H) <=>
           \/ b \in 0..1 /\ b \in T
           \/ b \in 2..6 /\ b - 2 \in F
           \/ b \in 7..12 /\ b - 7 \in M
           \/ b \in 13..27 /\ b - 13 \in H
<1>1. b \in Shl(F, 2) <=> b \in 2..6 /\ b - 2 \in F
  BY DEF Shl
<1>2. b \in Shl(M, 7) <=> b \in 7..12 /\ b - 7 \in M
  BY DEF Shl
<1>3. b \in Shl(H, 13) <=> b \in 13..27 /\ b - 13 \in H
  BY DEF Shl
<1>4. b \in T <=> b \in 0..1 /\ b \in T
  OBVIOUS
<1>5. b \in IvWord(T, F, M, H) <=>
        b \in T \/ b \in Shl(F, 2) \/ b \in Shl(M, 7) \/ b \in Shl(H, 13)
  BY DEF IvWord
<1>6. QED
  BY <1>1, <1>2, <1>3, <1>4, <1>5

(* An IV is a word.                                                        *)
LEMMA WordOfBits ==
  ASSUME NEW T \in SUBSET (0..1), NEW F \in SUBSET (0..4), NEW M \in SUBSET (0..5),
         NEW H \in SUBSET (0..14)
  PROVE  IvWord(T, F, M, H) \in SUBSET Int
<1>1. T \in SUBSET Int
  OBVIOUS
<1>2. Shl(F, 2) \in SUBSET Int /\ Shl(M, 7) \in SUBSET Int /\ Shl(H, 13) \in SUBSET Int
  BY DEF Shl
<1>3. QED
  BY <1>1, <1>2 DEF IvWord

(* The IV is such a word, for every time and hyperframe number.            *)
LEMMA TimeBits ==
  ASSUME NEW tm \in Time, InRange(tm)
  PROVE  /\ Bits(tm.tn - 1) \in SUBSET (0..1)
         /\ Bits(tm.fn) \in SUBSET (0..4)
         /\ Bits(tm.mn) \in SUBSET (0..5)
<1>1. tm.tn - 1 \in Word(2) /\ tm.fn \in Word(5) /\ tm.mn \in Word(6)
  BY DEF InRange, Time, Word
<1>2. QED
  BY <1>1, Bits2, Bits5, Bits6

(* tea_build_iv puts the fields together in this way.                      *)
LEMMA IvIsWord ==
  ASSUME NEW tm, NEW h
  PROVE  /\ TeaBuildIv(tm, h) =
              IvWord(Bits(tm.tn - 1), Bits(tm.fn), Bits(tm.mn), IvHyper(h))
         /\ IvHyper(h) \in SUBSET (0..14)
<1>1. TeaBuildIv(tm, h) = IvWord(Bits(tm.tn - 1), Bits(tm.fn), Bits(tm.mn), IvHyper(h))
  BY DEF TeaBuildIv, IvWord, IvHyper
<1>2. IvHyper(h) \in SUBSET (0..14)
  BY DEF IvHyper
<1>3. QED
  BY <1>1, <1>2

(* What the number of a slot says of its timeslot, frame and multiframe.   *)
LEMMA SlotFields ==
  ASSUME NEW tn \in 1..4, NEW fn \in 1..18, NEW mn \in 1..60, NEW x \in Int,
         x = ((mn - 1) * 18 + (fn - 1)) * 4 + (tn - 1)
  PROVE  x % 4 = tn - 1 /\ 1 + ((x \div 4) % 18) = fn /\ 1 + x \div 72 = mn
<1>1. x % 4 = tn - 1 /\ x \div 4 = (mn - 1) * 18 + (fn - 1)
  OBVIOUS
<1>2. ((mn - 1) * 18 + (fn - 1)) % 18 = fn - 1
  OBVIOUS
<1>3. x \div 72 = mn - 1
  OBVIOUS
<1>4. QED
  BY <1>1, <1>2, <1>3

(* The number of a slot gives the fields of its time.                      *)
LEMMA TimeOfSlot ==
  ASSUME TimeInRange, slot = SlotIndex(time)
  PROVE  /\ slot % 4 = time.tn - 1
         /\ 1 + ((slot \div 4) % 18) = time.fn
         /\ 1 + slot \div 72 = time.mn
<1>1. PICK tn \in 1..4, fn \in 1..18, mn \in 1..60 :
        tn = time.tn /\ fn = time.fn /\ mn = time.mn
  BY DEF TimeInRange, InRange
<1>2. slot = ((mn - 1) * 18 + (fn - 1)) * 4 + (tn - 1)
  BY <1>1 DEF SlotIndex
<1>3. slot \in Int
  BY <1>2
<1>4. slot % 4 = tn - 1 /\ 1 + ((slot \div 4) % 18) = fn /\ 1 + slot \div 72 = mn
  BY <1>2, <1>3, SlotFields
<1>5. QED
  BY <1>1, <1>4

(* The base station's IV of a slot has the fields of the slot's time.      *)
LEMMA AirIvIsWord ==
  ASSUME TimeInRange, slot = SlotIndex(time), hyper \in Word(16)
  PROVE  AirIv = IvWord(Bits(time.tn - 1), Bits(time.fn), Bits(time.mn),
                        Bits(hyper % 32768))
<1> DEFINE tn == slot % 4
           fn == 1 + ((slot \div 4) % 18)
           mn == 1 + slot \div 72
           h == hyper % 32768
<1>1. tn = time.tn - 1 /\ fn = time.fn /\ mn = time.mn
  BY TimeOfSlot
<1>2. h \in Word(15)
  <2>1. hyper \in Nat
    BY DEF Word
  <2>2. h \in Nat /\ h < 32768
    BY <2>1
  <2>3. QED
    BY <2>2 DEF Word
<1>3. AirIv = {b \in 0..27 : \/ b \in 0..1 /\ b \in Bits(tn)
                             \/ b \in 2..6 /\ b - 2 \in Bits(fn)
                             \/ b \in 7..12 /\ b - 7 \in Bits(mn)
                             \/ b \in 13..27 /\ b - 13 \in Bits(h)}
  BY DEF AirIv
<1> HIDE DEF tn, fn, mn, h
<1>4. Bits(tn) \in SUBSET (0..1) /\ Bits(fn) \in SUBSET (0..4) /\ Bits(mn) \in SUBSET (0..5)
  BY <1>1, TimeBits DEF TimeInRange
<1>5. Bits(h) \in SUBSET (0..14)
  BY <1>2, Bits15
<1>6. ASSUME NEW b \in Int
      PROVE  b \in AirIv <=> \/ b \in 0..1 /\ b \in Bits(tn)
                             \/ b \in 2..6 /\ b - 2 \in Bits(fn)
                             \/ b \in 7..12 /\ b - 7 \in Bits(mn)
                             \/ b \in 13..27 /\ b - 13 \in Bits(h)
  BY <1>3
<1>7. AirIv \in SUBSET Int
  BY <1>3
<1>8. IvWord(Bits(tn), Bits(fn), Bits(mn), Bits(h)) \in SUBSET Int
  BY <1>4, <1>5, WordOfBits
<1>9. ASSUME NEW b \in Int
      PROVE  b \in AirIv <=> b \in IvWord(Bits(tn), Bits(fn), Bits(mn), Bits(h))
  BY <1>4, <1>5, <1>6, InIvWord
<1>10. AirIv = IvWord(Bits(tn), Bits(fn), Bits(mn), Bits(h))
  BY <1>7, <1>8, <1>9
<1>11. QED
  BY <1>1, <1>10 DEF h

(* The words of tb5 put the fields of the location side by side.           *)
LEMMA MaskWord ==
  ASSUME NEW la \in SUBSET (0..13), NEW cn \in SUBSET (0..11), NEW cc \in SUBSET (0..5),
         NEW b \in Int
  PROVE  b \in Concat(Shl(la, 2) \cup Shr(cn, 10),
                      Shl(cn, 22) \cup Shl(cc, 16) \cup Shl(cn, 4) \cup Shr(cc, 2),
                      Shl(cc, 30) \cup Shl(cn, 18) \cup Shl(cc, 12) \cup cn) <=>
           \/ b - 66 \in la \/ b - 54 \in cn \/ b - 48 \in cc \/ b - 36 \in cn
           \/ b - 30 \in cc \/ b - 18 \in cn \/ b - 12 \in cc \/ b \in cn
<1> DEFINE w0 == Shl(la, 2) \cup Shr(cn, 10)
           w1 == Shl(cn, 22) \cup Shl(cc, 16) \cup Shl(cn, 4) \cup Shr(cc, 2)
           w2 == Shl(cc, 30) \cup Shl(cn, 18) \cup Shl(cc, 12) \cup cn
<1>1. ASSUME NEW x \in Int, NEW k \in Nat
      PROVE  /\ x \in Shr(cn, k) <=> x + k \in cn /\ x >= 0
             /\ x \in Shr(cc, k) <=> x + k \in cc /\ x >= 0
  BY DEF Shr
<1>2. ASSUME NEW x \in Int
      PROVE  x \in w0 <=> \/ x \in 0..31 /\ x - 2 \in la
                          \/ x >= 0 /\ x + 10 \in cn
  BY <1>1, InShl
<1>3. ASSUME NEW x \in Int
      PROVE  x \in w1 <=> \/ x \in 0..31 /\ (x - 22 \in cn \/ x - 16 \in cc \/ x - 4 \in cn)
                          \/ x >= 0 /\ x + 2 \in cc
  BY <1>1, InShl
<1>4. ASSUME NEW x \in Int
      PROVE  x \in w2 <=> \/ x \in 0..31 /\ (x - 30 \in cc \/ x - 18 \in cn \/ x - 12 \in cc)
                          \/ x \in cn
  BY InShl
<1>5. /\ la \in SUBSET Int /\ cn \in SUBSET Int /\ cc \in SUBSET Int
  OBVIOUS
<1>6. w0 \in SUBSET Int /\ w1 \in SUBSET Int /\ w2 \in SUBSET Int
  <2>1. ASSUME NEW w \in SUBSET Int, NEW k \in Int
        PROVE  Shl(w, k) \in SUBSET Int /\ Shr(w, k) \in SUBSET Int
    BY DEF Shl, Shr
  <2>2. w0 \in SUBSET Int
    BY <1>5, <2>1
  <2>3. w1 \in SUBSET Int
    BY <1>5, <2>1
  <2>4. w2 \in SUBSET Int
    <3>1. Shl(cc, 30) \in SUBSET Int /\ Shl(cn, 18) \in SUBSET Int /\ Shl(cc, 12) \in SUBSET Int
      BY <1>5, <2>1
    <3>2. QED
      BY <1>5, <3>1
  <2>5. QED
    BY <2>2, <2>3, <2>4
<1> HIDE DEF w0, w1, w2
<1>7. b \in Concat(w0, w1, w2) <=>
        b \in w2 \/ b - 32 \in w1 \/ (b - 64 \in w0 /\ b - 64 \in 0..15)
  BY <1>6 DEF Concat
<1>8. QED
  BY <1>2, <1>3, <1>4, <1>7 DEF w0, w1, w2

(* It is the base station's [la cn cc cn cc cn cc cn].                     *)
LEMMA LocationFields ==
  ASSUME NEW l \in Locations
  PROVE  l.la \in Word(14) /\ l.cn \in Word(12) /\ l.cc \in Word(6)
BY CipherAssumption

(* The mask of tb5 has the bits of the location where the standard puts    *)
(* them: decided for every bit of the eighty.                              *)
LEMMA MaskIsAir ==
  ASSUME location \in Locations
  PROVE  Tb5Mask(location) = AirMask
<1> DEFINE la == Bits(location.la)
           cn == Bits(location.cn)
           cc == Bits(location.cc)
           fields == <<la, cn, cc, cn, cc, cn, cc, cn>>
<1>2. la \in SUBSET (0..13) /\ cn \in SUBSET (0..11) /\ cc \in SUBSET (0..5)
  BY LocationFields, Bits14, Bits12, Bits6
<1>3. AirMask = UNION {{b + MaskLowest[i] : b \in Bits(<<location.la, location.cn,
          location.cc, location.cn, location.cc, location.cn, location.cc, location.cn>>[i])}
            : i \in 1..8}
  BY DEF AirMask
<1>4. Tb5Mask(location) =
        Concat(Shl(la, 2) \cup Shr(cn, 10),
               Shl(cn, 22) \cup Shl(cc, 16) \cup Shl(cn, 4) \cup Shr(cc, 2),
               Shl(cc, 30) \cup Shl(cn, 18) \cup Shl(cc, 12) \cup cn)
  BY DEF Tb5Mask
<1>5. ASSUME NEW x
      PROVE  x \in AirMask <=>
               \/ \E b \in la : x = b + 66
               \/ \E b \in cn : x = b + 54
               \/ \E b \in cc : x = b + 48
               \/ \E b \in cn : x = b + 36
               \/ \E b \in cc : x = b + 30
               \/ \E b \in cn : x = b + 18
               \/ \E b \in cc : x = b + 12
               \/ \E b \in cn : x = b + 0
  BY <1>3 DEF MaskLowest
<1> HIDE DEF la, cn, cc, fields
<1>6. ASSUME NEW x \in Int
      PROVE  x \in AirMask <=>
               \/ x - 66 \in la \/ x - 54 \in cn \/ x - 48 \in cc \/ x - 36 \in cn
               \/ x - 30 \in cc \/ x - 18 \in cn \/ x - 12 \in cc \/ x \in cn
  BY <1>2, <1>5
<1>7. ASSUME NEW x \in AirMask PROVE x \in Int
  BY <1>2, <1>5
<1>8. ASSUME NEW x \in Tb5Mask(location) PROVE x \in Int
  <2>1. /\ la \in SUBSET Int /\ cn \in SUBSET Int /\ cc \in SUBSET Int
        /\ \A w, k : Shl(w, k) \in SUBSET Int
        /\ \A k \in Int : Shr(cn, k) \in SUBSET Int /\ Shr(cc, k) \in SUBSET Int
    BY <1>2 DEF Shl, Shr
  <2>2. ASSUME NEW w0 \in SUBSET Int, NEW w1 \in SUBSET Int, NEW w2 \in SUBSET Int
        PROVE  Concat(w0, w1, w2) \in SUBSET Int
    <3>1. ASSUME NEW w \in SUBSET Int, NEW k \in Int
          PROVE  {b + k : b \in w} \in SUBSET Int
      OBVIOUS
    <3>2. w0 \cap (0..15) \in SUBSET Int
      OBVIOUS
    <3>3. {b + 32 : b \in w1} \in SUBSET Int /\ {b + 64 : b \in w0 \cap (0..15)} \in SUBSET Int
      BY <3>1, <3>2
    <3>4. QED
      BY <3>3 DEF Concat
  <2>3. QED
    BY <1>4, <2>1, <2>2
<1>9. ASSUME NEW x \in Int
      PROVE  x \in Tb5Mask(location) <=> x \in AirMask
  <2>1. x \in Tb5Mask(location) <=>
          \/ x - 66 \in la \/ x - 54 \in cn \/ x - 48 \in cc \/ x - 36 \in cn
          \/ x - 30 \in cc \/ x - 18 \in cn \/ x - 12 \in cc \/ x \in cn
    BY <1>2, <1>4, MaskWord
  <2>2. QED
    BY <1>6, <2>1
<1>10. QED
  BY <1>7, <1>8, <1>9

-----------------------------------------------------------------------------
(* The receiver's clock and the base station's slot stay in step, and told *)
(* means that the hyperframe numbers are equal.                            *)
CipherInv ==
  /\ TimeInRange /\ slot = SlotIndex(time)
  /\ location \in Locations /\ hyper \in Word(16)
  /\ told => hn = hyper

(* The receiver counts the slots of the base station, and once it was told *)
(* the hyperframe it knows it.                                             *)
LEMMA CipherInvariant == CipherSpec => []CipherInv
<1>1. CipherInit => CipherInv
  <2> SUFFICES ASSUME CipherInit PROVE CipherInv
    OBVIOUS
  <2>1. TimeInRange
    BY InitInRange DEF CipherInit
  <2>2. hyper \in Word(16)
    <3>1. FirstHyper \in Word(16)
      BY CipherAssumption DEF Word
    <3>2. QED
      BY <3>1 DEF CipherInit
  <2>3. QED
    BY <2>1, <2>2 DEF CipherInit, CipherInv
<1>2. CipherInv /\ [CipherNext]_cipherVars => CipherInv'
  <2> SUFFICES ASSUME CipherInv, [CipherNext]_cipherVars PROVE CipherInv'
    OBVIOUS
  <2>1. CASE Burst
    <3>1. TimeInRange' /\ SlotIndex(time)' = (SlotIndex(time) + 1) % SlotsPerCycle
      BY <2>1, AddTnOne DEF Burst, BurstTick, CipherInv, TimeInRange, InRange, SlotIndex
    <3>2. slot' = SlotIndex(time)' /\ location' \in Locations
      BY <2>1, <3>1 DEF Burst, CipherInv
    <3>3. hyper' \in Word(16)
      <4>1. ASSUME NEW h \in Word(16) PROVE (h + 1) % 65536 \in Word(16)
        <5>1. h + 1 \in Nat
          BY DEF Word
        <5>2. (h + 1) % 65536 \in Nat /\ (h + 1) % 65536 < 65536
          BY <5>1
        <5>3. QED
          BY <5>2 DEF Word
      <4>2. hyper' = (hyper + 1) % 65536 \/ hyper' = hyper
        BY <2>1 DEF Burst
      <4>3. QED
        BY <4>1, <4>2 DEF CipherInv
    <3>4. told' => hn' = hyper'
      <4>1. hn' = hn /\ (slot' # 0 => hyper' = hyper) /\ (told => hn = hyper)
        BY <2>1 DEF Burst, CipherInv
      <4>2. (slot' = 0 => told' = FALSE) /\ (slot' # 0 => told' = told)
        BY <2>1 DEF Burst
      <4>3. QED
        BY <4>1, <4>2, Zenon
    <3>5. QED
      BY <3>1, <3>2, <3>3, <3>4 DEF CipherInv
  <2>2. CASE RxSysinfoHn
    BY <2>2 DEF RxSysinfoHn, CipherInv, TimeInRange, InRange, SlotIndex
  <2>3. CASE UNCHANGED cipherVars
    BY <2>3 DEF cipherVars, CipherInv, TimeInRange, InRange, SlotIndex
  <2>4. QED
    BY <2>1, <2>2, <2>3 DEF CipherNext
<1>3. QED
  BY <1>1, <1>2, PTL DEF CipherSpec

(* What generate_keystream puts into the cipher for a block is what the    *)
(* base station enciphered that block with, in every slot after a SYSINFO  *)
(* told the hyperframe and before the next hyperframe begins.              *)
THEOREM KeystreamsAgree == CipherSpec => []KeystreamInStep
<1>1. CipherInv => KeystreamInStep
  <2> SUFFICES ASSUME CipherInv, told, NEW c \in Blocks, Encrypted(c)
               PROVE  Keystream(c) = AirKeystream(c)
    BY DEF KeystreamInStep
  <2>1. TeaBuildIv(time, hn) = AirIv
    <3>1. hn = hyper /\ hyper \in Word(16)
      BY DEF CipherInv
    <3>2. IvHyper(hn) = Bits(hyper % 32768)
      BY <3>1, LowBits DEF IvHyper
    <3>3. AirIv = IvWord(Bits(time.tn - 1), Bits(time.fn), Bits(time.mn),
                         Bits(hyper % 32768))
      BY AirIvIsWord DEF CipherInv
    <3>4. QED
      BY <3>2, <3>3, IvIsWord
  <2>2. Tb5Mask(location) = AirMask
    BY MaskIsAir DEF CipherInv
  <2>3. SkipBits(c) = IF c.blk = 2 THEN 216 ELSE 0
    BY DEF SkipBits, Lchan, Encrypted, Blocks, Block
  <2>4. QED
    BY <2>1, <2>2, <2>3 DEF Keystream, AirKeystream
<1>2. QED
  BY <1>1, CipherInvariant, PTL

(* Later slots of a hyperframe have greater times, field by field.         *)
LEMMA LaterSlot ==
  ASSUME NEW tm \in Time, NEW t \in Time, InRange(tm), InRange(t),
         SlotIndex(t) = SlotIndex(tm) + 1
  PROVE  \/ tm.mn < t.mn
         \/ tm.mn = t.mn /\ tm.fn < t.fn
         \/ tm.mn = t.mn /\ tm.fn = t.fn /\ tm.tn - 1 < t.tn - 1
<1>1. PICK a \in 1..60, b \in 1..18, c \in 1..4 : a = tm.mn /\ b = tm.fn /\ c = tm.tn
  BY DEF InRange
<1>2. PICK x \in 1..60, y \in 1..18, z \in 1..4 : x = t.mn /\ y = t.fn /\ z = t.tn
  BY DEF InRange
<1>3. ((x - 1) * 18 + (y - 1)) * 4 + (z - 1) = ((a - 1) * 18 + (b - 1)) * 4 + (c - 1) + 1
  BY <1>1, <1>2 DEF SlotIndex
<1>4. a < x \/ (a = x /\ b < y) \/ (a = x /\ b = y /\ c - 1 < z - 1)
  BY <1>3
<1>5. QED
  BY <1>1, <1>2, <1>4

(* The field that grows has nothing but equal fields above it.             *)
LEMMA IvGrows ==
  ASSUME NEW tm \in Time, NEW t \in Time, InRange(tm), InRange(t), NEW h,
         SlotIndex(t) = SlotIndex(tm) + 1
  PROVE  Above(TeaBuildIv(t, h), TeaBuildIv(tm, h))
<1> DEFINE T == Bits(tm.tn - 1)
           F == Bits(tm.fn)
           M == Bits(tm.mn)
           U == Bits(t.tn - 1)
           G == Bits(t.fn)
           N == Bits(t.mn)
           H == IvHyper(h)
<1>1. /\ TeaBuildIv(tm, h) = IvWord(T, F, M, H)
      /\ TeaBuildIv(t, h) = IvWord(U, G, N, H)
  BY IvIsWord
<1>2. /\ T \in SUBSET (0..1) /\ F \in SUBSET (0..4) /\ M \in SUBSET (0..5)
      /\ U \in SUBSET (0..1) /\ G \in SUBSET (0..4) /\ N \in SUBSET (0..5)
  BY TimeBits
<1>3. H \in SUBSET (0..14)
  BY IvIsWord
<1>4. \/ Above(N, M)
      \/ N = M /\ Above(G, F)
      \/ N = M /\ G = F /\ Above(U, T)
  <2>1. /\ tm.tn - 1 \in Word(6) /\ tm.fn \in Word(6) /\ tm.mn \in Word(6)
        /\ t.tn - 1 \in Word(6) /\ t.fn \in Word(6) /\ t.mn \in Word(6)
    BY DEF Time, InRange, Word
  <2>2. CASE tm.mn < t.mn
    BY <2>1, <2>2, AboveIsGreater
  <2>3. CASE tm.mn = t.mn /\ tm.fn < t.fn
    BY <2>1, <2>3, AboveIsGreater
  <2>4. CASE tm.mn = t.mn /\ tm.fn = t.fn /\ tm.tn - 1 < t.tn - 1
    BY <2>1, <2>4, AboveIsGreater
  <2>5. QED
    BY <2>2, <2>3, <2>4, LaterSlot
<1> HIDE DEF T, F, M, U, G, N, H
<1> DEFINE w == IvWord(U, G, N, H)
           v == IvWord(T, F, M, H)
<1>5. /\ \A b \in Int : b \in w <=> \/ b \in 0..1 /\ b \in U
                                    \/ b \in 2..6 /\ b - 2 \in G
                                    \/ b \in 7..12 /\ b - 7 \in N
                                    \/ b \in 13..27 /\ b - 13 \in H
      /\ \A b \in Int : b \in v <=> \/ b \in 0..1 /\ b \in T
                                    \/ b \in 2..6 /\ b - 2 \in F
                                    \/ b \in 7..12 /\ b - 7 \in M
                                    \/ b \in 13..27 /\ b - 13 \in H
  BY <1>2, <1>3, InIvWord
<1>6. v \in SUBSET Int
  BY <1>2, <1>3, WordOfBits
<1> HIDE DEF w, v
<1> SUFFICES Above(w, v)
  BY <1>1 DEF w, v
<1>7. CASE Above(N, M)
  <2>1. PICK b \in N \ M : \A c \in M \ N : c < b
    BY <1>7 DEF Above
  <2>2. b \in 0..5 /\ b + 7 \in w \ v
    BY <1>2, <1>5, <2>1
  <2>3. ASSUME NEW c \in v \ w PROVE c < b + 7
    BY <1>2, <1>5, <1>6, <2>1, <2>2
  <2>4. QED
    BY <2>2, <2>3 DEF Above
<1>8. CASE N = M /\ Above(G, F)
  <2>1. PICK b \in G \ F : \A c \in F \ G : c < b
    BY <1>8 DEF Above
  <2>2. b \in 0..4 /\ b + 2 \in w \ v
    BY <1>2, <1>5, <2>1
  <2>3. ASSUME NEW c \in v \ w PROVE c < b + 2
    BY <1>2, <1>5, <1>6, <1>8, <2>1, <2>2
  <2>4. QED
    BY <2>2, <2>3 DEF Above
<1>9. CASE N = M /\ G = F /\ Above(U, T)
  <2>1. PICK b \in U \ T : \A c \in T \ U : c < b
    BY <1>9 DEF Above
  <2>2. b \in 0..1 /\ b \in w \ v
    BY <1>2, <1>5, <2>1
  <2>3. ASSUME NEW c \in v \ w PROVE c < b
    BY <1>2, <1>5, <1>6, <1>9, <2>1, <2>2
  <2>4. QED
    BY <2>2, <2>3 DEF Above
<1>10. QED
  BY <1>4, <1>7, <1>8, <1>9

(* No IV comes twice in a hyperframe, with a right, a wrong or no          *)
(* hyperframe number: the next slot's IV is the greater number.            *)
THEOREM IvsAreFresh == CipherSpec => IvNamesSlot
<1>1. ASSUME CipherInv, Burst, slot' # 0
      PROVE  Above(TeaBuildIv(time', hn'), TeaBuildIv(time, hn))
  <2>1. /\ time \in Time /\ InRange(time) /\ time' = AddTn(time, 1) /\ hn' = hn
        /\ slot' = (SlotIndex(time) + 1) % SlotsPerCycle
    BY <1>1 DEF CipherInv, TimeInRange, Burst, BurstTick
  <2>2. /\ AddTn(time, 1) \in Time /\ InRange(AddTn(time, 1))
        /\ SlotIndex(AddTn(time, 1)) = slot'
    BY <2>1, AddTnOne
  <2>3. slot' = SlotIndex(time) + 1
    <3>1. SlotIndex(time) \in Nat /\ SlotIndex(time) < SlotsPerCycle
      BY <2>1, SlotIndexRange
    <3>2. QED
      BY <1>1, <2>1, <3>1 DEF SlotsPerCycle
  <2>4. Above(TeaBuildIv(AddTn(time, 1), hn), TeaBuildIv(time, hn))
    BY <2>1, <2>2, <2>3, IvGrows
  <2>5. QED
    BY <2>1, <2>4
<1>2. CipherInv /\ [CipherNext]_cipherVars
        => [Burst /\ slot' # 0
              => Above(TeaBuildIv(time', hn'), TeaBuildIv(time, hn))]_cipherVars
  BY <1>1
<1>3. QED
  BY <1>2, CipherInvariant, PTL DEF CipherSpec, IvNamesSlot
=============================================================================
