------------------------- MODULE BlockCoding_proofs -------------------------
(***************************************************************************)
(* Proofs about BlockCoding, for every set of cells and payloads: the      *)
(* buffers are never overrun, the decoder's tables are the encoder's, the  *)
(* CRC leaves its constant behind, and the receiver undoes what the sender *)
(* did.                                                                    *)
(*                                                                         *)
(* The invariant CodingInv says where in the phases of a burst the program *)
(* is (CallsOK), that the state of the decoder's tables is the encoder's   *)
(* delay line (SameState), and what the CRC register holds while the CRC   *)
(* itself goes through it (CrcGoesOut): its first value, shifted out at    *)
(* the top, and below that what its complement leaves behind, which is     *)
(* the same for every value.                                               *)
(*                                                                         *)
(* That the receiver undoes the sender takes three more: UndoInv says what *)
(* is on the air and with which registers it was scrambled, TestInv what a *)
(* puncturer got back, and SpeechInv which codec bit holds which type-2    *)
(* bit.                                                                    *)
(***************************************************************************)
EXTENDS BlockCoding, TLAPS, FiniteSetTheorems, SequenceTheorems

CallType == [type : DOMAIN Blk, blk : 0..2]
Places == 1..432
Numbers == 1..1152
Symbol == [i : Places, k : Numbers, bit : 0..1]
CodecBits == [0..274 -> 0..274]
InBurst == phase \in {"encode", "scramble", "receive"}

Typed ==
  /\ train \in DOMAIN Blocks /\ cell \in Cells /\ one \in Ones
  /\ phase \in {"puncture", "speech", "encode", "scramble", "receive"}
  /\ codec \in CodecBits
  /\ crc \in [0..15 -> 0..1] /\ fcs \in [0..15 -> 0..1] /\ lfsr \in [0..31 -> 0..1]
  /\ delayed \in [1..4 -> 0..1] /\ trellis \in 0..15
  /\ type4 \subseteq Symbol

CallsOK ==
  /\ phase = "puncture" =>
       /\ calls \in Seq(Range(PunctTests)) /\ calls # <<>>
       /\ n \in 0..(Head(calls).type3) /\ depunct \subseteq 1..(Head(calls).mother)
  /\ phase = "speech" => calls = <<>> /\ n \in 0..274
  /\ InBurst =>
       /\ calls \in Seq(CallType)
       /\ phase # "receive" => calls # <<>>
       /\ IF calls = <<>> THEN n = 0
          ELSE n \in 0..(IF phase = "encode" THEN Par.type2 ELSE Par.type345)

SameState == trellis = delayed[1] + 2 * delayed[2] + 4 * delayed[3] + 8 * delayed[4]

(* What m ones leave in a register that was zero.                          *)
Residues ==
  << {}, {0, 5, 12}, {0, 1, 5, 6, 12, 13}, {0, 1, 2, 5, 6, 7, 12, 13, 14},
     {0, 1, 2, 3, 5, 6, 7, 8, 12, 13, 14, 15}, {1, 2, 3, 4, 6, 7, 8, 9, 13, 14, 15},
     {2, 3, 4, 5, 7, 8, 9, 10, 14, 15}, {3, 4, 5, 6, 8, 9, 10, 11, 15},
     {4, 5, 6, 7, 9, 10, 11, 12}, {0, 6, 7, 8, 10, 11, 13}, {0, 1, 5, 7, 8, 9, 11, 14},
     {0, 1, 2, 5, 6, 8, 9, 10, 15}, {1, 2, 3, 6, 7, 9, 10, 11}, {0, 2, 3, 4, 5, 7, 8, 10, 11},
     {0, 1, 3, 4, 6, 8, 9, 11}, {0, 1, 2, 4, 7, 9, 10}, {0, 1, 2, 3, 8, 10, 11, 12} >>

(* The register r after m bits of the CRC c.                               *)
AfterCrc(r, c, m) ==
  \A b \in 0..15 :
    r[b] = ((IF b >= m THEN 1 - c[b - m] ELSE 0) + (IF b \in Residues[m + 1] THEN 1 ELSE 0)) % 2

CrcGoesOut ==
  phase = "encode" /\ Par.a # 0 /\ n \in Par.type1..(Par.type1 + 16)
    => AfterCrc(crc, fcs, n - Par.type1)

CodingInv == Typed /\ CallsOK /\ SameState /\ CrcGoesOut

-----------------------------------------------------------------------------
(* The parameters of the block types.                                      *)
LEMMA BlkParams ==
  ASSUME NEW t \in DOMAIN Blk
  PROVE  /\ Blk[t].type345 \in Nat /\ Blk[t].type345 > 0 /\ Blk[t].type345 <= 432
         /\ Blk[t].type2 \in Nat /\ Blk[t].type1 \in Nat /\ Blk[t].type1 > 0 /\ Blk[t].a \in Nat
         /\ Blk[t].type2 <= 288
         /\ t # "BBK" => Blk[t].type2 = Blk[t].type1 + 20
         /\ t = "BBK" <=> Blk[t].a = 0
         /\ t = "BBK" => Blk[t].type2 = 30
<1>1. t \in {"SB1", "SB2", "NDB", "SCH_F", "BBK"}
  BY DEF Blk
<1>2. CASE t = "SB1" BY <1>2 DEF Blk
<1>3. CASE t = "SB2" BY <1>3 DEF Blk
<1>4. CASE t = "NDB" BY <1>4 DEF Blk
<1>5. CASE t = "SCH_F" BY <1>5 DEF Blk
<1>6. CASE t = "BBK" BY <1>6 DEF Blk
<1> QED BY <1>1, <1>2, <1>3, <1>4, <1>5, <1>6

(* The blocks of a burst.                                                  *)
LEMMA BlocksAreCalls ==
  ASSUME NEW t \in DOMAIN Blocks
  PROVE  Blocks[t] \in Seq(CallType) /\ Blocks[t] # <<>>
<1>1. t \in {"SYNC", "NORM_1", "NORM_2"}
  BY DEF Blocks
<1>2. \A y \in {"SB1", "SB2", "NDB", "SCH_F", "BBK"}, k \in 0..2 : Call(y, k) \in CallType
  BY DEF CallType, Call, Blk
<1>3. CASE t = "SYNC" BY <1>2, <1>3 DEF Blocks
<1>4. CASE t = "NORM_1" BY <1>2, <1>4 DEF Blocks
<1>5. CASE t = "NORM_2" BY <1>2, <1>5 DEF Blocks
<1> QED BY <1>1, <1>3, <1>4, <1>5

(* A row of calls and what is behind the first.                            *)
LEMMA TailOfCalls ==
  ASSUME NEW S, NEW q \in Seq(S), q # <<>>
  PROVE  /\ Head(q) \in S /\ Tail(q) \in Seq(S) /\ Len(q) \in Nat
         /\ Len(q) > 1 => Tail(q) # <<>>
<1>1. Head(q) \in S /\ Tail(q) \in Seq(S) /\ Len(Tail(q)) = Len(q) - 1
  BY HeadTailProperties
<1>2. Len(q) \in Nat
  BY LenProperties
<1>3. Len(<<>>) = 0
  OBVIOUS
<1>4. Len(q) > 1 => Len(Tail(q)) # 0
  BY <1>1, <1>2
<1> QED BY <1>1, <1>2, <1>3, <1>4

(* The tests of the puncturers, and that none writes outside of its mother *)
(* code.                                                                   *)
LEMMA TestsAre ==
  /\ PunctTests \in Seq(Range(PunctTests)) /\ PunctTests # <<>>
  /\ Range(PunctTests) = {PunctTests[k] : k \in 1..9}
<1>1. DOMAIN PunctTests = 1..9 /\ PunctTests # <<>> /\ Len(PunctTests) = 9
  BY DEF PunctTests
<1>2. Range(PunctTests) = {PunctTests[k] : k \in 1..9}
  BY <1>1 DEF Range
<1>3. PunctTests \in Seq({PunctTests[k] : k \in 1..9})
  <2> DEFINE S == {PunctTests[k] : k \in 1..9}
  <2>1. /\ PunctTests[1] \in S /\ PunctTests[2] \in S /\ PunctTests[3] \in S
        /\ PunctTests[4] \in S /\ PunctTests[5] \in S /\ PunctTests[6] \in S
        /\ PunctTests[7] \in S /\ PunctTests[8] \in S /\ PunctTests[9] \in S
    OBVIOUS
  <2> HIDE DEF S
  <2>2. PunctTests \in [1..9 -> S]
    <3>1. \A k \in 1..9 : PunctTests[k] \in S
      BY <2>1
    <3>2. PunctTests = [k \in 1..9 |-> PunctTests[k]]
      BY DEF PunctTests
    <3> QED BY <3>1, <3>2
  <2>3. Seq(S) = UNION {[1..m -> S] : m \in Nat}
    BY SeqDef
  <2>4. PunctTests \in Seq(S)
    BY <2>2, <2>3
  <2> QED BY <2>4 DEF S
<1> QED BY <1>1, <1>2, <1>3

(* The period of the i-th symbol, and its place there.                     *)
LEMMA PeriodAndPlace ==
  ASSUME NEW t \in {3, 6, 9, 17}, NEW i \in Nat \ {0}
  PROVE  /\ (i - 1) \div t \in Nat /\ i - t * ((i - 1) \div t) \in 1..t
         /\ i = t * ((i - 1) \div t) + (i - t * ((i - 1) \div t))
<1>1. CASE t = 3 BY <1>1
<1>2. CASE t = 6 BY <1>2
<1>3. CASE t = 9 BY <1>3
<1>4. CASE t = 17 BY <1>4
<1> QED BY <1>1, <1>2, <1>3, <1>4

(* The j-th symbol that is sent lies in the period its group is of.        *)
LEMMA PunctureSplit ==
  ASSUME NEW pu, NEW j, NEW t \in {3, 6, 9, 17}, Len(pu.P) = t, IFunc(pu, j) \in Nat \ {0}
  PROVE  \E q \in Nat, r \in 1..t : /\ IFunc(pu, j) = t * q + r
                                    /\ PuncturedBy(pu, j) = pu.period * q + pu.P[r]
<1> DEFINE i == IFunc(pu, j)
           q == (i - 1) \div t
           r == i - t * q
<1>1. PuncturedBy(pu, j) = pu.period * q + pu.P[r]
  BY DEF PuncturedBy
<1>2. i \in Nat \ {0}
  OBVIOUS
<1> HIDE DEF i
<1>3. q \in Nat /\ r \in 1..t /\ i = t * q + r
  BY <1>2, PeriodAndPlace
<1> HIDE DEF q, r
<1> QED BY <1>1, <1>3 DEF i

(* What a test writes that puncturing by whole periods fills.              *)
LEMMA WholePeriods ==
  ASSUME NEW t, NEW len \in {3, 6, 9}, NEW per \in {6, 8, 12}, NEW m \in Nat, t.type3 \in Nat,
         Len(t.pu.P) = len, t.pu.period = per, \A c \in 1..len : t.pu.P[c] \in 1..per,
         \A j \in 1..t.type3 : IFunc(t.pu, j) \in Nat \ {0} /\ IFunc(t.pu, j) <= len * m
  PROVE  \A j \in 1..t.type3 : PuncturedBy(t.pu, j) \in 1..(per * m)
<1> SUFFICES ASSUME NEW j \in 1..t.type3
             PROVE  PuncturedBy(t.pu, j) \in 1..(per * m)
  OBVIOUS
<1> DEFINE i == IFunc(t.pu, j)
           q == (i - 1) \div len
           r == i - len * q
           v == t.pu.P[r]
           w == PuncturedBy(t.pu, j)
<1>1. i \in Nat \ {0} /\ i <= len * m /\ w = per * q + v
  BY DEF PuncturedBy
<1> HIDE DEF i, w
<1>2. q \in Nat /\ r \in 1..len /\ i = len * q + r
  BY <1>1, PeriodAndPlace
<1> HIDE DEF q, r
<1>3. v \in 1..per /\ w = per * q + v /\ len * q + r <= len * m
  BY <1>1, <1>2
<1> HIDE DEF v
<1>4. q < m
  <2>1. CASE len = 3 BY <1>2, <1>3, <2>1
  <2>2. CASE len = 6 BY <1>2, <1>3, <2>2
  <2>3. CASE len = 9 BY <1>2, <1>3, <2>3
  <2> QED BY <2>1, <2>2, <2>3
<1>5. w \in 1..(per * m)
  <2>1. CASE per = 6 BY <1>2, <1>3, <1>4, <2>1
  <2>2. CASE per = 8 BY <1>2, <1>3, <1>4, <2>2
  <2>3. CASE per = 12 BY <1>2, <1>3, <1>4, <2>3
  <2> QED BY <2>1, <2>2, <2>3
<1> QED BY <1>5 DEF w

(* What the tests of the puncturers write stays in their mother code; the  *)
(* last one does not fill its last period.                                 *)
LEMMA PuncturesInBounds ==
  ASSUME NEW t \in Range(PunctTests)
  PROVE  /\ t.type3 \in Nat /\ t.type3 <= 432 /\ t.mother \in Nat
         /\ \A j \in 1..t.type3 : PuncturedBy(t.pu, j) \in 1..t.mother
<1>1. PICK k \in 1..9 : t = PunctTests[k]
  BY TestsAre
<1>2. CASE k = 1
  <2>1. t.mother = 320 /\ t.type3 = 120 /\ t.pu.P = P_rate2_3 /\ t.pu.period = 8 /\ t.pu.group = 0
    BY <1>1, <1>2 DEF PunctTests, PunctTest, Puncturer, punct_2_3
  <2>2. t.type3 \in Nat /\ t.type3 <= 432 /\ t.mother \in Nat
    BY <2>1
  <2> DEFINE len == 3
             per == 8
             m == 40
  <2>3. len \in {3, 6, 9} /\ per \in {6, 8, 12} /\ m \in Nat
    OBVIOUS
  <2>4. Len(t.pu.P) = len /\ t.pu.period = per /\ \A c \in 1..len : t.pu.P[c] \in 1..per
    BY <2>1 DEF P_rate2_3
  <2>5. t.mother = per * m
    BY <2>1
  <2>6. \A j \in 1..t.type3 : IFunc(t.pu, j) \in Nat \ {0} /\ IFunc(t.pu, j) <= len * m
    BY <2>1 DEF IFunc
  <2> HIDE DEF len, per, m
  <2>7. \A j \in 1..t.type3 : PuncturedBy(t.pu, j) \in 1..(per * m)
    BY <2>2, <2>3, <2>4, <2>6, WholePeriods
  <2> QED BY <2>2, <2>5, <2>7
<1>3. CASE k = 2
  <2>1. t.mother = 1168 /\ t.type3 = 432 /\ t.pu.P = P_rate2_3 /\ t.pu.period = 8 /\ t.pu.group = 65
    BY <1>1, <1>3 DEF PunctTests, PunctTest, Puncturer
  <2>2. t.type3 \in Nat /\ t.type3 <= 432 /\ t.mother \in Nat
    BY <2>1
  <2> DEFINE len == 3
             per == 8
             m == 146
  <2>3. len \in {3, 6, 9} /\ per \in {6, 8, 12} /\ m \in Nat
    OBVIOUS
  <2>4. Len(t.pu.P) = len /\ t.pu.period = per /\ \A c \in 1..len : t.pu.P[c] \in 1..per
    BY <2>1 DEF P_rate2_3
  <2>5. t.mother = per * m
    BY <2>1
  <2>6. \A j \in 1..t.type3 : IFunc(t.pu, j) \in Nat \ {0} /\ IFunc(t.pu, j) <= len * m
    BY <2>1 DEF IFunc
  <2> HIDE DEF len, per, m
  <2>7. \A j \in 1..t.type3 : PuncturedBy(t.pu, j) \in 1..(per * m)
    BY <2>2, <2>3, <2>4, <2>6, WholePeriods
  <2> QED BY <2>2, <2>5, <2>7
<1>4. CASE k = 3
  <2>1. t.mother = 592 /\ t.type3 = 432 /\ t.pu.P = P_rate1_3 /\ t.pu.period = 8 /\ t.pu.group = 35
    BY <1>1, <1>4 DEF PunctTests, PunctTest, Puncturer
  <2>2. t.type3 \in Nat /\ t.type3 <= 432 /\ t.mother \in Nat
    BY <2>1
  <2> DEFINE len == 6
             per == 8
             m == 74
  <2>3. len \in {3, 6, 9} /\ per \in {6, 8, 12} /\ m \in Nat
    OBVIOUS
  <2>4. Len(t.pu.P) = len /\ t.pu.period = per /\ \A c \in 1..len : t.pu.P[c] \in 1..per
    BY <2>1 DEF P_rate1_3
  <2>5. t.mother = per * m
    BY <2>1
  <2>6. \A j \in 1..t.type3 : IFunc(t.pu, j) \in Nat \ {0} /\ IFunc(t.pu, j) <= len * m
    BY <2>1 DEF IFunc
  <2> HIDE DEF len, per, m
  <2>7. \A j \in 1..t.type3 : PuncturedBy(t.pu, j) \in 1..(per * m)
    BY <2>2, <2>3, <2>4, <2>6, WholePeriods
  <2> QED BY <2>2, <2>5, <2>7
<1>5. CASE k = 4
  <2>1. t.mother = 576 /\ t.type3 = 216 /\ t.pu.P = P_rate2_3 /\ t.pu.period = 8 /\ t.pu.group = 0
    BY <1>1, <1>5 DEF PunctTests, PunctTest, Puncturer, punct_2_3
  <2>2. t.type3 \in Nat /\ t.type3 <= 432 /\ t.mother \in Nat
    BY <2>1
  <2> DEFINE len == 3
             per == 8
             m == 72
  <2>3. len \in {3, 6, 9} /\ per \in {6, 8, 12} /\ m \in Nat
    OBVIOUS
  <2>4. Len(t.pu.P) = len /\ t.pu.period = per /\ \A c \in 1..len : t.pu.P[c] \in 1..per
    BY <2>1 DEF P_rate2_3
  <2>5. t.mother = per * m
    BY <2>1
  <2>6. \A j \in 1..t.type3 : IFunc(t.pu, j) \in Nat \ {0} /\ IFunc(t.pu, j) <= len * m
    BY <2>1 DEF IFunc
  <2> HIDE DEF len, per, m
  <2>7. \A j \in 1..t.type3 : PuncturedBy(t.pu, j) \in 1..(per * m)
    BY <2>2, <2>3, <2>4, <2>6, WholePeriods
  <2> QED BY <2>2, <2>5, <2>7
<1>6. CASE k = 5
  <2>1. t.mother = 448 /\ t.type3 = 168 /\ t.pu.P = P_rate2_3 /\ t.pu.period = 8 /\ t.pu.group = 0
    BY <1>1, <1>6 DEF PunctTests, PunctTest, Puncturer, punct_2_3
  <2>2. t.type3 \in Nat /\ t.type3 <= 432 /\ t.mother \in Nat
    BY <2>1
  <2> DEFINE len == 3
             per == 8
             m == 56
  <2>3. len \in {3, 6, 9} /\ per \in {6, 8, 12} /\ m \in Nat
    OBVIOUS
  <2>4. Len(t.pu.P) = len /\ t.pu.period = per /\ \A c \in 1..len : t.pu.P[c] \in 1..per
    BY <2>1 DEF P_rate2_3
  <2>5. t.mother = per * m
    BY <2>1
  <2>6. \A j \in 1..t.type3 : IFunc(t.pu, j) \in Nat \ {0} /\ IFunc(t.pu, j) <= len * m
    BY <2>1 DEF IFunc
  <2> HIDE DEF len, per, m
  <2>7. \A j \in 1..t.type3 : PuncturedBy(t.pu, j) \in 1..(per * m)
    BY <2>2, <2>3, <2>4, <2>6, WholePeriods
  <2> QED BY <2>2, <2>5, <2>7
<1>7. CASE k = 6
  <2>1. t.mother = 1152 /\ t.type3 = 432 /\ t.pu.P = P_rate2_3 /\ t.pu.period = 8 /\ t.pu.group = 0
    BY <1>1, <1>7 DEF PunctTests, PunctTest, Puncturer, punct_2_3
  <2>2. t.type3 \in Nat /\ t.type3 <= 432 /\ t.mother \in Nat
    BY <2>1
  <2> DEFINE len == 3
             per == 8
             m == 144
  <2>3. len \in {3, 6, 9} /\ per \in {6, 8, 12} /\ m \in Nat
    OBVIOUS
  <2>4. Len(t.pu.P) = len /\ t.pu.period = per /\ \A c \in 1..len : t.pu.P[c] \in 1..per
    BY <2>1 DEF P_rate2_3
  <2>5. t.mother = per * m
    BY <2>1
  <2>6. \A j \in 1..t.type3 : IFunc(t.pu, j) \in Nat \ {0} /\ IFunc(t.pu, j) <= len * m
    BY <2>1 DEF IFunc
  <2> HIDE DEF len, per, m
  <2>7. \A j \in 1..t.type3 : PuncturedBy(t.pu, j) \in 1..(per * m)
    BY <2>2, <2>3, <2>4, <2>6, WholePeriods
  <2> QED BY <2>2, <2>5, <2>7
<1>8. CASE k = 7
  <2>1. t.mother = 336 /\ t.type3 = 168 /\ t.pu.P = P_rate8_12 /\ t.pu.period = 6 /\ t.pu.group = 0
    BY <1>1, <1>8 DEF PunctTests, PunctTest, Puncturer
  <2>2. t.type3 \in Nat /\ t.type3 <= 432 /\ t.mother \in Nat
    BY <2>1
  <2> DEFINE len == 3
             per == 6
             m == 56
  <2>3. len \in {3, 6, 9} /\ per \in {6, 8, 12} /\ m \in Nat
    OBVIOUS
  <2>4. Len(t.pu.P) = len /\ t.pu.period = per /\ \A c \in 1..len : t.pu.P[c] \in 1..per
    BY <2>1 DEF P_rate8_12
  <2>5. t.mother = per * m
    BY <2>1
  <2>6. \A j \in 1..t.type3 : IFunc(t.pu, j) \in Nat \ {0} /\ IFunc(t.pu, j) <= len * m
    BY <2>1 DEF IFunc
  <2> HIDE DEF len, per, m
  <2>7. \A j \in 1..t.type3 : PuncturedBy(t.pu, j) \in 1..(per * m)
    BY <2>2, <2>3, <2>4, <2>6, WholePeriods
  <2> QED BY <2>2, <2>5, <2>7
<1>9. CASE k = 8
  <2>1. t.mother = 216 /\ t.type3 = 162 /\ t.pu.P = P_rate8_18 /\ t.pu.period = 12 /\ t.pu.group = 0
    BY <1>1, <1>9 DEF PunctTests, PunctTest, Puncturer
  <2>2. t.type3 \in Nat /\ t.type3 <= 432 /\ t.mother \in Nat
    BY <2>1
  <2> DEFINE len == 9
             per == 12
             m == 18
  <2>3. len \in {3, 6, 9} /\ per \in {6, 8, 12} /\ m \in Nat
    OBVIOUS
  <2>4. Len(t.pu.P) = len /\ t.pu.period = per /\ \A c \in 1..len : t.pu.P[c] \in 1..per
    BY <2>1 DEF P_rate8_18
  <2>5. t.mother = per * m
    BY <2>1
  <2>6. \A j \in 1..t.type3 : IFunc(t.pu, j) \in Nat \ {0} /\ IFunc(t.pu, j) <= len * m
    BY <2>1 DEF IFunc
  <2> HIDE DEF len, per, m
  <2>7. \A j \in 1..t.type3 : PuncturedBy(t.pu, j) \in 1..(per * m)
    BY <2>2, <2>3, <2>4, <2>6, WholePeriods
  <2> QED BY <2>2, <2>5, <2>7
<1>10. CASE k = 9
  <2>1. t.mother = 114 /\ t.type3 = 80 /\ t.pu.P = P_rate8_17 /\ t.pu.period = 24 /\ t.pu.group = 0
    BY <1>1, <1>10 DEF PunctTests, PunctTest, Puncturer
  <2>2. Len(t.pu.P) = 17 /\ \A c \in 1..17 : t.pu.P[c] \in 1..24 /\ (c <= 12 => t.pu.P[c] <= 16)
    <3>1. Len(t.pu.P) = 17
      BY <2>1 DEF P_rate8_17
    <3>2. /\ t.pu.P[1] = 1 /\ t.pu.P[2] = 2 /\ t.pu.P[3] = 3 /\ t.pu.P[4] = 4 /\ t.pu.P[5] = 5 /\ t.pu.P[6] = 7
          /\ t.pu.P[7] = 8 /\ t.pu.P[8] = 10 /\ t.pu.P[9] = 11 /\ t.pu.P[10] = 13 /\ t.pu.P[11] = 14 /\ t.pu.P[12] = 16
          /\ t.pu.P[13] = 17 /\ t.pu.P[14] = 19 /\ t.pu.P[15] = 20 /\ t.pu.P[16] = 22 /\ t.pu.P[17] = 23
      BY <2>1 DEF P_rate8_17
    <3>3. ASSUME NEW c \in 1..17
          PROVE  t.pu.P[c] \in 1..24 /\ (c <= 12 => t.pu.P[c] <= 16)
      <4>1. c \in 1..6 \/ c \in 7..12 \/ c \in 13..17
        OBVIOUS
      <4>2. CASE c \in 1..6
        BY <3>2, <4>2
      <4>3. CASE c \in 7..12
        BY <3>2, <4>3
      <4>4. CASE c \in 13..17
        BY <3>2, <4>4
      <4> QED BY <4>1, <4>2, <4>3, <4>4
    <3> QED BY <3>1, <3>3
  <2>3. ASSUME NEW j \in Nat, 1 <= j, j <= 80
        PROVE  PuncturedBy(t.pu, j) \in Nat /\ 1 <= PuncturedBy(t.pu, j) /\ PuncturedBy(t.pu, j) <= 114
    <3>1. IFunc(t.pu, j) \in Nat \ {0} /\ IFunc(t.pu, j) <= 80
      BY <2>1, <2>3 DEF IFunc
    <3>2. PICK q \in Nat, c \in 1..17 : /\ IFunc(t.pu, j) = 17 * q + c
                                     /\ PuncturedBy(t.pu, j) = 24 * q + t.pu.P[c]
      BY <2>1, <2>2, <3>1, PunctureSplit
    <3>3. t.pu.P[c] \in 1..24 /\ (c <= 12 => t.pu.P[c] <= 16)
      BY <2>2
    <3> DEFINE v == t.pu.P[c]
               w == PuncturedBy(t.pu, j)
               i == IFunc(t.pu, j)
    <3>4. v \in 1..24 /\ (c <= 12 => v <= 16) /\ w = 24 * q + v /\ i = 17 * q + c /\ i <= 80
      BY <3>1, <3>2, <3>3
    <3> HIDE DEF v, w, i
    <3>5. w \in Nat /\ 1 <= w /\ w <= 114
      BY <3>4
    <3> QED BY <3>5 DEF w
  <2>4. t.type3 \in Nat /\ t.type3 <= 432 /\ t.mother \in Nat
    BY <2>1
  <2>5. ASSUME NEW j \in 1..t.type3
        PROVE  PuncturedBy(t.pu, j) \in 1..t.mother
    <3>1. j \in Nat /\ 1 <= j /\ j <= 80
      BY <2>1
    <3>2. PuncturedBy(t.pu, j) \in Nat /\ 1 <= PuncturedBy(t.pu, j) /\ PuncturedBy(t.pu, j) <= 114
      BY <2>3, <3>1
    <3> DEFINE w == PuncturedBy(t.pu, j)
    <3> HIDE DEF w
    <3>3. w \in 1..t.mother
      BY <2>1, <3>2 DEF w
    <3> QED BY <3>3 DEF w
  <2> QED BY <2>4, <2>5
<1> QED BY <1>1, <1>2, <1>3, <1>4, <1>5, <1>6, <1>7, <1>8, <1>9, <1>10

(* Parities and bits are 0 or 1.                                           *)
LEMMA FiniteUpTo ==
  ASSUME NEW k \in Nat
  PROVE  IsFiniteSet(0..k)
BY FS_Interval

(* A parity is a bit.                                                      *)
LEMMA XorIsBit ==
  ASSUME NEW S, IsFiniteSet(S), NEW f
  PROVE  Xor(S, f) \in 0..1
<1>1. Cardinality({s \in S : f[s] = 1}) \in Nat
  BY FS_Subset, FS_CardinalityType
<1> QED BY <1>1 DEF Xor

LEMMA PowersOfTwo ==
  ASSUME NEW b \in 0..13
  PROVE  2 ^ b \in Nat \ {0}
<1>1. CASE b = 0 BY <1>1
<1>2. CASE b = 1 BY <1>2
<1>3. CASE b = 2 BY <1>3
<1>4. CASE b = 3 BY <1>4
<1>5. CASE b = 4 BY <1>5
<1>6. CASE b = 5 BY <1>6
<1>7. CASE b = 6 BY <1>7
<1>8. CASE b = 7 BY <1>8
<1>9. CASE b = 8 BY <1>9
<1>10. CASE b = 9 BY <1>10
<1>11. CASE b = 10 BY <1>11
<1>12. CASE b = 11 BY <1>12
<1>13. CASE b = 12 BY <1>13
<1>14. CASE b = 13 BY <1>14
<1> QED BY <1>1, <1>2, <1>3, <1>4, <1>5, <1>6, <1>7, <1>8, <1>9, <1>10, <1>11, <1>12, <1>13, <1>14

(* A digit of a number is a bit.                                           *)
LEMMA BitIsBit ==
  ASSUME NEW v \in Nat, NEW b \in 0..13
  PROVE  Bit(v, b) \in 0..1
<1> DEFINE w == 2 ^ b
<1>1. w \in Nat \ {0}
  BY PowersOfTwo
<1> HIDE DEF w
<1>2. v \div w \in Int
  BY <1>1
<1> DEFINE d == v \div w
<1> HIDE DEF d
<1>3. d % 2 \in 0..1
  BY <1>2 DEF d
<1> QED BY <1>3 DEF Bit, d, w

(* The scrambler's register keeps to bits.                                 *)
LEMMA LfsrBitIsBit ==
  ASSUME NEW r
  PROVE  LfsrBit(r) \in 0..1
<1>1. IsFiniteSet(0..31)
  BY FiniteUpTo
<1>2. Taps \subseteq 0..31
  BY DEF Taps
<1>3. IsFiniteSet(Taps)
  BY <1>1, <1>2, FS_Subset
<1> QED BY <1>3, XorIsBit DEF LfsrBit

(* The scrambling register keeps its width.                                *)
LEMMA LfsrStays ==
  ASSUME NEW r \in [0..31 -> 0..1]
  PROVE  LfsrNext(r) \in [0..31 -> 0..1]
BY LfsrBitIsBit DEF LfsrNext

(* Both codes that a block is scrambled with are words of the register.    *)
LEMMA ScrambTypes ==
  ASSUME NEW c \in Cells
  PROVE  ScrambInit \in [0..31 -> 0..1] /\ ScrambOf(c) \in [0..31 -> 0..1]
<1>1. ScrambInit \in [0..31 -> 0..1]
  BY DEF ScrambInit
<1>2. c.cc \in Nat /\ c.mnc \in Nat /\ c.mcc \in Nat
  BY CodingAssumption
<1>3. ASSUME NEW b \in 0..31
      PROVE  ScrambOf(c)[b] \in 0..1
  <2>1. CASE b < 2
    BY <2>1 DEF ScrambOf
  <2>2. CASE b >= 2 /\ b < 8
    <3>1. Bit(c.cc, b - 2) \in 0..1
      BY <1>2, <2>2, BitIsBit
    <3> QED BY <2>2, <3>1 DEF ScrambOf
  <2>3. CASE b >= 8 /\ b < 22
    <3>1. Bit(c.mnc, b - 8) \in 0..1
      BY <1>2, <2>3, BitIsBit
    <3> QED BY <2>3, <3>1 DEF ScrambOf
  <2>4. CASE b >= 22
    <3>1. Bit(c.mcc, b - 22) \in 0..1
      BY <1>2, <2>4, BitIsBit
    <3> QED BY <2>4, <3>1 DEF ScrambOf
  <2> QED BY <2>1, <2>2, <2>3, <2>4
<1> QED BY <1>1, <1>3 DEF ScrambOf

(* The Reed-Muller code.                                                   *)
LEMMA Rm3014IsBit ==
  ASSUME NEW bits \in [1..14 -> 0..1], NEW i \in 1..30
  PROVE  Rm3014(bits, i) \in 0..1
<1> DEFINE S == {r \in 1..14 : bits[r] = 1}
<1>1. IsFiniteSet(S)
  <2>1. IsFiniteSet(0..14)
    BY FiniteUpTo
  <2>2. S \subseteq 0..14
    OBVIOUS
  <2> HIDE DEF S
  <2> QED BY <2>1, <2>2, FS_Subset
<1>2. Xor({r \in 1..14 : bits[r] = 1}, [r \in 1..14 |-> Rm3014Gen[r][i - 14]]) \in 0..1
  BY <1>1, XorIsBit
<1> QED BY <1>2 DEF Rm3014

(* The numbers of the mother code that puncturing sends.                   *)
LEMMA PuncturedRange ==
  ASSUME NEW j \in Nat, 1 <= j, j <= 432
  PROVE  Punctured(j) \in 1..1152
<1>1. Len(punct_2_3.P) = 3 /\ punct_2_3.period = 8 /\ punct_2_3.group = 0
  BY DEF punct_2_3, Puncturer, P_rate2_3
<1>2. punct_2_3.P[1] = 1 /\ punct_2_3.P[2] = 2 /\ punct_2_3.P[3] = 5
  BY DEF punct_2_3, Puncturer, P_rate2_3
<1>3. IFunc(punct_2_3, j) = j
  BY <1>1 DEF IFunc
<1>4. PICK q \in Nat, c \in 1..3 : j = 3 * q + c /\ Punctured(j) = 8 * q + punct_2_3.P[c]
  BY <1>1, <1>3, PunctureSplit DEF Punctured
<1> DEFINE v == punct_2_3.P[c]
           w == Punctured(j)
<1>5. v \in 1..8 /\ w = 8 * q + v
  BY <1>2, <1>4
<1> HIDE DEF v, w
<1>6. w \in 1..1152
  BY <1>4, <1>5
<1> QED BY <1>6 DEF w

-----------------------------------------------------------------------------
(* The tables of the decoder.                                              *)
LEMMA TablesAreGenerators ==
  ASSUME NEW a \in 0..1, NEW b \in 0..1, NEW c \in 0..1, NEW d \in 0..1, NEW x \in 0..1
  PROVE  /\ NextOutput[a + 2 * b + 4 * c + 8 * d + 1][x + 1]
              = 8 * ((x + a + d) % 2) + 4 * ((x + b + c + d) % 2)
                  + 2 * ((x + a + b + d) % 2) + ((x + a + c + d) % 2)
         /\ NextOutputTch[a + 2 * b + 4 * c + 8 * d + 1][x + 1]
              = 4 * ((x + a + b + c + d) % 2) + 2 * ((x + a + c + d) % 2) + ((x + b + d) % 2)
<1>1. CASE c = 0 /\ d = 0
  <2>1. NextOutput[1] = <<0, 15>> /\ NextOutput[2] = <<11, 4>> /\ NextOutput[3] = <<6, 9>> /\ NextOutput[4] = <<13, 2>>
    BY DEF NextOutput
  <2>2. NextOutputTch[1] = <<0, 7>> /\ NextOutputTch[2] = <<6, 1>> /\ NextOutputTch[3] = <<5, 2>> /\ NextOutputTch[4] = <<3, 4>>
    BY DEF NextOutputTch
  <2>3. NextOutput[a + 2 * b + 4 * c + 8 * d + 1][x + 1]
          = 8 * ((x + a + d) % 2) + 4 * ((x + b + c + d) % 2)
              + 2 * ((x + a + b + d) % 2) + ((x + a + c + d) % 2)
    BY <1>1, <2>1
  <2>4. NextOutputTch[a + 2 * b + 4 * c + 8 * d + 1][x + 1]
          = 4 * ((x + a + b + c + d) % 2) + 2 * ((x + a + c + d) % 2) + ((x + b + d) % 2)
    BY <1>1, <2>2
  <2> QED BY <2>3, <2>4
<1>2. CASE c = 1 /\ d = 0
  <2>1. NextOutput[5] = <<5, 10>> /\ NextOutput[6] = <<14, 1>> /\ NextOutput[7] = <<3, 12>> /\ NextOutput[8] = <<8, 7>>
    BY DEF NextOutput
  <2>2. NextOutputTch[5] = <<6, 1>> /\ NextOutputTch[6] = <<0, 7>> /\ NextOutputTch[7] = <<3, 4>> /\ NextOutputTch[8] = <<5, 2>>
    BY DEF NextOutputTch
  <2>3. NextOutput[a + 2 * b + 4 * c + 8 * d + 1][x + 1]
          = 8 * ((x + a + d) % 2) + 4 * ((x + b + c + d) % 2)
              + 2 * ((x + a + b + d) % 2) + ((x + a + c + d) % 2)
    BY <1>2, <2>1
  <2>4. NextOutputTch[a + 2 * b + 4 * c + 8 * d + 1][x + 1]
          = 4 * ((x + a + b + c + d) % 2) + 2 * ((x + a + c + d) % 2) + ((x + b + d) % 2)
    BY <1>2, <2>2
  <2> QED BY <2>3, <2>4
<1>3. CASE c = 0 /\ d = 1
  <2>1. NextOutput[9] = <<15, 0>> /\ NextOutput[10] = <<4, 11>> /\ NextOutput[11] = <<9, 6>> /\ NextOutput[12] = <<2, 13>>
    BY DEF NextOutput
  <2>2. NextOutputTch[9] = <<7, 0>> /\ NextOutputTch[10] = <<1, 6>> /\ NextOutputTch[11] = <<2, 5>> /\ NextOutputTch[12] = <<4, 3>>
    BY DEF NextOutputTch
  <2>3. NextOutput[a + 2 * b + 4 * c + 8 * d + 1][x + 1]
          = 8 * ((x + a + d) % 2) + 4 * ((x + b + c + d) % 2)
              + 2 * ((x + a + b + d) % 2) + ((x + a + c + d) % 2)
    BY <1>3, <2>1
  <2>4. NextOutputTch[a + 2 * b + 4 * c + 8 * d + 1][x + 1]
          = 4 * ((x + a + b + c + d) % 2) + 2 * ((x + a + c + d) % 2) + ((x + b + d) % 2)
    BY <1>3, <2>2
  <2> QED BY <2>3, <2>4
<1>4. CASE c = 1 /\ d = 1
  <2>1. NextOutput[13] = <<10, 5>> /\ NextOutput[14] = <<1, 14>> /\ NextOutput[15] = <<12, 3>> /\ NextOutput[16] = <<7, 8>>
    BY DEF NextOutput
  <2>2. NextOutputTch[13] = <<1, 6>> /\ NextOutputTch[14] = <<7, 0>> /\ NextOutputTch[15] = <<4, 3>> /\ NextOutputTch[16] = <<2, 5>>
    BY DEF NextOutputTch
  <2>3. NextOutput[a + 2 * b + 4 * c + 8 * d + 1][x + 1]
          = 8 * ((x + a + d) % 2) + 4 * ((x + b + c + d) % 2)
              + 2 * ((x + a + b + d) % 2) + ((x + a + c + d) % 2)
    BY <1>4, <2>1
  <2>4. NextOutputTch[a + 2 * b + 4 * c + 8 * d + 1][x + 1]
          = 4 * ((x + a + b + c + d) % 2) + 2 * ((x + a + c + d) % 2) + ((x + b + d) % 2)
    BY <1>4, <2>2
  <2> QED BY <2>3, <2>4
<1> QED BY <1>1, <1>2, <1>3, <1>4

(* The digits of a number written with four bits.                          *)
LEMMA BitsOfNumber ==
  ASSUME NEW p \in 0..1, NEW q \in 0..1, NEW r \in 0..1, NEW s \in 0..1
  PROVE  /\ Bit(8 * p + 4 * q + 2 * r + s, 3) = p /\ Bit(8 * p + 4 * q + 2 * r + s, 2) = q
         /\ Bit(8 * p + 4 * q + 2 * r + s, 1) = r /\ Bit(8 * p + 4 * q + 2 * r + s, 0) = s
         /\ Bit(4 * q + 2 * r + s, 2) = q /\ Bit(4 * q + 2 * r + s, 1) = r /\ Bit(4 * q + 2 * r + s, 0) = s
BY DEF Bit

(* Whatever the encoder remembers, both trellis tables have its outputs.   *)
LEMMA TablesFollow ==
  ASSUME NEW d \in [1..4 -> 0..1], NEW x \in 0..1, NEW s,
         s = d[1] + 2 * d[2] + 4 * d[3] + 8 * d[4]
  PROVE  Output(s, x) = Generators(d, x) /\ OutputTch(s, x) = GeneratorsTch(d, x)
<1>1. PICK a \in 0..1, b \in 0..1, c \in 0..1, e \in 0..1 :
        d[1] = a /\ d[2] = b /\ d[3] = c /\ d[4] = e
  OBVIOUS
<1>2. Output(s, x) = Generators(d, x)
  <2> DEFINE p == (x + a + e) % 2
             q == (x + b + c + e) % 2
             r == (x + a + b + e) % 2
             t == (x + a + c + e) % 2
             v == NextOutput[s + 1][x + 1]
  <2>1. v = 8 * p + 4 * q + 2 * r + t
    BY <1>1, TablesAreGenerators
  <2>2. p \in 0..1 /\ q \in 0..1 /\ r \in 0..1 /\ t \in 0..1
    BY <1>1
  <2>3. Generators(d, x) = <<p, q, r, t>>
    BY <1>1 DEF Generators
  <2>4. Output(s, x) = [i \in 1..4 |-> Bit(v, 4 - i)]
    BY DEF Output
  <2> HIDE DEF p, q, r, t, v
  <2>5. Bit(v, 3) = p /\ Bit(v, 2) = q /\ Bit(v, 1) = r /\ Bit(v, 0) = t
    BY <2>1, <2>2, BitsOfNumber
  <2>6. \A i \in 1..4 : Bit(v, 4 - i) = <<p, q, r, t>>[i]
    BY <2>5
  <2> QED BY <2>3, <2>4, <2>6
<1>3. OutputTch(s, x) = GeneratorsTch(d, x)
  <2> DEFINE p == (x + a + b + c + e) % 2
             q == (x + a + c + e) % 2
             r == (x + b + e) % 2
             v == NextOutputTch[s + 1][x + 1]
  <2>1. v = 4 * p + 2 * q + r
    BY <1>1, TablesAreGenerators
  <2>2. p \in 0..1 /\ q \in 0..1 /\ r \in 0..1
    BY <1>1
  <2>3. GeneratorsTch(d, x) = <<p, q, r>>
    BY <1>1 DEF GeneratorsTch
  <2>4. OutputTch(s, x) = [i \in 1..3 |-> Bit(v, 3 - i)]
    BY DEF OutputTch
  <2> HIDE DEF p, q, r, v
  <2>5. Bit(v, 2) = p /\ Bit(v, 1) = q /\ Bit(v, 0) = r
    BY <2>1, <2>2, BitsOfNumber
  <2>6. \A i \in 1..3 : Bit(v, 3 - i) = <<p, q, r>>[i]
    BY <2>5
  <2> QED BY <2>3, <2>4, <2>6
<1> QED BY <1>2, <1>3

-----------------------------------------------------------------------------
(* What one more bit of ones makes of a residue.                           *)
LEMMA ResidueTable ==
  ASSUME NEW m \in 0..15, NEW b \in 0..15
  PROVE  b \in Residues[m + 2] <=>
           ((b > 0 /\ b - 1 \in Residues[m + 1]) # (b \in GenPoly /\ 15 \notin Residues[m + 1]))
<1>1. CASE m = 0 BY <1>1 DEF Residues, GenPoly
<1>2. CASE m = 1 BY <1>2 DEF Residues, GenPoly
<1>3. CASE m = 2 BY <1>3 DEF Residues, GenPoly
<1>4. CASE m = 3 BY <1>4 DEF Residues, GenPoly
<1>5. CASE m = 4 BY <1>5 DEF Residues, GenPoly
<1>6. CASE m = 5 BY <1>6 DEF Residues, GenPoly
<1>7. CASE m = 6 BY <1>7 DEF Residues, GenPoly
<1>8. CASE m = 7 BY <1>8 DEF Residues, GenPoly
<1>9. CASE m = 8 BY <1>9 DEF Residues, GenPoly
<1>10. CASE m = 9 BY <1>10 DEF Residues, GenPoly
<1>11. CASE m = 10 BY <1>11 DEF Residues, GenPoly
<1>12. CASE m = 11 BY <1>12 DEF Residues, GenPoly
<1>13. CASE m = 12 BY <1>13 DEF Residues, GenPoly
<1>14. CASE m = 13 BY <1>14 DEF Residues, GenPoly
<1>15. CASE m = 14 BY <1>15 DEF Residues, GenPoly
<1>16. CASE m = 15 BY <1>16 DEF Residues, GenPoly
<1> QED BY <1>1, <1>2, <1>3, <1>4, <1>5, <1>6, <1>7, <1>8, <1>9, <1>10, <1>11, <1>12, <1>13, <1>14, <1>15, <1>16

(* One bit through the CRC.                                                *)
LEMMA CrcInTypes ==
  ASSUME NEW r \in [0..15 -> 0..1], NEW bit \in 0..1
  PROVE  CrcIn(r, bit) \in [0..15 -> 0..1]
<1>1. ASSUME NEW b \in 0..15
      PROVE  CrcShift(r, b) \in 0..1
  BY DEF CrcShift
<1>2. r[15] \in 0..1
  OBVIOUS
<1> QED BY <1>1, <1>2 DEF CrcIn

(* One more bit of the CRC, as it was sent: the bit is the complement of   *)
(* the one that is shifted out, so what is fed back depends on the number  *)
(* of bits alone.                                                          *)
LEMMA CrcOneMore ==
  ASSUME NEW r \in [0..15 -> 0..1], NEW c \in [0..15 -> 0..1], NEW m \in 0..15, AfterCrc(r, c, m)
  PROVE  AfterCrc(CrcIn(r, c[15 - m]), c, m + 1)
<1> DEFINE top == IF 15 \in Residues[m + 1] THEN 1 ELSE 0
           feed == (r[15] + c[15 - m]) % 2
<1>1. feed = 1 - top /\ top \in 0..1
  <2>1. r[15] = ((1 - c[15 - m]) + top) % 2
    BY DEF AfterCrc
  <2>2. c[15 - m] \in 0..1 /\ top \in 0..1
    OBVIOUS
  <2> QED BY <2>1, <2>2
<1>2. top = 1 <=> 15 \in Residues[m + 1]
  OBVIOUS
<1> HIDE DEF top, feed
<1>3. ASSUME NEW b \in 0..15
      PROVE  CrcIn(r, c[15 - m])[b]
               = ((IF b >= m + 1 THEN 1 - c[b - (m + 1)] ELSE 0)
                   + (IF b \in Residues[m + 1 + 1] THEN 1 ELSE 0)) % 2
  <2> DEFINE old == IF b > 0 /\ b - 1 \in Residues[m + 1] THEN 1 ELSE 0
             new == IF b \in Residues[m + 2] THEN 1 ELSE 0
             gen == IF b \in GenPoly THEN 1 ELSE 0
             x == IF b >= m + 1 THEN 1 - c[b - (m + 1)] ELSE 0
             shift == CrcShift(r, b)
  <2>1. new = IF gen = 1 /\ top = 0 THEN 1 - old ELSE old
    BY <1>1, <1>2, ResidueTable
  <2>2. x \in 0..1
    <3>1. CASE b >= m + 1
      <4>1. b - (m + 1) \in 0..15
        BY <3>1
      <4>2. c[b - (m + 1)] \in 0..1
        BY <4>1
      <4> QED BY <3>1, <4>2
    <3>2. CASE ~(b >= m + 1)
      BY <3>2
    <3> QED BY <3>1, <3>2
  <2>3. shift = (x + old) % 2
    <3>1. CASE b = 0
      BY <3>1 DEF CrcShift
    <3>2. CASE b > 0
      <4>1. b - 1 \in 0..15 /\ (b - 1 >= m <=> b >= m + 1) /\ (b - 1) - m = b - (m + 1)
        BY <3>2
      <4>2. r[b - 1] = ((IF b - 1 >= m THEN 1 - c[(b - 1) - m] ELSE 0)
                         + (IF b - 1 \in Residues[m + 1] THEN 1 ELSE 0)) % 2
        BY <4>1 DEF AfterCrc
      <4>3. shift = r[b - 1] /\ old = IF b - 1 \in Residues[m + 1] THEN 1 ELSE 0
        BY <3>2 DEF CrcShift
      <4> QED BY <4>1, <4>2, <4>3
    <3> QED BY <3>1, <3>2
  <2>4. CrcIn(r, c[15 - m])[b] = IF gen = 1 THEN (shift + feed) % 2 ELSE shift
    BY DEF CrcIn, feed
  <2>5. old \in 0..1 /\ gen \in 0..1
    OBVIOUS
  <2> HIDE DEF old, new, gen, x, shift
  <2>6. CrcIn(r, c[15 - m])[b] = (x + new) % 2
    BY <1>1, <2>1, <2>2, <2>3, <2>4, <2>5
  <2>7. m + 1 + 1 = m + 2
    OBVIOUS
  <2> QED BY <2>6, <2>7 DEF x, new
<1> QED BY <1>3 DEF AfterCrc

(* A CRC that has not begun to go out, and one that is out.                *)
LEMMA CrcBegins ==
  ASSUME NEW r \in [0..15 -> 0..1]
  PROVE  AfterCrc(r, [b \in 0..15 |-> 1 - r[b]], 0)
<1>1. Residues[1] = {}
  BY DEF Residues
<1>2. ASSUME NEW b \in 0..15
      PROVE  r[b] = ((IF b >= 0 THEN 1 - [x \in 0..15 |-> 1 - r[x]][b - 0] ELSE 0)
                      + (IF b \in Residues[0 + 1] THEN 1 ELSE 0)) % 2
  <2>1. r[b] \in 0..1 /\ b >= 0 /\ b - 0 = b /\ 0 + 1 = 1
    OBVIOUS
  <2>2. [x \in 0..15 |-> 1 - r[x]][b] = 1 - r[b]
    OBVIOUS
  <2>3. r[b] = ((1 - (1 - r[b])) + 0) % 2
    BY <2>1
  <2> QED BY <1>1, <2>1, <2>2, <2>3
<1> QED BY <1>2 DEF AfterCrc

(* Behind all sixteen, the register holds the residue.                     *)
LEMMA CrcEnds ==
  ASSUME NEW r \in [0..15 -> 0..1], NEW c, AfterCrc(r, c, 16)
  PROVE  {b \in 0..15 : r[b] = 1} = CrcOk
<1>1. Residues[17] = CrcOk
  BY DEF Residues, CrcOk
<1>2. ASSUME NEW b \in 0..15
      PROVE  r[b] = IF b \in CrcOk THEN 1 ELSE 0
  <2>1. r[b] = ((IF b >= 16 THEN 1 - c[b - 16] ELSE 0) + (IF b \in Residues[16 + 1] THEN 1 ELSE 0)) % 2
    BY DEF AfterCrc
  <2>2. ~(b >= 16) /\ 16 + 1 = 17
    OBVIOUS
  <2> QED BY <1>1, <2>1, <2>2
<1>3. \A b \in 0..15 : r[b] = 1 <=> b \in CrcOk
  BY <1>2
<1>4. \A b \in CrcOk : b \in 0..15
  BY DEF CrcOk
<1> QED BY <1>3, <1>4

-----------------------------------------------------------------------------
(* The block that is being coded.                                          *)
LEMMA ParOfBurst ==
  ASSUME CallsOK, InBurst, calls # <<>>
  PROVE  /\ calls \in Seq(CallType) /\ Head(calls) \in CallType /\ Head(calls).type \in DOMAIN Blk
         /\ Tail(calls) \in Seq(CallType) /\ Len(calls) \in Nat
         /\ Len(calls) > 1 => Tail(calls) # <<>>
<1>1. calls \in Seq(CallType)
  BY DEF CallsOK
<1>2. /\ Head(calls) \in CallType /\ Tail(calls) \in Seq(CallType) /\ Len(calls) \in Nat
      /\ Len(calls) > 1 => Tail(calls) # <<>>
  BY <1>1, TailOfCalls
<1>3. Head(calls).type \in DOMAIN Blk
  BY <1>2 DEF CallType
<1> QED BY <1>1, <1>2, <1>3

(* A program that has just begun is in the first test, or orders speech.   *)
LEMMA CodingInit ==
  ASSUME Init
  PROVE  CodingInv
<1>1. cell \in Cells
  <2>1. cell = CHOOSE c \in Cells : TRUE
    BY Zenon DEF Init
  <2>2. Cells # {}
    BY CodingAssumption
  <2>3. (CHOOSE c \in Cells : TRUE) \in Cells
    BY <2>2
  <2> QED BY <2>1, <2>3
<1>2. train \in DOMAIN Blocks
  BY DEF Init, Blocks
<1>3. codec \in CodecBits
  <2> DEFINE k == 274
  <2>1. codec = [b \in 0..k |-> 0] /\ k \in Nat
    BY DEF Init
  <2> HIDE DEF k
  <2>2. codec \in [0..k -> 0..k]
    BY <2>1
  <2> QED BY <2>2, Zenon DEF k, CodecBits
<1>4. crc \in [0..15 -> 0..1] /\ fcs \in [0..15 -> 0..1] /\ lfsr \in [0..31 -> 0..1]
  BY <1>1, ScrambTypes DEF Init, CrcStart
<1>5. delayed \in [1..4 -> 0..1] /\ trellis \in 0..15 /\ SameState
  BY DEF Init, SameState
<1>6. Typed
  BY <1>1, <1>2, <1>3, <1>4, <1>5, CodingAssumption DEF Init, Typed
<1>7. CallsOK
  <2>1. CASE phase = "puncture" /\ calls = PunctTests
    <3>1. calls \in Seq(Range(PunctTests)) /\ calls # <<>>
      BY <2>1, TestsAre
    <3>2. Head(calls) \in Range(PunctTests)
      BY <3>1, TailOfCalls
    <3>3. Head(calls).type3 \in Nat
      BY <3>2, PuncturesInBounds
    <3>4. n = 0 /\ depunct = {}
      BY DEF Init
    <3> QED BY <2>1, <3>1, <3>3, <3>4 DEF CallsOK, InBurst
  <2>2. CASE phase = "speech" /\ calls = <<>>
    BY <2>2 DEF Init, CallsOK, InBurst
  <2> QED BY <2>1, <2>2 DEF Init
<1>8. CrcGoesOut
  BY DEF Init, CrcGoesOut
<1> QED BY <1>5, <1>6, <1>7, <1>8 DEF CodingInv

(* The tests of the puncturers.                                            *)
LEMMA PunctureStep ==
  ASSUME CodingInv, Puncture
  PROVE  CodingInv'
<1>1. /\ phase = "puncture" /\ phase' = phase /\ calls' = calls /\ n' = n + 1
      /\ calls \in Seq(Range(PunctTests)) /\ calls # <<>>
      /\ n \in 0..(Head(calls).type3) /\ n < Head(calls).type3
      /\ depunct \subseteq 1..(Head(calls).mother)
      /\ depunct' = depunct \cup {PuncturedBy(Head(calls).pu, n')}
  BY DEF CodingInv, CallsOK, Puncture, InPhase
<1>2. Head(calls) \in Range(PunctTests)
  BY <1>1, TailOfCalls
<1>3. Head(calls).type3 \in Nat
  BY <1>2, PuncturesInBounds
<1>4. n' \in 1..(Head(calls).type3)
  BY <1>1, <1>3
<1>5. PuncturedBy(Head(calls).pu, n') \in 1..(Head(calls).mother)
  BY <1>2, <1>4, PuncturesInBounds
<1>6. CallsOK'
  <2>1. n' \in 0..(Head(calls').type3)
    BY <1>1, <1>3, <1>4
  <2>2. depunct' \subseteq 1..(Head(calls').mother)
    <3>1. depunct' \subseteq 1..(Head(calls).mother)
      BY <1>1, <1>5, Zenon
    <3> QED BY <1>1, <3>1
  <2> QED BY <1>1, <2>1, <2>2 DEF CallsOK, InBurst
<1>7. Typed' /\ SameState' /\ CrcGoesOut'
  BY <1>1, Zenon DEF CodingInv, Puncture, coding, Typed, SameState, CrcGoesOut
<1> QED BY <1>6, <1>7 DEF CodingInv

(* The next puncturer is tested.                                           *)
LEMMA NextTestStep ==
  ASSUME CodingInv, NextTest
  PROVE  CodingInv'
<1>1. /\ phase = "puncture" /\ phase' = phase /\ calls' = Tail(calls) /\ n' = 0 /\ depunct' = {}
      /\ calls \in Seq(Range(PunctTests)) /\ calls # <<>> /\ Len(calls) > 1
  BY DEF CodingInv, CallsOK, NextTest, TestSucceeds, InPhase
<1>2. calls' \in Seq(Range(PunctTests)) /\ calls' # <<>>
  BY <1>1, TailOfCalls
<1>3. Head(calls') \in Range(PunctTests)
  BY <1>2, TailOfCalls
<1>4. Head(calls').type3 \in Nat
  BY <1>3, PuncturesInBounds
<1>5. CallsOK'
  BY <1>1, <1>2, <1>4 DEF CallsOK, InBurst
<1>6. Typed' /\ SameState' /\ CrcGoesOut'
  BY <1>1, Zenon DEF CodingInv, NextTest, coding, Typed, SameState, CrcGoesOut
<1> QED BY <1>5, <1>6 DEF CodingInv

(* A burst begins with its first block.                                    *)
LEMMA StartBurstStep ==
  ASSUME CodingInv, StartBurst
  PROVE  CodingInv'
<1>1. /\ train' \in DOMAIN Blocks /\ phase' = "encode" /\ calls' = Blocks[train'] /\ n' = 0
  BY DEF StartBurst
<1>2. calls' \in Seq(CallType) /\ calls' # <<>>
  BY <1>1, BlocksAreCalls
<1>3. Head(calls').type \in DOMAIN Blk
  <2>1. Head(calls') \in CallType
    BY <1>2, TailOfCalls
  <2> QED BY <2>1 DEF CallType
<1>4. Par'.type2 \in Nat /\ Par'.type1 \in Nat /\ Par'.type1 > 0
  BY <1>3, BlkParams DEF Par
<1>5. CallsOK'
  BY <1>1, <1>2, <1>4 DEF CallsOK, InBurst
<1>6. CrcGoesOut'
  BY <1>1, <1>4 DEF CrcGoesOut
<1>7. Typed' /\ SameState'
  BY <1>1, Zenon DEF CodingInv, StartBurst, coding, Typed, SameState
<1> QED BY <1>5, <1>6, <1>7 DEF CodingInv

(* The speech frames.                                                      *)
LEMMA ReorderStep ==
  ASSUME CodingInv, Reorder
  PROVE  CodingInv'
<1>1. /\ phase = "speech" /\ phase' = phase /\ calls = <<>> /\ calls' = calls
      /\ n \in 0..274 /\ n < 274 /\ n' = n + 1
  BY DEF CodingInv, CallsOK, Reorder
<1>2. n' \in 0..274
  BY <1>1
<1>3. codec' \in CodecBits
  <2> DEFINE k == 274
             x == CodecPlace(n')
  <2>1. codec \in [0..k -> 0..k] /\ codec' = [codec EXCEPT ![x] = n'] /\ n' \in 0..k
    BY <1>2, Zenon DEF CodingInv, Typed, CodecBits, Reorder
  <2> HIDE DEF k, x
  <2>2. codec' \in [0..k -> 0..k]
    BY <2>1
  <2> QED BY <2>2, Zenon DEF k, CodecBits
<1>4. CallsOK'
  BY <1>1, <1>2 DEF CallsOK, InBurst
<1>5. Typed' /\ SameState' /\ CrcGoesOut'
  BY <1>1, <1>3, Zenon DEF CodingInv, Reorder, coding, Typed, SameState, CrcGoesOut
<1> QED BY <1>4, <1>5 DEF CodingInv

(* The sender's blocks.                                                    *)
LEMMA CodeBits ==
  ASSUME Typed, NEW p \in Nat, NEW e \in Nat, Par.type1 = e
  PROVE  /\ Type2Bit(p) \in 0..1 /\ DataBit(p) \in 0..1
         /\ p > e /\ p <= e + 16 => Type2Bit(p) = fcs[e + 16 - p]
<1>1. DataBit(p) \in 0..1
  BY DEF DataBit
<1>2. CASE p <= e
  BY <1>1, <1>2 DEF Type2Bit
<1>3. CASE p > e /\ p <= e + 16
  <2>1. e + 16 - p \in 0..15
    BY <1>3
  <2>2. fcs[e + 16 - p] \in 0..1
    <3>1. fcs \in [0..15 -> 0..1]
      BY Zenon DEF Typed
    <3> QED BY <2>1, <3>1
  <2>3. Type2Bit(p) = fcs[e + 16 - p]
    BY <1>3 DEF Type2Bit
  <2> QED BY <1>1, <2>2, <2>3
<1>4. CASE p > e + 16
  BY <1>1, <1>4 DEF Type2Bit
<1> QED BY <1>2, <1>3, <1>4

(* The interleaver stays within the block.                                 *)
LEMMA InterleavedRange ==
  ASSUME NEW K \in Nat, K > 0, K <= 432, NEW a \in Nat, NEW j \in Nat
  PROVE  BlockInterl(K, a, j) \in Places
<1> DEFINE x == a * j
<1>1. x \in Nat
  OBVIOUS
<1> HIDE DEF x
<1>2. 1 + (x % K) \in 1..432
  BY <1>1
<1> QED BY <1>2 DEF BlockInterl, Places, x

(* A bit with its origin is a symbol.                                      *)
LEMMA SymbolIs ==
  ASSUME NEW u \in Places, NEW v \in Numbers, NEW w \in 0..1
  PROVE  [i |-> u, k |-> v, bit |-> w] \in Symbol
BY Zenon DEF Symbol

(* A bit through CRC, encoder, puncturer and interleaver.                  *)
LEMMA EncodeStep ==
  ASSUME CodingInv, Encode
  PROVE  CodingInv'
<1> DEFINE p == n + 1
           bit == Type2Bit(p)
           g == Generators(delayed, bit)
           e == Par.type1
           K == Par.type345
           a == Par.a
           new == {[i |-> BlockInterl(K, a, j), k |-> Punctured(j), bit |-> g[Punctured(j) - 4 * n]] :
                     j \in {x \in 1..K : (Punctured(x) - 1) \div 4 = n}}
<1>1. /\ phase = "encode" /\ calls # <<>> /\ n < Par.type2 /\ n' = p /\ phase' = phase /\ calls' = calls
      /\ Head(calls).type # "BBK"
      /\ crc' = IF p <= e + 16 THEN CrcIn(crc, bit) ELSE crc
      /\ fcs' = IF p = e THEN [b \in 0..15 |-> 1 - crc'[b]] ELSE fcs
      /\ delayed' = Delay(delayed, bit) /\ trellis' = NextState(trellis, bit)
      /\ type4' = type4 \cup new
      /\ UNCHANGED <<train, cell, one, lfsr, codec>>
  BY Zenon DEF Encode, InPhase, NotTests
<1>2. InBurst /\ InBurst' /\ CallsOK /\ Typed /\ SameState /\ CrcGoesOut
  BY <1>1 DEF InBurst, CodingInv
<1>3. /\ Head(calls).type \in DOMAIN Blk /\ calls \in Seq(CallType)
  BY <1>1, <1>2, ParOfBurst
<1>4. /\ K \in Nat /\ K > 0 /\ K <= 432 /\ e \in Nat /\ a \in Nat /\ Par.type2 = e + 20 /\ Par.type2 <= 288
  <2>1. Par = Blk[Head(calls).type]
    BY DEF Par
  <2>2. /\ Par.type345 \in Nat /\ Par.type345 > 0 /\ Par.type345 <= 432 /\ Par.type1 \in Nat /\ Par.a \in Nat
        /\ Par.type2 = Par.type1 + 20 /\ Par.type2 <= 288
    <3> DEFINE t == Head(calls).type
    <3>1. t \in DOMAIN Blk /\ t # "BBK" /\ Par = Blk[t]
      BY <1>1, <1>3, <2>1
    <3> HIDE DEF t
    <3> QED BY <3>1, BlkParams
  <2> QED BY <2>2
<1>5. n \in 0..Par.type2 /\ n \in Nat
  BY <1>1, <1>2, <1>4 DEF CallsOK
<1>6. bit \in 0..1 /\ (p > e /\ p <= e + 16 => bit = fcs[e + 16 - p])
  BY <1>2, <1>4, <1>5, CodeBits
<1>7. Par' = Par
  BY <1>1 DEF Par
<1>8. new \subseteq Symbol
  <2>1. g \in [1..4 -> 0..1]
    <3>1. delayed[1] \in 0..1 /\ delayed[2] \in 0..1 /\ delayed[3] \in 0..1 /\ delayed[4] \in 0..1
      <4>1. delayed \in [1..4 -> 0..1]
        BY <1>2, Zenon DEF Typed
      <4> QED BY <4>1
    <3> HIDE DEF bit
    <3>2. \A x \in 1..4 : Generators(delayed, bit)[x] \in 0..1
      BY <1>6, <3>1 DEF Generators
    <3>3. Generators(delayed, bit) = [x \in 1..4 |-> Generators(delayed, bit)[x]]
      BY DEF Generators
    <3> QED BY <3>2, <3>3
  <2>2. ASSUME NEW j \in 1..K, (Punctured(j) - 1) \div 4 = n
        PROVE  [i |-> BlockInterl(K, a, j), k |-> Punctured(j), bit |-> g[Punctured(j) - 4 * n]]
                  \in Symbol
    <3> HIDE DEF g, K, a
    <3>1. j \in Nat /\ 1 <= j /\ j <= 432
      BY <1>4
    <3>2. BlockInterl(K, a, j) \in Places
      BY <1>4, <3>1, InterleavedRange
    <3>3. Punctured(j) \in 1..1152
      BY <3>1, PuncturedRange
    <3>4. Punctured(j) - 4 * n \in 1..4
      <4> DEFINE w == Punctured(j)
      <4>1. w \in Int /\ (w - 1) \div 4 = n
        BY <2>2, <3>3
      <4> HIDE DEF w
      <4>2. w - 4 * n \in 1..4
        BY <1>5, <4>1
      <4> QED BY <4>2 DEF w
    <3>5. Punctured(j) \in Numbers
      BY <3>3 DEF Numbers
    <3>6. g[Punctured(j) - 4 * n] \in 0..1
      BY <2>1, <3>4, Zenon
    <3> QED BY <3>2, <3>5, <3>6, SymbolIs
  <2> QED BY <2>2
<1>9. crc' \in [0..15 -> 0..1] /\ fcs' \in [0..15 -> 0..1]
  <2>0. crc \in [0..15 -> 0..1] /\ fcs \in [0..15 -> 0..1]
    BY <1>2, Zenon DEF Typed
  <2> HIDE DEF bit
  <2>1. CrcIn(crc, bit) \in [0..15 -> 0..1]
    BY <1>6, <2>0, CrcInTypes
  <2>2. crc' \in [0..15 -> 0..1]
    BY <1>1, <2>0, <2>1
  <2>3. [b \in 0..15 |-> 1 - crc'[b]] \in [0..15 -> 0..1]
    BY <2>2
  <2>4. fcs' \in [0..15 -> 0..1]
    BY <1>1, <2>0, <2>3, Zenon
  <2> QED BY <2>2, <2>4
<1>10. delayed' \in [1..4 -> 0..1] /\ trellis' \in 0..15 /\ SameState'
  <2>1. PICK x1 \in 0..1, x2 \in 0..1, x3 \in 0..1, x4 \in 0..1 :
          delayed[1] = x1 /\ delayed[2] = x2 /\ delayed[3] = x3 /\ delayed[4] = x4
    <3>1. delayed \in [1..4 -> 0..1]
      BY <1>2, Zenon DEF Typed
    <3> QED BY <3>1
  <2> HIDE DEF bit
  <2>2. delayed' = <<bit, x1, x2, x3>>
    BY <1>1, <2>1 DEF Delay
  <2>3. trellis = x1 + 2 * x2 + 4 * x3 + 8 * x4
    BY <1>2, <2>1 DEF SameState
  <2>4. trellis' = bit + 2 * x1 + 4 * x2 + 8 * x3
    <3> DEFINE h == bit + 2 * x1 + 4 * x2 + 8 * x3
    <3>1. 2 * trellis + bit = h + 16 * x4 /\ h \in 0..15
      BY <1>6, <2>3
    <3>2. trellis' = (2 * trellis + bit) % 16
      BY <1>1 DEF NextState
    <3> HIDE DEF h
    <3>3. (h + 16 * x4) % 16 = h
      BY <3>1
    <3> QED BY <3>1, <3>2, <3>3 DEF h
  <2> QED BY <1>6, <2>2, <2>4 DEF SameState
<1>11. Typed'
  <2> HIDE DEF new, p, bit
  <2>1. type4' \subseteq Symbol
    BY <1>1, <1>2, <1>8, Zenon DEF Typed
  <2> QED BY <1>1, <1>2, <1>9, <1>10, <2>1, Zenon DEF Typed
<1>12. CallsOK'
  <2>1. n' \in 0..Par'.type2
    BY <1>1, <1>4, <1>5, <1>7
  <2> QED BY <1>1, <1>3, <2>1 DEF CallsOK, InBurst
<1>13. CrcGoesOut'
  <2> SUFFICES ASSUME n' \in e..(e + 16)
               PROVE  AfterCrc(crc', fcs', n' - e)
    BY <1>7 DEF CrcGoesOut
  <2>1. CASE p = e
    <3>1. fcs' = [b \in 0..15 |-> 1 - crc'[b]] /\ n' - e = 0
      BY <1>1, <1>4, <2>1
    <3> QED BY <1>9, <3>1, CrcBegins
  <2>2. CASE p > e
    <3> DEFINE m == n - e
    <3>1. n \in e..(e + 16) /\ m \in 0..15 /\ n' - e = m + 1 /\ p <= e + 16 /\ p # e /\ e + 16 - p = 15 - m
      <4> HIDE DEF e
      <4>1. e \in Nat /\ n \in Nat /\ n' = n + 1 /\ n + 1 > e /\ n' \in e..(e + 16)
        BY <1>1, <1>4, <1>5, <2>2 DEF e
      <4> QED BY <4>1
    <3>2. Par.a # 0
      BY <1>1, <1>3, BlkParams DEF Par
    <3>3. AfterCrc(crc, fcs, m)
      BY <1>1, <1>2, <3>1, <3>2 DEF CrcGoesOut
    <3>4. crc' = CrcIn(crc, fcs[15 - m]) /\ fcs' = fcs
      BY <1>1, <1>6, <2>2, <3>1
    <3>5. crc \in [0..15 -> 0..1] /\ fcs \in [0..15 -> 0..1]
      BY <1>2, Zenon DEF Typed
    <3> HIDE DEF m
    <3>6. AfterCrc(CrcIn(crc, fcs[15 - m]), fcs, m + 1)
      BY <3>1, <3>3, <3>5, CrcOneMore
    <3> QED BY <3>1, <3>4, <3>6
  <2>3. p \in Int /\ p >= e
    BY <1>1, <1>4, <1>5
  <2> QED BY <1>4, <2>1, <2>2, <2>3
<1> QED BY <1>10, <1>11, <1>12, <1>13 DEF CodingInv

(* The access assignment, all bits at once.                                *)
LEMMA EncodeAachStep ==
  ASSUME CodingInv, EncodeAach
  PROVE  CodingInv'
<1> DEFINE bits == [p \in 1..14 |-> DataBit(p)]
<1>1. /\ phase = "encode" /\ calls # <<>> /\ n' = Par.type2 /\ phase' = phase /\ calls' = calls
      /\ Head(calls).type = "BBK"
      /\ type4' = {[i |-> i, k |-> i, bit |-> Rm3014(bits, i)] : i \in 1..30}
      /\ UNCHANGED <<train, cell, one, crc, fcs, delayed, trellis, lfsr, codec>>
  BY Zenon DEF EncodeAach, InPhase, NotTests
<1>2. InBurst /\ InBurst' /\ CallsOK /\ Typed /\ SameState
  BY <1>1 DEF InBurst, CodingInv
<1>3. Head(calls).type \in DOMAIN Blk /\ calls \in Seq(CallType)
  BY <1>1, <1>2, ParOfBurst
<1>4. Par.type2 \in Nat /\ Par.a = 0 /\ Par' = Par
  BY <1>1, <1>3, BlkParams DEF Par
<1>5. type4' \subseteq Symbol
  <2>1. bits \in [1..14 -> 0..1]
    BY DEF DataBit
  <2>2. ASSUME NEW i \in 1..30
        PROVE  [i |-> i, k |-> i, bit |-> Rm3014(bits, i)] \in Symbol
    <3> HIDE DEF bits
    <3>1. i \in Places /\ i \in Numbers
      BY DEF Places, Numbers
    <3>2. Rm3014(bits, i) \in 0..1
      BY <2>1, Rm3014IsBit
    <3> QED BY <3>1, <3>2, SymbolIs
  <2> QED BY <1>1, <2>2
<1>6. Typed'
  <2> HIDE DEF bits
  <2> QED BY <1>1, <1>2, <1>5, Zenon DEF Typed
<1>7. CallsOK'
  BY <1>1, <1>3, <1>4 DEF CallsOK, InBurst
<1>8. SameState' /\ CrcGoesOut'
  BY <1>1, <1>2, <1>4 DEF SameState, CrcGoesOut
<1> QED BY <1>6, <1>7, <1>8 DEF CodingInv

(* The scrambling code is that of the cell, or that of SB1.                *)
LEMMA StartScrambleStep ==
  ASSUME CodingInv, StartScramble
  PROVE  CodingInv'
<1>1. /\ phase = "encode" /\ calls # <<>> /\ n' = 0 /\ phase' = "scramble" /\ calls' = calls
      /\ lfsr' = IF Head(calls).type = "SB1" THEN ScrambInit ELSE ScrambOf(cell)
      /\ UNCHANGED <<train, cell, one, crc, fcs, delayed, trellis, type4, codec>>
  BY Zenon DEF StartScramble, InPhase, NotTests
<1>2. InBurst /\ InBurst' /\ CallsOK /\ Typed /\ SameState /\ cell \in Cells
  BY <1>1, Zenon DEF InBurst, CodingInv, Typed
<1>3. Head(calls).type \in DOMAIN Blk /\ calls \in Seq(CallType)
  BY <1>1, <1>2, ParOfBurst
<1>4. Par'.type345 \in Nat
  BY <1>1, <1>3, BlkParams DEF Par
<1>5. lfsr' \in [0..31 -> 0..1]
  BY <1>1, <1>2, ScrambTypes
<1>6. Typed'
  BY <1>1, <1>2, <1>5, Zenon DEF Typed
<1>7. CallsOK'
  BY <1>1, <1>3, <1>4 DEF CallsOK, InBurst
<1>8. SameState' /\ CrcGoesOut'
  BY <1>1, <1>2 DEF SameState, CrcGoesOut
<1> QED BY <1>6, <1>7, <1>8 DEF CodingInv

(* A bit is scrambled and put on the air.                                  *)
LEMMA ScrambleStep ==
  ASSUME CodingInv, Scramble
  PROVE  CodingInv'
<1>1. /\ phase = "scramble" /\ calls # <<>> /\ n < Par.type345 /\ n' = n + 1 /\ phase' = phase /\ calls' = calls
      /\ lfsr' = LfsrNext(lfsr)
      /\ UNCHANGED <<train, cell, one, crc, fcs, delayed, trellis, type4, codec>>
  BY Zenon DEF Scramble, InPhase, NotTests
<1>2. InBurst /\ InBurst' /\ CallsOK /\ Typed /\ SameState /\ lfsr \in [0..31 -> 0..1]
  BY <1>1, Zenon DEF InBurst, CodingInv, Typed
<1>3. Head(calls).type \in DOMAIN Blk /\ calls \in Seq(CallType)
  BY <1>1, <1>2, ParOfBurst
<1>4. Par.type345 \in Nat /\ Par' = Par
  BY <1>1, <1>3, BlkParams DEF Par
<1>5. lfsr' \in [0..31 -> 0..1]
  BY <1>1, <1>2, LfsrStays
<1>6. Typed'
  BY <1>1, <1>2, <1>5, Zenon DEF Typed
<1>7. CallsOK'
  <2>1. n \in 0..Par.type345
    BY <1>1, <1>2 DEF CallsOK
  <2>2. n' \in 0..Par'.type345
    BY <1>1, <1>4, <2>1
  <2> QED BY <1>1, <1>3, <2>2 DEF CallsOK, InBurst
<1>8. SameState' /\ CrcGoesOut'
  BY <1>1, <1>2 DEF SameState, CrcGoesOut
<1> QED BY <1>6, <1>7, <1>8 DEF CodingInv

(* A block is out; the next one follows, or the burst is received.         *)
LEMMA EndBlockStep ==
  ASSUME CodingInv, EndBlock
  PROVE  CodingInv'
<1>1. /\ phase = "scramble" /\ calls # <<>> /\ n' = 0
      /\ crc' = CrcStart /\ delayed' = <<0, 0, 0, 0>> /\ trellis' = 0 /\ type4' = {}
      /\ UNCHANGED <<train, cell, one, fcs, codec>>
      /\ IF Len(calls) > 1
           THEN phase' = "encode" /\ calls' = Tail(calls) /\ UNCHANGED lfsr
           ELSE phase' = "receive" /\ calls' = Blocks[train] /\ lfsr' = ScrambStart(Head(Blocks[train]))
  BY Zenon DEF EndBlock, InPhase, NotTests
<1>2. InBurst /\ CallsOK /\ Typed /\ cell \in Cells /\ train \in DOMAIN Blocks /\ lfsr \in [0..31 -> 0..1]
  BY <1>1, Zenon DEF InBurst, CodingInv, Typed
<1>3. /\ phase' \in {"encode", "receive"} /\ calls' \in Seq(CallType) /\ calls' # <<>>
      /\ lfsr' \in [0..31 -> 0..1]
  <2>1. CASE Len(calls) > 1
    BY <1>1, <1>2, <2>1, ParOfBurst
  <2>2. CASE ~(Len(calls) > 1)
    <3>1. phase' = "receive" /\ calls' = Blocks[train] /\ lfsr' = ScrambStart(Head(Blocks[train]))
      BY <1>1, <2>2
    <3>2. lfsr' \in [0..31 -> 0..1]
      BY <1>2, <3>1, ScrambTypes DEF ScrambStart
    <3> QED BY <1>2, <3>1, <3>2, BlocksAreCalls
  <2> QED BY <2>1, <2>2
<1>4. Head(calls').type \in DOMAIN Blk
  <2>1. Head(calls') \in CallType
    BY <1>3, TailOfCalls
  <2> QED BY <2>1 DEF CallType
<1>5. Par'.type2 \in Nat /\ Par'.type345 \in Nat /\ Par'.type1 \in Nat /\ Par'.type1 > 0
  BY <1>4, BlkParams DEF Par
<1>6. crc' \in [0..15 -> 0..1] /\ delayed' \in [1..4 -> 0..1] /\ trellis' \in 0..15 /\ SameState'
  BY <1>1 DEF CrcStart, SameState
<1>7. phase' \in {"puncture", "speech", "encode", "scramble", "receive"} /\ type4' \subseteq Symbol
  BY <1>1, <1>3
<1>8. Typed'
  BY <1>1, <1>2, <1>3, <1>6, <1>7, Zenon DEF Typed
<1>9. CallsOK'
  <2>1. n' \in 0..(IF phase' = "encode" THEN Par'.type2 ELSE Par'.type345)
    BY <1>1, <1>5
  <2>2. phase' # "puncture" /\ phase' # "speech"
    BY <1>3
  <2> QED BY <1>3, <2>1, <2>2, Zenon DEF CallsOK
<1>10. CrcGoesOut'
  BY <1>1, <1>5 DEF CrcGoesOut
<1> QED BY <1>6, <1>8, <1>9, <1>10 DEF CodingInv

(* The receiver.                                                           *)
LEMMA ReceiveStep ==
  ASSUME CodingInv, Receive
  PROVE  CodingInv'
<1>1. /\ phase = "receive" /\ calls # <<>> /\ n < Par.type345 /\ n' = n + 1 /\ phase' = phase /\ calls' = calls
      /\ lfsr' = LfsrNext(lfsr)
      /\ UNCHANGED <<train, cell, one, crc, fcs, delayed, trellis, type4, codec>>
  BY Zenon DEF Receive, InPhase, NotTests
<1>2. InBurst /\ InBurst' /\ CallsOK /\ Typed /\ SameState /\ lfsr \in [0..31 -> 0..1]
  BY <1>1, Zenon DEF InBurst, CodingInv, Typed
<1>3. Head(calls).type \in DOMAIN Blk /\ calls \in Seq(CallType)
  BY <1>1, <1>2, ParOfBurst
<1>4. Par.type345 \in Nat /\ Par' = Par
  BY <1>1, <1>3, BlkParams DEF Par
<1>5. lfsr' \in [0..31 -> 0..1]
  BY <1>1, <1>2, LfsrStays
<1>6. Typed'
  BY <1>1, <1>2, <1>5, Zenon DEF Typed
<1>7. CallsOK'
  <2>1. n \in 0..Par.type345
    BY <1>1, <1>2 DEF CallsOK
  <2>2. n' \in 0..Par'.type345
    BY <1>1, <1>4, <2>1
  <2> QED BY <1>1, <1>3, <2>2 DEF CallsOK, InBurst
<1>8. SameState' /\ CrcGoesOut'
  BY <1>1, <1>2 DEF SameState, CrcGoesOut
<1> QED BY <1>6, <1>7, <1>8 DEF CodingInv

(* A block is in, and the next one follows.                                *)
LEMMA NextCallStep ==
  ASSUME CodingInv, NextCall
  PROVE  CodingInv'
<1>1. /\ phase = "receive" /\ calls # <<>> /\ n' = 0 /\ phase' = phase /\ calls' = Tail(calls)
      /\ lfsr' = IF Len(calls) > 1 THEN ScrambStart(calls[2]) ELSE ScrambInit
      /\ UNCHANGED <<train, cell, one, crc, fcs, delayed, trellis, type4, codec>>
  BY Zenon DEF NextCall, InPhase, NotTests
<1>2. InBurst /\ CallsOK /\ Typed /\ SameState /\ cell \in Cells
  BY <1>1, Zenon DEF InBurst, CodingInv, Typed
<1>3. calls' \in Seq(CallType)
  BY <1>1, <1>2, ParOfBurst
<1>4. lfsr' \in [0..31 -> 0..1]
  BY <1>1, <1>2, ScrambTypes DEF ScrambStart
<1>5. Typed'
  BY <1>1, <1>2, <1>4, Zenon DEF Typed
<1>6. CallsOK'
  <2>1. CASE calls' = <<>>
    BY <1>1, <1>3, <2>1 DEF CallsOK, InBurst
  <2>2. CASE calls' # <<>>
    <3>1. Head(calls').type \in DOMAIN Blk
      <4>1. Head(calls') \in CallType
        BY <1>3, <2>2, TailOfCalls
      <4> QED BY <4>1 DEF CallType
    <3>2. Par'.type345 \in Nat
      BY <3>1, BlkParams DEF Par
    <3> QED BY <1>1, <1>3, <2>2, <3>2 DEF CallsOK, InBurst
  <2> QED BY <2>1, <2>2
<1>7. SameState' /\ CrcGoesOut'
  BY <1>1, <1>2 DEF SameState, CrcGoesOut
<1> QED BY <1>5, <1>6, <1>7 DEF CodingInv

(* CodingInv is an invariant.                                              *)
LEMMA CodingStep ==
  ASSUME CodingInv, [Next]_vars
  PROVE  CodingInv'
<1>1. CASE UNCHANGED vars
  <2>1. UNCHANGED <<train, cell, one, phase, calls, n, crc, fcs, delayed, trellis, type4, lfsr, depunct, codec>>
    BY <1>1, Zenon DEF vars, coding
  <2>2. Typed'
    BY <2>1, Zenon DEF CodingInv, Typed
  <2>3. CallsOK'
    BY <2>1, Zenon DEF CodingInv, CallsOK, InBurst, Par
  <2>4. SameState' /\ CrcGoesOut'
    BY <2>1, Zenon DEF CodingInv, SameState, CrcGoesOut, AfterCrc, Par
  <2> QED BY <2>2, <2>3, <2>4 DEF CodingInv
<1>2. CASE Next
  BY <1>2, PunctureStep, NextTestStep, StartBurstStep, ReorderStep, EncodeStep, EncodeAachStep,
     StartScrambleStep, ScrambleStep, EndBlockStep, ReceiveStep, NextCallStep DEF Next
<1> QED BY <1>1, <1>2

LEMMA CodingInvariant == Spec => []CodingInv
BY CodingInit, CodingStep, PTL DEF Spec

-----------------------------------------------------------------------------
(* The registers keep to their widths, no block has more bits than its     *)
(* buffer, and the tests of the puncturers stay within the mother code     *)
(* that they allocate, whatever cells send and whatever they send.         *)
THEOREM CodingTypes == Spec => []TypeOK
<1>1. ASSUME CodingInv
      PROVE  TypeOK
  <2>1. n \in 0..432
    <3>1. CASE phase = "puncture"
      <4>1. Head(calls) \in Range(PunctTests) /\ n \in 0..(Head(calls).type3)
        BY <1>1, <3>1, TailOfCalls DEF CodingInv, CallsOK
      <4>2. Head(calls).type3 \in Nat /\ Head(calls).type3 <= 432
        BY <4>1, PuncturesInBounds
      <4> QED BY <4>1, <4>2
    <3>2. CASE phase = "speech"
      BY <1>1, <3>2 DEF CodingInv, CallsOK
    <3>3. CASE InBurst
      <4>1. CASE calls = <<>>
        BY <1>1, <3>3, <4>1 DEF CodingInv, CallsOK
      <4>2. CASE calls # <<>>
        <5>1. Head(calls).type \in DOMAIN Blk
          BY <1>1, <3>3, <4>2, ParOfBurst DEF CodingInv
        <5>2. /\ Par.type345 \in Nat /\ Par.type345 <= 432
              /\ Par.type2 \in Nat /\ Par.type2 <= 288
          BY <5>1, BlkParams DEF Par
        <5>3. n \in 0..Par.type2 \/ n \in 0..Par.type345
          BY <1>1, <3>3, <4>2 DEF CodingInv, CallsOK
        <5> QED BY <5>2, <5>3
      <4> QED BY <4>1, <4>2
    <3> QED BY <1>1, <3>1, <3>2, <3>3, Zenon DEF CodingInv, Typed, InBurst
  <2>2. calls \in Seq([type : DOMAIN Blk, blk : 0..2]) \cup Seq(Range(PunctTests))
    <3>1. phase \in {"puncture", "speech"} \/ InBurst
      BY <1>1, Zenon DEF CodingInv, Typed, InBurst
    <3>2. <<>> \in Seq(CallType)
      OBVIOUS
    <3>3. calls \in Seq(CallType) \/ calls \in Seq(Range(PunctTests))
      BY <1>1, <3>1, <3>2 DEF CodingInv, CallsOK
    <3> QED BY <3>3, Zenon DEF CallType
  <2>3. phase = "puncture" => depunct \subseteq 1..(Head(calls).mother)
    BY <1>1, Zenon DEF CodingInv, CallsOK
  <2> QED BY <1>1, <2>1, <2>2, <2>3, Zenon DEF CodingInv, Typed, Symbol, Places, Numbers, CodecBits, TypeOK
<1> QED BY <1>1, CodingInvariant, PTL

(* The numbers in the decoder's tables are what the encoder does, in every *)
(* state that coding any block reaches.                                    *)
THEOREM TrellisFollows == Spec => []TrellisFollowsEncoder
<1>1. ASSUME CodingInv
      PROVE  TrellisFollowsEncoder
  <2>1. delayed \in [1..4 -> 0..1] /\ trellis = delayed[1] + 2 * delayed[2] + 4 * delayed[3] + 8 * delayed[4]
    BY <1>1, Zenon DEF CodingInv, Typed, SameState
  <2>2. \A bit \in 0..1 : Output(trellis, bit) = Generators(delayed, bit)
                            /\ OutputTch(trellis, bit) = GeneratorsTch(delayed, bit)
    BY <2>1, TablesFollow
  <2> QED BY <2>1, <2>2 DEF TrellisFollowsEncoder
<1> QED BY <1>1, CodingInvariant, PTL

(* The constant that the receiver compares with is what any block leaves   *)
(* behind, whatever its bits and however many there are.                   *)
THEOREM CrcLeavesConstant == Spec => []CrcResidue
<1>1. ASSUME CodingInv
      PROVE  CrcResidue
  <2> SUFFICES ASSUME phase = "encode", calls # <<>>, Par.a # 0, n = Par.type1 + 16
               PROVE  {b \in 0..15 : crc[b] = 1} = CrcOk
    BY DEF CrcResidue
  <2>1. InBurst /\ CallsOK /\ CrcGoesOut /\ crc \in [0..15 -> 0..1]
    BY <1>1, Zenon DEF CodingInv, Typed, InBurst
  <2>2. Head(calls).type \in DOMAIN Blk
    BY <2>1, ParOfBurst
  <2>3. Par.type1 \in Nat
    BY <2>2, BlkParams DEF Par
  <2>4. n \in Par.type1..(Par.type1 + 16) /\ n - Par.type1 = 16
    BY <2>3
  <2>5. AfterCrc(crc, fcs, 16)
    BY <2>1, <2>4 DEF CrcGoesOut
  <2> QED BY <2>1, <2>5, CrcEnds
<1> QED BY <1>1, CodingInvariant, PTL

-----------------------------------------------------------------------------
(* What the receiver undoes.                                               *)

(* Where each block of a burst is put, and is taken from.                  *)
LEMMA Layouts ==
  ASSUME NEW i \in Nat \ {0}, NEW t \in DOMAIN Blocks, NEW c \in CallType
  PROVE  /\ c.type = "SB1" => SentAt(t, c, i) = 93 + i
         /\ c.type = "SB2" => SentAt(t, c, i) = 281 + i
         /\ c.type = "BBK" /\ t = "SYNC" => SentAt(t, c, i) = 251 + i
         /\ c.type = "BBK" /\ t # "SYNC" =>
              SentAt(t, c, i) = IF i <= 14 THEN 229 + i ELSE 251 + i
         /\ c.type = "NDB" /\ c.blk = 1 => SentAt(t, c, i) = 13 + i
         /\ c.type = "NDB" /\ c.blk = 2 => SentAt(t, c, i) = 281 + i
         /\ c.type = "SCH_F" => SentAt(t, c, i) = IF i <= 216 THEN 13 + i ELSE 65 + i
<1>1. /\ SyncStart.sb = 94 /\ SyncStart.bb = 252 /\ SyncStart.bkn = 282
      /\ NormStart.bkn1 = 14 /\ NormStart.bb1 = 230 /\ NormStart.bb2 = 266 /\ NormStart.bkn2 = 282
  BY DEF SyncStart, NormStart
<1>2. c.type = "SB1" => SentAt(t, c, i) = 93 + i
  BY <1>1 DEF SentAt, InSync, InNorm
<1>3. c.type = "SB2" => SentAt(t, c, i) = 281 + i
  BY <1>1 DEF SentAt, InSync, InNorm
<1>4. c.type = "BBK" /\ t = "SYNC" => SentAt(t, c, i) = 251 + i
  BY <1>1 DEF SentAt, InSync, InNorm
<1>5. c.type = "BBK" /\ t # "SYNC" => SentAt(t, c, i) = IF i <= 14 THEN 229 + i ELSE 251 + i
  BY <1>1 DEF SentAt, InSync, InNorm
<1>6. c.type = "NDB" /\ c.blk = 1 => SentAt(t, c, i) = 13 + i
  BY <1>1 DEF SentAt, InSync, InNorm
<1>7. c.type = "NDB" /\ c.blk = 2 => SentAt(t, c, i) = 281 + i
  BY <1>1 DEF SentAt, InSync, InNorm
<1>8. c.type = "SCH_F" => SentAt(t, c, i) = IF i <= 216 THEN 13 + i ELSE 65 + i
  BY <1>1 DEF SentAt, InSync, InNorm
<1> QED BY <1>2, <1>3, <1>4, <1>5, <1>6, <1>7, <1>8

(* The receiver's offsets, which count symbols, are those of the sender's  *)
(* fields.                                                                 *)
LEMMA TakenWhereSent ==
  ASSUME NEW i \in Nat \ {0}, NEW t \in DOMAIN Blocks, NEW c \in CallType,
         c.type = "NDB" => c.blk \in 1..2
  PROVE  TakenFrom(t, c, i) = SentAt(t, c, i)
<1>1. c.type \in {"SB1", "SB2", "NDB", "SCH_F", "BBK"}
  BY DEF CallType, Blk
<1>2. CASE c.type = "SB1" BY <1>2, Layouts DEF TakenFrom
<1>3. CASE c.type = "SB2" BY <1>3, Layouts DEF TakenFrom
<1>4. CASE c.type = "NDB" BY <1>4, Layouts DEF TakenFrom
<1>5. CASE c.type = "SCH_F" BY <1>5, Layouts DEF TakenFrom
<1>6. CASE c.type = "BBK" BY <1>6, Layouts DEF TakenFrom
<1> QED BY <1>1, <1>2, <1>3, <1>4, <1>5, <1>6

(* The bits of a block of type y, on the air.                              *)
Len345(y) == Blk[y].type345

(* The blocks of each burst, and how long they are.                        *)
LEMMA BlocksAre ==
  ASSUME NEW t \in DOMAIN Blocks
  PROVE  /\ Len(Blocks[t]) \in 1..3 /\ Blocks[t] \in Seq(CallType)
         /\ \A m \in 1..Len(Blocks[t]) : Blocks[t][m] \in CallType
         /\ t = "SYNC" => Blocks[t] = <<Call("SB1", 1), Call("BBK", 0), Call("SB2", 2)>>
         /\ t = "NORM_2" => Blocks[t] = <<Call("BBK", 0), Call("NDB", 1), Call("NDB", 2)>>
         /\ t = "NORM_1" => Blocks[t] = <<Call("BBK", 0), Call("SCH_F", 0)>>
         /\ t \in {"SYNC", "NORM_2", "NORM_1"}
<1>1. t \in {"SYNC", "NORM_2", "NORM_1"}
  BY DEF Blocks
<1>2. /\ t = "SYNC" => Blocks[t] = <<Call("SB1", 1), Call("BBK", 0), Call("SB2", 2)>>
      /\ t = "NORM_2" => Blocks[t] = <<Call("BBK", 0), Call("NDB", 1), Call("NDB", 2)>>
      /\ t = "NORM_1" => Blocks[t] = <<Call("BBK", 0), Call("SCH_F", 0)>>
  BY DEF Blocks
<1>3. Blocks[t] \in Seq(CallType)
  BY BlocksAreCalls
<1>4. Len(Blocks[t]) \in 1..3
  BY <1>1, <1>2
<1>5. \A m \in 1..Len(Blocks[t]) : Blocks[t][m] \in CallType
  BY <1>3, ElementOfSeq
<1> QED BY <1>1, <1>2, <1>3, <1>4, <1>5

LEMMA Lengths ==
  /\ Len345("SB1") = 120 /\ Len345("SB2") = 216 /\ Len345("NDB") = 216
  /\ Len345("SCH_F") = 432 /\ Len345("BBK") = 30
BY DEF Len345, Blk

(* No two bits of a burst are put at the same place.                       *)
LEMMA PlacesDiffer ==
  ASSUME NEW t \in DOMAIN Blocks,
         NEW m \in 1..Len(Blocks[t]), NEW i \in 1..Len345(Blocks[t][m].type),
         NEW k \in 1..Len(Blocks[t]), NEW j \in 1..Len345(Blocks[t][k].type),
         SentAt(t, Blocks[t][m], i) = SentAt(t, Blocks[t][k], j)
  PROVE  m = k /\ i = j
<1> DEFINE c == Blocks[t][m]
           d == Blocks[t][k]
           x == SentAt(t, c, i)
           y == SentAt(t, d, j)
<1>1. c \in CallType /\ d \in CallType /\ x = y
  BY BlocksAre
<1>2. Len345(c.type) \in Nat /\ Len345(d.type) \in Nat
  BY <1>1, BlkParams DEF CallType, Len345
<1>3. i \in Nat \ {0} /\ j \in Nat \ {0} /\ i <= Len345(c.type) /\ j <= Len345(d.type)
  BY <1>2
<1>4. CASE t = "SYNC"
  <2>1. /\ Blocks[t] = <<Call("SB1", 1), Call("BBK", 0), Call("SB2", 2)>>
        /\ m \in 1..3 /\ k \in 1..3
    BY <1>4, BlocksAre
  <2>2. \/ m = 1 /\ c.type = "SB1" /\ x = 93 + i /\ i <= 120
        \/ m = 2 /\ c.type = "BBK" /\ x = 251 + i /\ i <= 30
        \/ m = 3 /\ c.type = "SB2" /\ x = 281 + i /\ i <= 216
    BY <1>1, <1>3, <1>4, <2>1, Layouts, Lengths DEF Call
  <2>3. \/ k = 1 /\ d.type = "SB1" /\ y = 93 + j /\ j <= 120
        \/ k = 2 /\ d.type = "BBK" /\ y = 251 + j /\ j <= 30
        \/ k = 3 /\ d.type = "SB2" /\ y = 281 + j /\ j <= 216
    BY <1>1, <1>3, <1>4, <2>1, Layouts, Lengths DEF Call
  <2> HIDE DEF x, y, c, d
  <2> QED BY <1>1, <1>3, <2>2, <2>3, SMTT(30)
<1>5. CASE t = "NORM_2"
  <2>1. /\ Blocks[t] = <<Call("BBK", 0), Call("NDB", 1), Call("NDB", 2)>>
        /\ m \in 1..3 /\ k \in 1..3
    BY <1>5, BlocksAre
  <2>2. \/ m = 1 /\ c.type = "BBK" /\ x = (IF i <= 14 THEN 229 + i ELSE 251 + i) /\ i <= 30
        \/ m = 2 /\ c.type = "NDB" /\ x = 13 + i /\ i <= 216
        \/ m = 3 /\ c.type = "NDB" /\ x = 281 + i /\ i <= 216
    BY <1>1, <1>3, <1>5, <2>1, Layouts, Lengths DEF Call
  <2>3. \/ k = 1 /\ d.type = "BBK" /\ y = (IF j <= 14 THEN 229 + j ELSE 251 + j) /\ j <= 30
        \/ k = 2 /\ d.type = "NDB" /\ y = 13 + j /\ j <= 216
        \/ k = 3 /\ d.type = "NDB" /\ y = 281 + j /\ j <= 216
    BY <1>1, <1>3, <1>5, <2>1, Layouts, Lengths DEF Call
  <2> HIDE DEF x, y, c, d
  <2> QED BY <1>1, <1>3, <2>2, <2>3, SMTT(30)
<1>6. CASE t = "NORM_1"
  <2>1. /\ Blocks[t] = <<Call("BBK", 0), Call("SCH_F", 0)>>
        /\ m \in 1..2 /\ k \in 1..2
    BY <1>6, BlocksAre
  <2>2. \/ m = 1 /\ c.type = "BBK" /\ x = (IF i <= 14 THEN 229 + i ELSE 251 + i) /\ i <= 30
        \/ m = 2 /\ c.type = "SCH_F" /\ x = (IF i <= 216 THEN 13 + i ELSE 65 + i) /\ i <= 432
    BY <1>1, <1>3, <1>6, <2>1, Layouts, Lengths DEF Call
  <2>3. \/ k = 1 /\ d.type = "BBK" /\ y = (IF j <= 14 THEN 229 + j ELSE 251 + j) /\ j <= 30
        \/ k = 2 /\ d.type = "SCH_F" /\ y = (IF j <= 216 THEN 13 + j ELSE 65 + j) /\ j <= 432
    BY <1>1, <1>3, <1>6, <2>1, Layouts, Lengths DEF Call
  <2> HIDE DEF x, y, c, d
  <2> QED BY <1>1, <1>3, <2>2, <2>3, SMTT(30)
<1> QED BY <1>4, <1>5, <1>6, BlocksAre

(* The interleaver has an inverse: another multiplier.                     *)
Multipliers(K, a, b) == \/ K = 120 /\ a = 11 /\ b = 11
                        \/ K = 216 /\ a = 101 /\ b = 77
                        \/ K = 432 /\ a = 103 /\ b = 151

LEMMA MultiplierInverts ==
  ASSUME NEW K, NEW a, NEW b, Multipliers(K, a, b), NEW x \in 0..(K - 1), NEW y \in Int
  PROVE  (a * y) % K = x <=> \E z \in Int : y = b * x + K * z
<1>1. CASE K = 120 /\ a = 11 /\ b = 11
  <2>1. ASSUME (a * y) % K = x
        PROVE  \E z \in Int : y = b * x + K * z
    <3>1. PICK q \in Int : 11 * y = 120 * q + x
      BY <1>1, <2>1
    <3> DEFINE w == 11 * q - y
    <3>2. y = 11 * x + 120 * w /\ w \in Int
      BY <1>1, <3>1
    <3> HIDE DEF w
    <3> QED BY <1>1, <3>2
  <2>2. ASSUME NEW z \in Int, y = b * x + K * z
        PROVE  (a * y) % K = x
    <3>1. 11 * y = 120 * (x + 11 * z) + x
      BY <1>1, <2>2
    <3> DEFINE w == x + 11 * z
    <3>2. w \in Int
      BY <1>1
    <3> HIDE DEF w
    <3>3. (120 * w + x) % 120 = x
      BY <1>1, <3>2
    <3> QED BY <1>1, <3>1, <3>3 DEF w
  <2> QED BY <2>1, <2>2
<1>2. CASE K = 216 /\ a = 101 /\ b = 77
  <2>1. ASSUME (a * y) % K = x
        PROVE  \E z \in Int : y = b * x + K * z
    <3>1. PICK q \in Int : 101 * y = 216 * q + x
      BY <1>2, <2>1
    <3> DEFINE w == 77 * q - 36 * y
    <3>2. y = 77 * x + 216 * w /\ w \in Int
      BY <1>2, <3>1
    <3> HIDE DEF w
    <3> QED BY <1>2, <3>2
  <2>2. ASSUME NEW z \in Int, y = b * x + K * z
        PROVE  (a * y) % K = x
    <3>1. 101 * y = 216 * (36 * x + 101 * z) + x
      BY <1>2, <2>2
    <3> DEFINE w == 36 * x + 101 * z
    <3>2. w \in Int
      BY <1>2
    <3> HIDE DEF w
    <3>3. (216 * w + x) % 216 = x
      BY <1>2, <3>2
    <3> QED BY <1>2, <3>1, <3>3 DEF w
  <2> QED BY <2>1, <2>2
<1>3. CASE K = 432 /\ a = 103 /\ b = 151
  <2>1. ASSUME (a * y) % K = x
        PROVE  \E z \in Int : y = b * x + K * z
    <3>1. PICK q \in Int : 103 * y = 432 * q + x
      BY <1>3, <2>1
    <3> DEFINE w == 151 * q - 36 * y
    <3>2. y = 151 * x + 432 * w /\ w \in Int
      BY <1>3, <3>1
    <3> HIDE DEF w
    <3> QED BY <1>3, <3>2
  <2>2. ASSUME NEW z \in Int, y = b * x + K * z
        PROVE  (a * y) % K = x
    <3>1. 103 * y = 432 * (36 * x + 103 * z) + x
      BY <1>3, <2>2
    <3> DEFINE w == 36 * x + 103 * z
    <3>2. w \in Int
      BY <1>3
    <3> HIDE DEF w
    <3>3. (432 * w + x) % 432 = x
      BY <1>3, <3>2
    <3> QED BY <1>3, <3>1, <3>3 DEF w
  <2> QED BY <2>1, <2>2
<1> QED BY <1>1, <1>2, <1>3 DEF Multipliers

(* Every type-4 bit is one type-3 bit.                                     *)
LEMMA InterleaverInverts ==
  ASSUME NEW y \in DOMAIN Blk, y # "BBK", NEW i \in 1..Len345(y)
  PROVE  \E j \in 1..Len345(y) :
           /\ BlockInterl(Len345(y), Blk[y].a, j) = i
           /\ \A k \in 1..Len345(y) : BlockInterl(Len345(y), Blk[y].a, k) = i => k = j
<1> DEFINE K == Len345(y)
           a == Blk[y].a
<1>1. PICK b \in Nat : Multipliers(K, a, b)
  <2>1. \/ K = 120 /\ a = 11
        \/ K = 216 /\ a = 101
        \/ K = 432 /\ a = 103
    BY DEF Blk, Len345
  <2> QED BY <2>1 DEF Multipliers
<1>2. i \in 1..K
  OBVIOUS
<1> HIDE DEF K, a
<1> DEFINE x == i - 1
           u == (b * x) % K
           j == IF u = 0 THEN K ELSE u
<1>3. x \in 0..(K - 1) /\ K \in {120, 216, 432}
  BY <1>1, <1>2 DEF Multipliers
<1>4. \A k \in Int : BlockInterl(K, a, k) = i <=> \E z \in Int : k = b * x + K * z
  <2>1. \A k \in Int : (a * k) % K = x <=> \E z \in Int : k = b * x + K * z
    <3>1. x \in 0..(K - 1)
      BY <1>3
    <3> HIDE DEF x
    <3> QED BY <1>1, <3>1, MultiplierInverts
  <2>2. ASSUME NEW k \in Int
        PROVE  BlockInterl(K, a, k) = i <=> (a * k) % K = x
    <3> DEFINE v == (a * k) % K
    <3>1. v \in Int /\ BlockInterl(K, a, k) = 1 + v
      BY <1>1 DEF BlockInterl, Multipliers
    <3> HIDE DEF v
    <3>2. BlockInterl(K, a, k) = i <=> v = x
      BY <1>2, <1>3, <3>1
    <3> QED BY <3>2 DEF v
  <2> QED BY <2>1, <2>2
<1>5. j \in 1..K /\ \E z \in Int : j = b * x + K * z
  <2> DEFINE v == b * x
  <2>1. v \in Int
    BY <1>3
  <2> HIDE DEF v
  <2>2. PICK q \in Int : v = K * q + (v % K) /\ v % K \in 0..(K - 1)
    <3>1. CASE K = 120 BY <2>1, <3>1
    <3>2. CASE K = 216 BY <2>1, <3>2
    <3>3. CASE K = 432 BY <2>1, <3>3
    <3> QED BY <1>3, <3>1, <3>2, <3>3
  <2>3. j \in 1..K /\ (j = v + K * (0 - q) \/ j = v + K * (1 - q))
    <3>1. CASE K = 120 BY <2>1, <2>2, <3>1 DEF v
    <3>2. CASE K = 216 BY <2>1, <2>2, <3>2 DEF v
    <3>3. CASE K = 432 BY <2>1, <2>2, <3>3 DEF v
    <3> QED BY <1>3, <3>1, <3>2, <3>3
  <2> QED BY <2>3 DEF v
<1>6. ASSUME NEW k \in 1..K, BlockInterl(K, a, k) = i
      PROVE  k = j
  <2> DEFINE v == b * x
  <2>1. v \in Int /\ j \in 1..K /\ k \in Int /\ j \in Int
    BY <1>3, <1>5
  <2>2. PICK z \in Int : k = v + K * z
    BY <1>4, <1>6, <2>1
  <2>3. PICK w \in Int : j = v + K * w
    BY <1>5
  <2> HIDE DEF v, j
  <2>4. CASE K = 120 BY <2>1, <2>2, <2>3, <2>4
  <2>5. CASE K = 216 BY <2>1, <2>2, <2>3, <2>5
  <2>6. CASE K = 432 BY <2>1, <2>2, <2>3, <2>6
  <2> QED BY <1>3, <2>4, <2>5, <2>6
<1>7. BlockInterl(K, a, j) = i
  <2> HIDE DEF j
  <2> QED BY <1>4, <1>5
<1> QED BY <1>5, <1>6, <1>7 DEF K, a

LEMMA BlockInterlRange ==
  ASSUME NEW K \in Nat, K > 0, NEW a \in Nat, NEW j \in Nat
  PROVE  BlockInterl(K, a, j) \in 1..K
<1> DEFINE x == a * j
<1>1. x \in Nat
  OBVIOUS
<1> HIDE DEF x
<1>2. x % K \in 0..(K - 1)
  BY <1>1
<1> QED BY <1>2 DEF BlockInterl, x

(* Each symbol that is sent was made of a type-2 bit of its block.         *)
LEMMA SymbolIsOfBit ==
  ASSUME NEW y \in DOMAIN Blk, y # "BBK", NEW j \in 1..Len345(y)
  PROVE  (Punctured(j) - 1) \div 4 \in 0..(Blk[y].type2 - 1)
<1>1. \/ Len345(y) = 120 /\ Blk[y].type2 = 80
      \/ Len345(y) = 216 /\ Blk[y].type2 = 144
      \/ Len345(y) = 432 /\ Blk[y].type2 = 288
  BY DEF Blk, Len345
<1>2. j \in Nat /\ 1 <= j /\ j <= 432
  BY <1>1
<1>3. Punctured(j) \in 1..1152 /\ Punctured(j) <= 8 * ((j - 1) \div 3) + 5
  <2>1. Len(punct_2_3.P) = 3 /\ punct_2_3.period = 8 /\ punct_2_3.group = 0
    BY DEF punct_2_3, Puncturer, P_rate2_3
  <2>2. \A r \in 1..3 : punct_2_3.P[r] \in 1..5
    BY DEF punct_2_3, Puncturer, P_rate2_3
  <2>3. IFunc(punct_2_3, j) = j
    BY <2>1 DEF IFunc
  <2>4. Punctured(j) = 8 * ((j - 1) \div 3) + punct_2_3.P[j - 3 * ((j - 1) \div 3)]
    BY <2>1, <2>3 DEF Punctured, PuncturedBy
  <2>5. j - 3 * ((j - 1) \div 3) \in 1..3 /\ (j - 1) \div 3 \in Nat
    BY <1>2
  <2> QED BY <1>2, <2>2, <2>4, <2>5, PuncturedRange
<1> QED BY <1>1, <1>2, <1>3

-----------------------------------------------------------------------------
(* The way of the bits of a burst, block by block.                         *)
Register == [0..31 -> 0..1]
Runs == [1..3 -> [0..432 -> Register]]
Counts == [1..3 -> 0..432]

(* The code that block c of the cell is scrambled with.                    *)
CodeOf(c, of) == IF c.type = "SB1" THEN ScrambInit ELSE ScrambOf(of)

(* Type-4 bit i of block c is symbol k.                                    *)
IsSymbol(c, k, i) ==
  /\ i \in 1..Len345(c.type)
  /\ IF c.type = "BBK" THEN k = i
     ELSE \E j \in 1..Len345(c.type) :
            BlockInterl(Len345(c.type), Blk[c.type].a, j) = i /\ k = Punctured(j)

Payload(c, k, bit, o) == c.type = "BBK" /\ k <= 14 => bit = IF k = o THEN 1 ELSE 0

(* r is bit i of block c of burst t on the air, scrambled with reg.        *)
IsBit(r, t, c, i, reg, o) ==
  /\ r.call = c /\ r.pos = SentAt(t, c, i) /\ IsSymbol(c, r.k, i) /\ Payload(c, r.k, r.bit, o)
  /\ r.bit \in 0..1 /\ r.sent = (r.bit + LfsrBit(reg)) % 2

(* On the air are the first out[m] bits of each block m, scrambled with    *)
(* what run[m] says that the register went through.                        *)
OnTheAir(q, t, of, o, run, out) ==
  /\ \A m \in 1..Len(Blocks[t]) :
       /\ out[m] <= Len345(Blocks[t][m].type)
       /\ run[m][0] = CodeOf(Blocks[t][m], of)
       /\ \A x \in 0..431 : x < out[m] => run[m][x + 1] = LfsrNext(run[m][x])
       /\ \A i \in 1..out[m] : \E r \in q : r.pos = SentAt(t, Blocks[t][m], i)
  /\ \A r \in q : \E m \in 1..Len(Blocks[t]) : \E i \in 1..out[m] :
       IsBit(r, t, Blocks[t][m], i, run[m][i - 1], o)

(* The calls cl that are left are the last of the burst; those before are  *)
(* on the air. The register lf is where it was or will be at bit d.        *)
Stage(t, cl, ph, d, lf, run, out) ==
  LET at == Len(Blocks[t]) - Len(cl)
  IN  /\ at >= 0
      /\ \A k \in 1..Len(cl) : cl[k] = Blocks[t][at + k]
      /\ \A m \in 1..Len(Blocks[t]) :
           out[m] = IF ph = "receive" \/ m <= at THEN Len345(Blocks[t][m].type)
                    ELSE IF ph = "scramble" /\ m = at + 1 THEN d ELSE 0
      /\ ph # "encode" /\ cl # <<>> => lf = run[at + 1][d]

(* The type-4 bits of block c that are known after d type-2 bits; before   *)
(* they are scrambled, all.                                                *)
Collected(c, q, ph, d, o) ==
  /\ \A s \in q : IsSymbol(c, s.k, s.i) /\ Payload(c, s.k, s.bit, o)
  /\ ph = "scramble" => \A i \in 1..Len345(c.type) : \E s \in q : s.i = i
  /\ ph = "encode" /\ c.type = "BBK" /\ d = 30 => \A i \in 1..30 : \E s \in q : s.i = i
  /\ ph = "encode" /\ c.type # "BBK" =>
       \A j \in 1..Len345(c.type) :
         (Punctured(j) - 1) \div 4 < d =>
           \E s \in q : s.i = BlockInterl(Len345(c.type), Blk[c.type].a, j)

UndoInv ==
  /\ InBurst => \E run \in Runs, out \in Counts :
                  /\ OnTheAir(air, train, cell, one, run, out)
                  /\ Stage(train, calls, phase, n, lfsr, run, out)
  /\ phase \in {"encode", "scramble"} => Collected(Head(calls), type4, phase, n, one)
  /\ ~InBurst => air = {} /\ type4 = {}
  /\ SymbolsReturn

(* How the register of the sender starts, and that of the receiver.        *)
LEMMA CodeIsStart ==
  ASSUME NEW c
  PROVE  ScrambStart(c) = CodeOf(c, cell)
BY DEF ScrambStart, CodeOf

LEMMA CodeTypes ==
  ASSUME NEW c, NEW of \in Cells
  PROVE  CodeOf(c, of) \in Register
BY ScrambTypes DEF CodeOf, Register

(* The first of the calls that are left.                                   *)
LEMMA CallAtStage ==
  ASSUME NEW t \in DOMAIN Blocks, NEW cl \in Seq(CallType), cl # <<>>, NEW ph, NEW d, NEW lf,
         NEW run, NEW out, Stage(t, cl, ph, d, lf, run, out)
  PROVE  /\ Len(Blocks[t]) - Len(cl) + 1 \in 1..Len(Blocks[t])
         /\ Head(cl) = Blocks[t][Len(Blocks[t]) - Len(cl) + 1]
         /\ Len(cl) \in Nat /\ Len(cl) >= 1 /\ Len(Blocks[t]) \in Nat
<1>1. Len(cl) \in Nat /\ Len(cl) >= 1 /\ Head(cl) = cl[1]
  BY EmptySeq, LenProperties
<1>2. Len(Blocks[t]) \in 1..3
  BY BlocksAre
<1>3. Len(Blocks[t]) - Len(cl) >= 0 /\ cl[1] = Blocks[t][Len(Blocks[t]) - Len(cl) + 1]
  BY <1>1 DEF Stage
<1> QED BY <1>1, <1>2, <1>3

LEMMA NothingOnAir ==
  ASSUME NEW t, NEW of, NEW o, NEW run, NEW out,
         \A m \in 1..Len(Blocks[t]) : out[m] = 0 /\ run[m][0] = CodeOf(Blocks[t][m], of),
         \A m \in 1..Len(Blocks[t]) : Len345(Blocks[t][m].type) \in Nat
  PROVE  OnTheAir({}, t, of, o, run, out)
<1> SUFFICES ASSUME NEW m \in 1..Len(Blocks[t])
             PROVE  /\ out[m] <= Len345(Blocks[t][m].type)
                    /\ run[m][0] = CodeOf(Blocks[t][m], of)
                    /\ \A x \in 0..431 : x < out[m] => run[m][x + 1] = LfsrNext(run[m][x])
                    /\ \A i \in 1..out[m] : \E r \in {} : r.pos = SentAt(t, Blocks[t][m], i)
  BY DEF OnTheAir
<1>1. out[m] = 0 /\ run[m][0] = CodeOf(Blocks[t][m], of) /\ Len345(Blocks[t][m].type) \in Nat
  OBVIOUS
<1> QED BY <1>1

(* A first burst is encoded.                                               *)
LEMMA UndoStart ==
  ASSUME CodingInv, UndoInv, StartBurst
  PROVE  UndoInv'
<1>1. /\ train' \in DOMAIN Blocks /\ cell' \in Cells /\ phase = "puncture" /\ phase' = "encode"
      /\ calls' = Blocks[train'] /\ n' = 0 /\ air' = air /\ type4' = type4
  BY DEF StartBurst, coding, TestSucceeds, InPhase
<1>2. air' = {} /\ type4' = {}
  BY <1>1 DEF UndoInv, InBurst
<1> DEFINE B == Blocks[train']
           run == [m \in 1..3 |-> [x \in 0..432 |-> IF m <= Len(B) THEN CodeOf(B[m], cell') ELSE ScrambInit]]
           out == [m \in 1..3 |-> 0]
<1>3. Len(B) \in 1..3 /\ B \in Seq(CallType) /\ B # <<>>
  BY <1>1, BlocksAre
<1>4. run \in Runs /\ out \in Counts
  <2>1. ScrambInit \in Register
    BY <1>1, ScrambTypes DEF Register
  <2>2. \A m \in 1..3 : (IF m <= Len(B) THEN CodeOf(B[m], cell') ELSE ScrambInit) \in Register
    BY <1>1, <2>1, CodeTypes
  <2> HIDE DEF B
  <2> QED BY <2>2 DEF Runs, Counts
<1>5. \A m \in 1..Len(B) : out[m] = 0 /\ run[m][0] = CodeOf(B[m], cell')
  <2> DEFINE k == Len(B)
             f(m) == CodeOf(B[m], cell')
  <2>1. k \in 1..3
    BY <1>3
  <2> HIDE DEF B, k
  <2>2. run = [m \in 1..3 |-> [x \in 0..432 |-> IF m <= k THEN f(m) ELSE ScrambInit]]
    BY DEF k
  <2> HIDE DEF f, run
  <2>3. \A m \in 1..k : m \in 1..3 /\ m <= k
    BY <2>1
  <2>4. \A m \in 1..k : run[m][0] = f(m)
    BY <2>2, <2>3
  <2>5. \A m \in 1..k : out[m] = 0
    BY <2>3
  <2> HIDE DEF out
  <2> QED BY <2>4, <2>5, Zenon DEF k, f
<1>6. \A m \in 1..Len(B) : Len345(B[m].type) \in Nat
  BY <1>1, BlocksAre, BlkParams DEF CallType, Len345
<1>7. OnTheAir(air', train', cell', one', run, out)
  <2> HIDE DEF run, out
  <2> QED BY <1>2, <1>5, <1>6, NothingOnAir
<1>8. Stage(train', calls', phase', n', lfsr', run, out)
  <2> HIDE DEF run, out
  <2>1. Len(B) - Len(B) = 0 /\ Len(calls') = Len(B)
    BY <1>1, <1>3
  <2> QED BY <1>1, <1>3, <1>5, <2>1 DEF Stage
<1>9. Collected(Head(calls)', type4', phase', n', one')
  <2>1. Head(B) \in CallType
    BY <1>3, TailOfCalls
  <2>2. ASSUME NEW j \in 1..Len345(Head(B).type), Head(B).type # "BBK"
        PROVE  ~((Punctured(j) - 1) \div 4 < 0)
    BY <2>1, <2>2, SymbolIsOfBit, BlkParams DEF CallType
  <2> QED BY <1>1, <1>2, <2>2 DEF Collected
<1>10. InBurst' /\ SymbolsReturn'
  BY <1>1 DEF InBurst, SymbolsReturn
<1> HIDE DEF run, out
<1> QED BY <1>1, <1>4, <1>7, <1>8, <1>9, <1>10 DEF UndoInv

(* One more type-2 bit.                                                    *)
LEMMA UndoEncode ==
  ASSUME CodingInv, UndoInv, Encode
  PROVE  UndoInv'
<1> DEFINE c == Head(calls)
           K == Len345(c.type)
           g == Generators(delayed, Type2Bit(n + 1))
           new == {[i |-> BlockInterl(Par.type345, Par.a, j), k |-> Punctured(j),
                    bit |-> g[Punctured(j) - 4 * n]] :
                     j \in {x \in 1..Par.type345 : (Punctured(x) - 1) \div 4 = n}}
<1>1. /\ phase = "encode" /\ phase' = phase /\ calls' = calls /\ calls # <<>> /\ c.type # "BBK"
      /\ n' = n + 1 /\ n < Par.type2 /\ type4' = type4 \cup new
      /\ UNCHANGED <<train, cell, one, air>>
  BY Zenon DEF Encode, InPhase, NotTests
<1>2. InBurst /\ InBurst' /\ c.type \in DOMAIN Blk
  BY <1>1, ParOfBurst DEF CodingInv, InBurst
<1>3. n \in Nat
  <2>1. Par.type2 \in Nat
    BY <1>2, BlkParams DEF Par
  <2> QED BY <1>1, <1>2, <2>1 DEF CodingInv, CallsOK
<1>4. Par.type345 = K /\ Par.a = Blk[c.type].a
  BY DEF Par, Len345
<1>5. Collected(c, type4, "encode", n, one)
  BY <1>1 DEF UndoInv
<1>6. \A s \in new : \E j \in 1..K : s.i = BlockInterl(K, Blk[c.type].a, j) /\ s.k = Punctured(j)
  <2> HIDE DEF g, K, c
  <2> QED BY <1>4
<1>7. ASSUME NEW j \in 1..K, (Punctured(j) - 1) \div 4 = n
      PROVE  \E s \in new : s.i = BlockInterl(K, Blk[c.type].a, j)
  <2> DEFINE s == [i |-> BlockInterl(Par.type345, Par.a, j), k |-> Punctured(j), bit |-> g[Punctured(j) - 4 * n]]
  <2>1. s \in new
    <3> HIDE DEF g, c, K
    <3> QED BY <1>4, <1>7
  <2>2. s.i = BlockInterl(K, Blk[c.type].a, j)
    BY <1>4
  <2> QED BY <2>1, <2>2
<1>8. \A j \in 1..K : BlockInterl(K, Blk[c.type].a, j) \in 1..K /\ (Punctured(j) - 1) \div 4 \in Nat
  <2>1. \A j \in 1..K : (Punctured(j) - 1) \div 4 \in 0..(Blk[c.type].type2 - 1)
    BY <1>1, <1>2, SymbolIsOfBit
  <2>2. K \in Nat /\ K > 0 /\ Blk[c.type].a \in Nat
    BY <1>2, BlkParams DEF Len345
  <2> SUFFICES ASSUME NEW j \in 1..K
               PROVE  BlockInterl(K, Blk[c.type].a, j) \in 1..K /\ (Punctured(j) - 1) \div 4 \in Nat
    OBVIOUS
  <2>3. j \in Nat
    BY <2>2
  <2>4. BlockInterl(K, Blk[c.type].a, j) \in 1..K
    BY <2>2, <2>3, BlockInterlRange
  <2>5. Blk[c.type].type2 \in Nat
    BY <1>2, BlkParams
  <2>6. (Punctured(j) - 1) \div 4 \in 0..(Blk[c.type].type2 - 1)
    BY <2>1
  <2> HIDE DEF K, c
  <2> QED BY <2>4, <2>5, <2>6
<1> HIDE DEF new
<1>9. Collected(c, type4', "encode", n + 1, one)
  <2>1. \A s \in type4' : IsSymbol(c, s.k, s.i) /\ Payload(c, s.k, s.bit, one)
    BY <1>1, <1>5, <1>6, <1>8 DEF Collected, IsSymbol, Payload
  <2>2. ASSUME NEW j \in 1..K, (Punctured(j) - 1) \div 4 < n + 1
        PROVE  \E s \in type4' : s.i = BlockInterl(K, Blk[c.type].a, j)
    <3> DEFINE w == (Punctured(j) - 1) \div 4
    <3>1. w \in Nat /\ w < n + 1
      BY <1>8, <2>2
    <3> HIDE DEF w
    <3>2. w < n \/ w = n
      BY <1>3, <3>1
    <3>3. CASE w < n
      <4>1. PICK s \in type4 : s.i = BlockInterl(K, Blk[c.type].a, j)
        BY <1>1, <1>5, <3>3 DEF Collected, w
      <4> QED BY <1>1, <4>1
    <3>4. CASE w = n
      <4>1. PICK s \in new : s.i = BlockInterl(K, Blk[c.type].a, j)
        BY <1>7, <3>4 DEF w
      <4> QED BY <1>1, <4>1
    <3> QED BY <3>2, <3>3, <3>4
  <2> QED BY <1>1, <2>1, <2>2 DEF Collected
<1>10. PICK run \in Runs, out \in Counts :
         OnTheAir(air, train, cell, one, run, out) /\ Stage(train, calls, phase, n, lfsr, run, out)
  BY <1>2 DEF UndoInv
<1>11. Stage(train', calls', phase', n', lfsr', run, out)
  BY <1>1, <1>10 DEF Stage
<1>12. SymbolsReturn'
  BY <1>1 DEF SymbolsReturn
<1> HIDE DEF c
<1>13. Collected(Head(calls)', type4', phase', n', one')
  BY <1>1, <1>9 DEF c
<1> QED BY <1>1, <1>2, <1>10, <1>11, <1>12, <1>13 DEF UndoInv


(* The access assignment is encoded at once.                               *)
LEMMA UndoEncodeAach ==
  ASSUME CodingInv, UndoInv, EncodeAach
  PROVE  UndoInv'
<1> DEFINE c == Head(calls)
           data == [p \in 1..14 |-> DataBit(p)]
           new == {[i |-> i, k |-> i, bit |-> Rm3014(data, i)] : i \in 1..30}
<1>1. /\ phase = "encode" /\ phase' = phase /\ calls' = calls /\ calls # <<>> /\ c.type = "BBK"
      /\ n' = Par.type2 /\ type4' = new
      /\ UNCHANGED <<train, cell, one, air>>
  BY Zenon DEF EncodeAach, InPhase, NotTests
<1>2. InBurst /\ InBurst'
  BY <1>1 DEF InBurst
<1>3. \A i \in 1..14 : Rm3014(data, i) = IF i = one THEN 1 ELSE 0
  BY DEF Rm3014, DataBit
<1> HIDE DEF data
<1>4. \A s \in new : IsSymbol(c, s.k, s.i) /\ Payload(c, s.k, s.bit, one)
  <2> SUFFICES ASSUME NEW i \in 1..30
               PROVE  IsSymbol(c, i, i) /\ Payload(c, i, Rm3014(data, i), one)
    OBVIOUS
  <2>1. IsSymbol(c, i, i)
    BY <1>1, Lengths DEF IsSymbol
  <2>2. i <= 14 => i \in 1..14
    OBVIOUS
  <2> QED BY <1>3, <2>1, <2>2 DEF Payload
<1>5. \A i \in 1..30 : \E s \in new : s.i = i
  <2> SUFFICES ASSUME NEW i \in 1..30
               PROVE  \E s \in new : s.i = i
    OBVIOUS
  <2> DEFINE s == [i |-> i, k |-> i, bit |-> Rm3014(data, i)]
  <2>1. s \in new /\ s.i = i
    OBVIOUS
  <2> QED BY <2>1
<1> HIDE DEF new
<1>6. Collected(c, type4', "encode", n', one)
  BY <1>1, <1>4, <1>5 DEF Collected
<1>7. PICK run \in Runs, out \in Counts :
        OnTheAir(air, train, cell, one, run, out) /\ Stage(train, calls, phase, n, lfsr, run, out)
  BY <1>2 DEF UndoInv
<1>8. Stage(train', calls', phase', n', lfsr', run, out)
  BY <1>1, <1>7 DEF Stage
<1>9. SymbolsReturn'
  BY <1>1 DEF SymbolsReturn
<1> HIDE DEF c
<1>10. Collected(Head(calls)', type4', phase', n', one')
  BY <1>1, <1>6 DEF c
<1> QED BY <1>1, <1>2, <1>7, <1>8, <1>9, <1>10 DEF UndoInv

(* All type-4 bits are known when a block is scrambled.                    *)
LEMMA UndoStartScramble ==
  ASSUME CodingInv, UndoInv, StartScramble
  PROVE  UndoInv'
<1> DEFINE c == Head(calls)
           K == Len345(c.type)
           at == Len(Blocks[train]) - Len(calls)
<1>1. /\ phase = "encode" /\ phase' = "scramble" /\ calls' = calls /\ calls # <<>>
      /\ n = Par.type2 /\ n' = 0 /\ lfsr' = CodeOf(c, cell)
      /\ UNCHANGED <<train, cell, one, type4, air>>
  BY Zenon DEF StartScramble, InPhase, NotTests, CodeOf
<1>2. InBurst /\ InBurst' /\ c.type \in DOMAIN Blk /\ calls \in Seq(CallType) /\ train \in DOMAIN Blocks
  BY <1>1, ParOfBurst DEF CodingInv, InBurst, Typed
<1>3. Collected(c, type4, "encode", n, one)
  BY <1>1 DEF UndoInv
<1>4. \A i \in 1..K : \E s \in type4 : s.i = i
  <2>1. CASE c.type = "BBK"
    <3>1. n = 30 /\ K = 30
      BY <1>1, <1>2, <2>1, BlkParams, Lengths DEF Par
    <3> QED BY <1>3, <2>1, <3>1 DEF Collected
  <2>2. CASE c.type # "BBK"
    <3> SUFFICES ASSUME NEW i \in 1..K
                 PROVE  \E s \in type4 : s.i = i
      OBVIOUS
    <3>1. PICK j \in 1..K : BlockInterl(K, Blk[c.type].a, j) = i
      BY <1>2, <2>2, InterleaverInverts
    <3>2. n = Blk[c.type].type2 /\ n \in Nat
      BY <1>1, <1>2, BlkParams DEF Par
    <3>3. (Punctured(j) - 1) \div 4 \in 0..(Blk[c.type].type2 - 1)
      BY <1>2, <2>2, SymbolIsOfBit
    <3> HIDE DEF c
    <3>4. (Punctured(j) - 1) \div 4 < n
      BY <3>2, <3>3
    <3> QED BY <1>3, <2>2, <3>1, <3>4 DEF Collected
  <2> QED BY <2>1, <2>2
<1>5. Collected(c, type4', "scramble", n', one)
  BY <1>1, <1>3, <1>4 DEF Collected
<1>6. PICK run \in Runs, out \in Counts :
        OnTheAir(air, train, cell, one, run, out) /\ Stage(train, calls, phase, n, lfsr, run, out)
  BY <1>2 DEF UndoInv
<1>7. /\ at + 1 \in 1..Len(Blocks[train]) /\ c = Blocks[train][at + 1] /\ at \in Int
      /\ Len(Blocks[train]) \in Nat
  BY <1>1, <1>2, <1>6, CallAtStage
<1> HIDE DEF c, K
<1>8. run[at + 1][0] = CodeOf(c, cell)
  BY <1>6, <1>7 DEF OnTheAir
<1>9. Stage(train', calls', phase', n', lfsr', run, out)
  <2>1. \A m \in 1..Len(Blocks[train]) :
           out[m] = IF m <= at THEN Len345(Blocks[train][m].type) ELSE 0
    BY <1>1, <1>6 DEF Stage
  <2>2. at >= 0 /\ \A k \in 1..Len(calls) : calls[k] = Blocks[train][at + k]
    BY <1>6 DEF Stage
  <2>3. \A m \in 1..Len(Blocks[train]) :
           out[m] = IF m <= at THEN Len345(Blocks[train][m].type)
                    ELSE IF m = at + 1 THEN 0 ELSE 0
    BY <2>1
  <2>4. at = Len(Blocks[train']) - Len(calls')
    BY <1>1
  <2> HIDE DEF at
  <2> QED BY <1>1, <1>8, <2>2, <2>3, <2>4, Zenon DEF Stage
<1>10. SymbolsReturn'
  BY <1>1 DEF SymbolsReturn
<1>11. Collected(Head(calls)', type4', phase', n', one')
  BY <1>1, <1>5 DEF c
<1> QED BY <1>1, <1>2, <1>6, <1>9, <1>10, <1>11 DEF UndoInv

(* In go and more, the register is at lf after bit d + 1 of block p.       *)
GoneOn(run, out, p, d, lf, go, more) ==
  /\ go[p][d + 1] = lf /\ more[p] = d + 1
  /\ \A m \in 1..3 : m # p => go[m] = run[m] /\ more[m] = out[m]
  /\ \A x \in 0..d : go[p][x] = run[p][x]

LEMMA OneMoreRun ==
  ASSUME NEW run \in Runs, NEW out \in Counts, NEW p \in 1..3, NEW d \in 0..431, NEW lf \in Register
  PROVE  \E go \in Runs, more \in Counts : GoneOn(run, out, p, d, lf, go, more)
<1> DEFINE X == 0..432
           f == run[p]
           e == d + 1
           row == [f EXCEPT ![e] = lf]
           go == [run EXCEPT ![p] = row]
           more == [out EXCEPT ![p] = e]
<1>1. e \in X /\ \A x \in 0..d : x \in X /\ x # e
  OBVIOUS
<1>2. run \in [1..3 -> [X -> Register]] /\ out \in [1..3 -> X]
  BY DEF Runs, Counts
<1> HIDE DEF X
<1>3. f \in [X -> Register]
  BY <1>2
<1> HIDE DEF e, f
<1>4. row \in [X -> Register] /\ row[e] = lf /\ \A x \in X : x # e => row[x] = f[x]
  BY <1>1, <1>3
<1> HIDE DEF row
<1>5. /\ go \in [1..3 -> [X -> Register]] /\ go[p] = row
      /\ \A m \in 1..3 : m # p => go[m] = run[m]
  BY <1>2, <1>4
<1>6. /\ more \in [1..3 -> X] /\ more[p] = e
      /\ \A m \in 1..3 : m # p => more[m] = out[m]
  BY <1>1, <1>2
<1> HIDE DEF go, more
<1>7. go \in Runs /\ more \in Counts
  BY <1>5, <1>6 DEF Runs, Counts, X
<1>8. /\ go[p][d + 1] = lf /\ more[p] = d + 1
      /\ \A m \in 1..3 : m # p => go[m] = run[m] /\ more[m] = out[m]
      /\ \A x \in 0..d : go[p][x] = run[p][x]
  <2>1. go[p][d + 1] = lf /\ more[p] = d + 1
    BY <1>4, <1>5, <1>6 DEF e
  <2>2. \A m \in 1..3 : m # p => go[m] = run[m] /\ more[m] = out[m]
    BY <1>5, <1>6, Zenon
  <2>3. \A x \in 0..d : go[p][x] = run[p][x]
    BY <1>1, <1>4, <1>5, Zenon DEF f
  <2> QED BY <2>1, <2>2, <2>3
<1> QED BY <1>7, <1>8 DEF GoneOn

LEMMA ZeroFirst ==
  ASSUME NEW d \in 0..431
  PROVE  0 \in 0..d
OBVIOUS

(* One more bit of block p is on the air.                                  *)
LEMMA OneMoreOnAir ==
  ASSUME NEW q, NEW new, NEW t \in DOMAIN Blocks, NEW of, NEW o, NEW lf,
         NEW run \in Runs, NEW out \in Counts, OnTheAir(q, t, of, o, run, out),
         NEW p \in 1..Len(Blocks[t]), NEW d \in 0..431, out[p] = d, run[p][d] = lf,
         d + 1 <= Len345(Blocks[t][p].type),
         \E r \in new : r.pos = SentAt(t, Blocks[t][p], d + 1),
         \A r \in new : IsBit(r, t, Blocks[t][p], d + 1, lf, o),
         NEW go \in Runs, NEW more \in Counts,
         GoneOn(run, out, p, d, LfsrNext(lf), go, more)
  PROVE  OnTheAir(q \cup new, t, of, o, go, more)
<1>0. /\ go[p][d + 1] = LfsrNext(lf) /\ more[p] = d + 1
      /\ \A m \in 1..3 : m # p => go[m] = run[m] /\ more[m] = out[m]
      /\ \A x \in 0..d : go[p][x] = run[p][x]
  BY DEF GoneOn
<1> DEFINE B == Blocks[t]
<1>1. \A m \in 1..Len(B) : m \in 1..3
  BY BlocksAre
<1> HIDE DEF B
<1>2. p \in 1..Len(B)
  BY DEF B
<1>3. ASSUME NEW m \in 1..Len(B)
      PROVE  /\ more[m] <= Len345(B[m].type)
             /\ go[m][0] = CodeOf(B[m], of)
             /\ \A x \in 0..431 : x < more[m] => go[m][x + 1] = LfsrNext(go[m][x])
             /\ \A i \in 1..more[m] : \E r \in q \cup new : r.pos = SentAt(t, B[m], i)
  <2>1. /\ out[m] <= Len345(B[m].type)
        /\ run[m][0] = CodeOf(B[m], of)
        /\ \A x \in 0..431 : x < out[m] => run[m][x + 1] = LfsrNext(run[m][x])
        /\ \A i \in 1..out[m] : \E r \in q : r.pos = SentAt(t, B[m], i)
    BY DEF OnTheAir, B
  <2>2. CASE m # p
    BY <1>0, <1>1, <2>1, <2>2
  <2>3. CASE m = p
    <3>1. more[m] <= Len345(B[m].type) /\ go[m][0] = CodeOf(B[m], of)
      <4>1. 0 \in 0..d
        BY ZeroFirst, Zenon
      <4> QED BY <1>0, <2>1, <2>3, <4>1 DEF B
    <3>2. ASSUME NEW x \in 0..431, x < more[m]
          PROVE  go[m][x + 1] = LfsrNext(go[m][x])
      <4>1. x \in 0..d
        BY <1>0, <2>3, <3>2
      <4>2. CASE x = d
        BY <1>0, <2>3, <4>1, <4>2
      <4>3. CASE x # d
        <5>1. x < out[m] /\ x + 1 \in 0..d
          BY <2>3, <4>1, <4>3
        <5>2. run[m][x + 1] = LfsrNext(run[m][x])
          BY <2>1, <5>1
        <5>3. go[m][x] = run[m][x] /\ go[m][x + 1] = run[m][x + 1]
          BY <1>0, <2>3, <4>1, <5>1
        <5> QED BY <5>2, <5>3
      <4> QED BY <4>2, <4>3
    <3>3. ASSUME NEW i \in 1..more[m]
          PROVE  \E r \in q \cup new : r.pos = SentAt(t, B[m], i)
      <4>1. i = d + 1 \/ i \in 1..out[m]
        <5>1. more[m] = d + 1 /\ out[m] = d
          BY <1>0, <2>3
        <5>2. i \in 1..(d + 1)
          BY <5>1
        <5>3. i = d + 1 \/ i \in 1..d
          BY <5>2
        <5> QED BY <5>1, <5>3
      <4> QED BY <2>1, <2>3, <4>1 DEF B
    <3> QED BY <3>1, <3>2, <3>3
  <2> QED BY <2>2, <2>3
<1>4. ASSUME NEW r \in q \cup new
      PROVE  \E m \in 1..Len(B) : \E i \in 1..more[m] : IsBit(r, t, B[m], i, go[m][i - 1], o)
  <2>1. CASE r \in q
    <3>1. PICK m \in 1..Len(B) : \E i \in 1..out[m] : IsBit(r, t, B[m], i, run[m][i - 1], o)
      BY <2>1 DEF OnTheAir, B
    <3>2. PICK i \in 1..out[m] : IsBit(r, t, B[m], i, run[m][i - 1], o)
      BY <3>1
    <3>3. i \in 1..more[m] /\ go[m][i - 1] = run[m][i - 1]
      <4>1. CASE m # p
        <5>1. go[m] = run[m] /\ more[m] = out[m]
          BY <1>0, <1>1, <4>1
        <5> QED BY <5>1
      <4>2. CASE m = p
        <5>1. i \in 1..d
          BY <3>2, <4>2
        <5>2. i - 1 \in 0..d /\ i \in 1..(d + 1)
          BY <5>1
        <5> QED BY <1>0, <4>2, <5>2
      <4> QED BY <4>1, <4>2
    <3> QED BY <3>2, <3>3
  <2>2. CASE r \in new
    <3>1. (d + 1) - 1 = d /\ d \in 0..d /\ d + 1 \in 1..(d + 1)
      OBVIOUS
    <3>2. go[p][d] = lf
      BY <1>0, <3>1
    <3>3. IsBit(r, t, B[p], d + 1, go[p][(d + 1) - 1], o)
      BY <2>2, <3>1, <3>2 DEF B
    <3>4. d + 1 \in 1..more[p]
      BY <1>0, <3>1
    <3> QED BY <1>2, <3>3, <3>4
  <2> QED BY <2>1, <2>2
<1> QED BY <1>3, <1>4, Zenon DEF OnTheAir, B

(* One more bit is scrambled.                                              *)
LEMMA UndoScramble ==
  ASSUME CodingInv, UndoInv, Scramble
  PROVE  UndoInv'
<1> DEFINE c == Head(calls)
           K == Len345(c.type)
           B == Blocks[train]
           p == Len(B) - Len(calls) + 1
           bit(t) == [pos |-> SentAt(train, c, n + 1), call |-> c, k |-> t.k,
                      bit |-> t.bit, sent |-> (t.bit + LfsrBit(lfsr)) % 2]
           new == {bit(t) : t \in {x \in type4 : x.i = n + 1}}
<1>1. /\ phase = "scramble" /\ phase' = phase /\ calls' = calls /\ calls # <<>>
      /\ n < K /\ n' = n + 1 /\ lfsr' = LfsrNext(lfsr) /\ air' = air \cup new
      /\ UNCHANGED <<train, cell, one, type4>>
  BY Zenon DEF Scramble, InPhase, NotTests, Par, Len345
<1>2. /\ InBurst /\ InBurst' /\ c.type \in DOMAIN Blk /\ calls \in Seq(CallType) /\ train \in DOMAIN Blocks
      /\ lfsr \in Register /\ type4 \subseteq Symbol
  BY <1>1, ParOfBurst DEF CodingInv, InBurst, Typed, Register
<1>3. n \in 0..431 /\ n + 1 \in 1..K
  <2>1. n \in 0..K
    BY <1>1, <1>2 DEF CodingInv, CallsOK, Par, Len345
  <2>2. K \in Nat /\ K <= 432
    BY <1>2, BlkParams DEF Len345
  <2> HIDE DEF K
  <2>3. n < K
    BY <1>1
  <2> QED BY <2>1, <2>2, <2>3
<1>4. Collected(c, type4, "scramble", n, one)
  BY <1>1 DEF UndoInv
<1>5. PICK run \in Runs, out \in Counts :
        OnTheAir(air, train, cell, one, run, out) /\ Stage(train, calls, phase, n, lfsr, run, out)
  BY <1>2 DEF UndoInv
<1>6. p \in 1..Len(B) /\ c = B[p] /\ p \in 1..3
  <2>1. Len(B) \in 1..3
    BY <1>2, BlocksAre
  <2>2. p \in 1..Len(B) /\ c = B[p]
    BY <1>1, <1>2, <1>5, CallAtStage
  <2> HIDE DEF B, c, p
  <2> QED BY <2>1, <2>2
<1>7. /\ \A k \in 1..Len(calls) : calls[k] = B[(p - 1) + k]
      /\ p - 1 = Len(B) - Len(calls) /\ p - 1 >= 0
      /\ \A m \in 1..Len(B) : out[m] = IF m <= p - 1 THEN Len345(B[m].type) ELSE IF m = p THEN n ELSE 0
      /\ run[p][n] = lfsr
  <2>1. Len(calls) \in Nat /\ Len(B) \in 1..3
    BY <1>2, BlocksAre, LenProperties
  <2>2. (Len(B) - Len(calls)) + 1 = p /\ p - 1 = Len(B) - Len(calls)
    BY <2>1
  <2> HIDE DEF p, c, K
  <2> QED BY <1>1, <1>5, <2>2 DEF Stage
<1> HIDE DEF p
<1>8. out[p] = n
  BY <1>6, <1>7
<1>9. \E r \in new : r.pos = SentAt(train, B[p], n + 1)
  <2>1. PICK t \in type4 : t.i = n + 1
    BY <1>3, <1>4 DEF Collected
  <2>2. bit(t) \in new
    BY <2>1
  <2>3. bit(t).pos = SentAt(train, B[p], n + 1)
    BY <1>6
  <2> HIDE DEF new, bit
  <2> QED BY <2>2, <2>3
<1>10. ASSUME NEW r \in new
       PROVE  IsBit(r, train, B[p], n + 1, lfsr, one)
  <2>1. PICK t \in type4 : t.i = n + 1 /\ r = bit(t)
    OBVIOUS
  <2>2. IsSymbol(c, t.k, n + 1) /\ Payload(c, t.k, t.bit, one) /\ t.bit \in 0..1
    BY <1>2, <1>4, <2>1 DEF Collected, Symbol
  <2>3. /\ r.call = c /\ r.pos = SentAt(train, c, n + 1) /\ r.k = t.k /\ r.bit = t.bit
        /\ r.sent = (t.bit + LfsrBit(lfsr)) % 2
    BY <2>1
  <2> HIDE DEF bit, c, K, B, new
  <2> QED BY <1>6, <2>2, <2>3 DEF IsBit
<1>11. LfsrNext(lfsr) \in Register
  BY <1>2, LfsrStays DEF Register
<1> HIDE DEF new
<1>12. PICK go \in Runs, more \in Counts : GoneOn(run, out, p, n, LfsrNext(lfsr), go, more)
  <2> HIDE DEF B, c, K
  <2> QED BY <1>3, <1>6, <1>11, OneMoreRun, ZenonT(30)
<1>13. OnTheAir(air', train', cell', one', go, more)
  <2>1. n + 1 <= Len345(B[p].type)
    <3>1. K = Len345(B[p].type) /\ K \in Nat
      BY <1>2, <1>6, BlkParams DEF Len345
    <3> HIDE DEF K
    <3> QED BY <1>3, <3>1
  <2>2. OnTheAir(air \cup new, train, cell, one, go, more)
    <3>1. \A r \in new : IsBit(r, train, B[p], n + 1, lfsr, one)
      BY <1>10
    <3>2. run[p][n] = lfsr /\ train \in DOMAIN Blocks /\ p \in 1..Len(B)
      BY <1>2, <1>6, <1>7
    <3>3. OnTheAir(air, train, cell, one, run, out)
      BY <1>5
    <3> HIDE DEF c, K
    <3> QED BY <1>3, <1>8, <1>9, <1>12, <2>1, <3>1, <3>2, <3>3, OneMoreOnAir, ZenonT(30)
  <2> QED BY <1>1, <2>2
<1>14. Stage(train', calls', phase', n', lfsr', go, more)
  <2>1. ASSUME NEW m \in 1..Len(B)
        PROVE  more[m] = IF m <= p - 1 THEN Len345(B[m].type) ELSE IF m = (p - 1) + 1 THEN n + 1 ELSE 0
    <3>1. out[m] = IF m <= p - 1 THEN Len345(B[m].type) ELSE IF m = p THEN n ELSE 0
      BY <1>7
    <3>2. ~(p <= p - 1) /\ (p - 1) + 1 = p /\ m \in 1..3
      BY <1>2, <1>6, BlocksAre
    <3> HIDE DEF B, c, K
    <3> QED BY <1>12, <3>1, <3>2 DEF GoneOn
  <2>2. p - 1 = Len(Blocks[train']) - Len(calls') /\ (p - 1) + 1 = p
    BY <1>1, <1>6, <1>7
  <2> HIDE DEF c, K
  <2>3. go[p][n + 1] = LfsrNext(lfsr)
    BY <1>12 DEF GoneOn
  <2> QED BY <1>1, <1>7, <2>1, <2>2, <2>3, Zenon DEF Stage
<1>15. Collected(Head(calls)', type4', phase', n', one')
  <2> HIDE DEF K, B
  <2> QED BY <1>1, <1>4 DEF Collected
<1>16. SymbolsReturn'
  BY <1>1 DEF SymbolsReturn
<1> QED BY <1>1, <1>2, <1>12, <1>13, <1>14, <1>15, <1>16 DEF UndoInv

LEMMA Shifted ==
  ASSUME NEW a \in Int, NEW l \in Nat, NEW k \in 1..(l - 1)
  PROVE  k + 1 \in 1..l /\ a + (k + 1) = (a + 1) + k
OBVIOUS

(* A block is out; behind the last the burst is complete.                  *)
LEMMA UndoEndBlock ==
  ASSUME CodingInv, UndoInv, EndBlock
  PROVE  UndoInv'
<1> DEFINE B == Blocks[train]
           at == Len(B) - Len(calls)
<1>1. /\ phase = "scramble" /\ calls # <<>> /\ n = Len345(Head(calls).type) /\ n' = 0 /\ type4' = {}
      /\ UNCHANGED <<train, cell, one, air>>
      /\ IF Len(calls) > 1
           THEN phase' = "encode" /\ calls' = Tail(calls) /\ UNCHANGED lfsr
           ELSE phase' = "receive" /\ calls' = B /\ lfsr' = CodeOf(Head(B), cell)
  BY CodeIsStart, Zenon DEF EndBlock, InPhase, NotTests, Par, Len345
<1>2. InBurst /\ calls \in Seq(CallType) /\ train \in DOMAIN Blocks
  BY <1>1, ParOfBurst DEF CodingInv, InBurst, Typed
<1>3. PICK run \in Runs, out \in Counts :
        OnTheAir(air, train, cell, one, run, out) /\ Stage(train, calls, phase, n, lfsr, run, out)
  BY <1>2 DEF UndoInv
<1>4. Len(B) \in 1..3 /\ B \in Seq(CallType) /\ B # <<>> /\ Head(B) = B[1]
  <2>1. Len(B) \in 1..3 /\ B \in Seq(CallType) /\ B # <<>>
    BY <1>2, BlocksAre, BlocksAreCalls
  <2> HIDE DEF B
  <2>2. Head(B) = B[1]
    BY <2>1
  <2> QED BY <2>1, <2>2
<1>5. /\ at + 1 \in 1..Len(B) /\ Head(calls) = B[at + 1] /\ Len(calls) \in Nat /\ Len(calls) >= 1
      /\ at \in Int
  BY <1>1, <1>2, <1>3, <1>4, CallAtStage
<1>6. at >= 0 /\ \A k \in 1..Len(calls) : calls[k] = B[at + k]
  BY <1>3 DEF Stage
<1>7. \A m \in 1..Len(B) : out[m] = IF m <= at + 1 THEN Len345(B[m].type) ELSE 0
  <2> SUFFICES ASSUME NEW m \in 1..Len(B)
               PROVE  out[m] = IF m <= at + 1 THEN Len345(B[m].type) ELSE 0
    OBVIOUS
  <2>1. out[m] = IF m <= at THEN Len345(B[m].type) ELSE IF m = at + 1 THEN n ELSE 0
    BY <1>1, <1>3 DEF Stage
  <2>2. m \in Int /\ n = Len345(B[at + 1].type)
    BY <1>1, <1>5
  <2> HIDE DEF B, at
  <2> QED BY <1>5, <2>1, <2>2
<1>8. OnTheAir(air', train', cell', one', run, out)
  BY <1>1, <1>3
<1>9. phase' \in {"encode", "receive"} /\ InBurst' /\ SymbolsReturn'
  BY <1>1 DEF InBurst, SymbolsReturn
<1>10. calls' \in Seq(CallType) /\ calls' # <<>>
  BY <1>1, <1>2, <1>4, ParOfBurst DEF CodingInv
<1>11. Collected(Head(calls)', type4', phase', n', one') \/ phase' = "receive"
  <2> DEFINE c == Head(calls')
  <2>1. c.type \in DOMAIN Blk
    <3>1. c \in CallType
      BY <1>10, TailOfCalls
    <3> QED BY <3>1 DEF CallType
  <2> HIDE DEF c
  <2>2. ASSUME NEW j \in 1..Len345(c.type), c.type # "BBK"
        PROVE  ~((Punctured(j) - 1) \div 4 < 0)
    <3>1. (Punctured(j) - 1) \div 4 \in 0..(Blk[c.type].type2 - 1)
      BY <2>1, <2>2, SymbolIsOfBit
    <3> QED BY <3>1
  <2>3. phase' = "encode" => Collected(c, {}, "encode", 0, one)
    BY <2>2 DEF Collected
  <2> QED BY <1>1, <1>9, <2>3 DEF c
<1>12. Stage(train', calls', phase', n', lfsr', run, out)
  <2>1. CASE Len(calls) > 1
    <3>1. /\ Len(calls') = Len(calls) - 1 /\ phase' = "encode"
          /\ \A k \in 1..(Len(calls) - 1) : calls'[k] = calls[k + 1]
      BY <1>1, <1>2, <2>1, HeadTailProperties
    <3>2. Len(Blocks[train']) - Len(calls') = at + 1 /\ at + 1 >= 0
      BY <1>1, <1>4, <1>5, <1>6, <3>1
    <3>3. ASSUME NEW k \in 1..Len(calls')
          PROVE  calls'[k] = B[(at + 1) + k]
      <4>1. k \in 1..(Len(calls) - 1) /\ k + 1 \in 1..Len(calls) /\ at + (k + 1) = (at + 1) + k
        BY <1>5, <3>1, <3>3, Shifted
      <4>2. calls'[k] = calls[k + 1]
        BY <3>1, <4>1
      <4>3. calls[k + 1] = B[at + (k + 1)]
        BY <1>6, <4>1
      <4> QED BY <4>1, <4>2, <4>3
    <3>4. /\ phase' = "encode" /\ ~(phase' = "receive") /\ ~(phase' = "scramble")
          /\ train' = train
      BY <1>1, <3>1
    <3> HIDE DEF at
    <3> QED BY <1>7, <3>2, <3>3, <3>4, Zenon DEF Stage
  <2>2. CASE ~(Len(calls) > 1)
    <3>1. /\ phase' = "receive" /\ calls' = B /\ lfsr' = CodeOf(B[1], cell) /\ train' = train /\ n' = 0
      BY <1>1, <1>4, <2>2
    <3>2. Len(calls) = 1 /\ at + 1 = Len(B)
      <4> DEFINE l == Len(calls)
                 d == Len(B)
      <4>1. l \in Nat /\ l >= 1 /\ ~(l > 1) /\ d \in 1..3 /\ at = d - l
        BY <1>4, <1>5, <2>2, Zenon
      <4> HIDE DEF B, at, l, d
      <4>2. l = 1 /\ at + 1 = d
        BY <4>1
      <4> QED BY <4>2 DEF l, d
    <3>3. \A m \in 1..Len(B) : out[m] = Len345(B[m].type)
      <4>1. \A m \in 1..Len(B) : m <= at + 1
        BY <1>4, <3>2
      <4> QED BY <1>7, <4>1
    <3>4. run[1][0] = CodeOf(B[1], cell)
      BY <1>3, <1>4 DEF OnTheAir
    <3>5. Len(Blocks[train']) - Len(calls') = 0 /\ 0 >= 0 /\ 0 + 1 = 1
      BY <1>4, <3>1
    <3>6. \A k \in 1..Len(calls') : calls'[k] = B[0 + k]
      BY <1>4, <3>1
    <3> HIDE DEF at
    <3> QED BY <3>1, <3>3, <3>4, <3>5, <3>6, Zenon DEF Stage
  <2> QED BY <2>1, <2>2
<1> QED BY <1>1, <1>3, <1>8, <1>9, <1>11, <1>12 DEF UndoInv

(* The next block is received.                                             *)
LEMMA UndoNextCall ==
  ASSUME CodingInv, UndoInv, NextCall
  PROVE  UndoInv'
<1> DEFINE B == Blocks[train]
           at == Len(B) - Len(calls)
<1>1. /\ phase = "receive" /\ phase' = phase /\ calls # <<>> /\ n' = 0 /\ calls' = Tail(calls)
      /\ Len(calls) > 1 => lfsr' = CodeOf(calls[2], cell)
      /\ UNCHANGED <<train, cell, one, air, type4>>
  BY CodeIsStart, Zenon DEF NextCall, InPhase, NotTests
<1>2. InBurst /\ InBurst' /\ calls \in Seq(CallType) /\ train \in DOMAIN Blocks
  BY <1>1, ParOfBurst DEF CodingInv, InBurst, Typed
<1>3. PICK run \in Runs, out \in Counts :
        OnTheAir(air, train, cell, one, run, out) /\ Stage(train, calls, phase, n, lfsr, run, out)
  BY <1>2 DEF UndoInv
<1>4. Len(B) \in 1..3 /\ Len(calls) \in Nat /\ Len(calls) >= 1 /\ at \in Int /\ at + 1 \in 1..Len(B)
  BY <1>1, <1>2, <1>3, BlocksAre, CallAtStage
<1>5. /\ at >= 0 /\ \A k \in 1..Len(calls) : calls[k] = B[at + k]
      /\ \A m \in 1..Len(B) : out[m] = Len345(B[m].type)
  BY <1>1, <1>3 DEF Stage
<1>6. Len(calls') = Len(calls) - 1 /\ \A k \in 1..(Len(calls) - 1) : calls'[k] = calls[k + 1]
  BY <1>1, <1>2, HeadTailProperties
<1>7. Len(Blocks[train']) - Len(calls') = at + 1 /\ at + 1 >= 0
  BY <1>1, <1>4, <1>5, <1>6
<1>8. ASSUME NEW k \in 1..Len(calls')
      PROVE  calls'[k] = B[(at + 1) + k]
  <2>1. k \in 1..(Len(calls) - 1) /\ k + 1 \in 1..Len(calls) /\ at + (k + 1) = (at + 1) + k
    BY <1>4, <1>6, <1>8, Shifted
  <2>2. calls'[k] = calls[k + 1] /\ calls[k + 1] = B[at + (k + 1)]
    BY <1>5, <1>6, <2>1
  <2> QED BY <2>1, <2>2
<1>9. calls' # <<>> => lfsr' = run[(at + 1) + 1][0]
  <2> SUFFICES ASSUME calls' # <<>>
               PROVE  lfsr' = run[(at + 1) + 1][0]
    OBVIOUS
  <2>1. Len(calls) > 1
    <3>1. calls' \in Seq(CallType)
      BY <1>1, <1>2, ParOfBurst DEF CodingInv
    <3>2. Len(calls') # 0 /\ Len(calls') \in Nat
      BY <3>1, EmptySeq, LenProperties
    <3> QED BY <1>4, <1>6, <3>2
  <2>2. 2 \in 1..Len(calls) /\ (at + 1) + 1 = at + 2 /\ at + 2 \in 1..Len(B)
    BY <1>4, <1>5, <2>1
  <2>3. calls[2] = B[at + 2]
    BY <1>5, <2>2
  <2>4. run[at + 2][0] = CodeOf(B[at + 2], cell)
    BY <1>3, <2>2 DEF OnTheAir
  <2> QED BY <1>1, <2>1, <2>2, <2>3, <2>4
<1>10. OnTheAir(air', train', cell', one', run, out)
  BY <1>1, <1>3
<1>11. Stage(train', calls', phase', n', lfsr', run, out)
  <2> HIDE DEF at
  <2>1. train' = train /\ n' = 0 /\ phase' = "receive"
    BY <1>1
  <2> QED BY <1>5, <1>7, <1>8, <1>9, <2>1, Zenon DEF Stage
<1>12. SymbolsReturn'
  BY <1>1 DEF SymbolsReturn
<1> QED BY <1>1, <1>2, <1>3, <1>10, <1>11, <1>12 DEF UndoInv

(* What is at the place of bit i of block p on the air is that bit, and    *)
(* descrambling it gives it back.                                          *)
LEMMA BitAtPlace ==
  ASSUME NEW q, NEW t \in DOMAIN Blocks, NEW of, NEW o, NEW run \in Runs, NEW out \in Counts,
         OnTheAir(q, t, of, o, run, out),
         NEW p \in 1..Len(Blocks[t]), NEW i \in 1..Len345(Blocks[t][p].type),
         NEW r \in q, r.pos = SentAt(t, Blocks[t][p], i)
  PROVE  IsBit(r, t, Blocks[t][p], i, run[p][i - 1], o)
<1> DEFINE B == Blocks[t]
<1>1. PICK m \in 1..Len(B) : \E j \in 1..out[m] : IsBit(r, t, B[m], j, run[m][j - 1], o)
  BY DEF OnTheAir
<1>2. PICK j \in 1..out[m] : IsBit(r, t, B[m], j, run[m][j - 1], o)
  BY <1>1
<1>3. j \in 1..Len345(B[m].type)
  BY <1>2 DEF IsBit, IsSymbol
<1>4. SentAt(t, B[p], i) = SentAt(t, B[m], j)
  BY <1>2 DEF IsBit
<1>5. p = m /\ i = j
  BY <1>3, <1>4, PlacesDiffer, ZenonT(30)
<1> QED BY <1>2, <1>5

(* A symbol that stands at bit i is the one that the deinterleaver takes   *)
(* from there.                                                             *)
LEMMA SymbolAt ==
  ASSUME NEW c, c.type \in DOMAIN Blk, NEW k, NEW i, IsSymbol(c, k, i),
         NEW j, IF Blk[c.type].a = 0 THEN j = i
                ELSE j \in 1..Len345(c.type) /\ BlockInterl(Len345(c.type), Blk[c.type].a, j) = i
  PROVE  k = IF Blk[c.type].a = 0 THEN j ELSE Punctured(j)
<1>1. CASE c.type = "BBK"
  BY <1>1, BlkParams DEF IsSymbol
<1>2. CASE c.type # "BBK"
  <2>1. Blk[c.type].a # 0
    BY <1>2, BlkParams
  <2>2. PICK x \in 1..Len345(c.type) :
          BlockInterl(Len345(c.type), Blk[c.type].a, x) = i /\ k = Punctured(x)
    BY <1>2 DEF IsSymbol
  <2>3. i \in 1..Len345(c.type)
    BY DEF IsSymbol
  <2>4. x = j
    BY <1>2, <2>1, <2>2, <2>3, InterleaverInverts
  <2> QED BY <2>1, <2>2, <2>4
<1> QED BY <1>1, <1>2

LEMMA AddedTwice ==
  ASSUME NEW b \in 0..1, NEW l \in 0..1
  PROVE  (((b + l) % 2) + l) % 2 = b
OBVIOUS

(* One bit is received.                                                    *)
LEMMA UndoReceive ==
  ASSUME CodingInv, UndoInv, Receive
  PROVE  UndoInv'
<1> DEFINE c == Head(calls)
           K == Len345(c.type)
           a == Par.a
           B == Blocks[train]
           p == Len(B) - Len(calls) + 1
           from == IF a = 0 THEN {n + 1} ELSE Type3At(n + 1)
           got(j, r) == [call |-> c, k |-> IF a = 0 THEN j ELSE Punctured(j), in |-> r.sent,
                         bit |-> (r.sent + LfsrBit(lfsr)) % 2, of |-> r]
           new == {got(j, r) : j \in from, r \in {x \in air : x.pos = TakenFrom(train, c, n + 1)}}
<1>1. /\ phase = "receive" /\ phase' = phase /\ calls # <<>> /\ calls' = calls
      /\ n < Par.type345 /\ n' = n + 1 /\ lfsr' = LfsrNext(lfsr) /\ heard' = new
      /\ UNCHANGED <<train, cell, one, air, type4>>
  BY DEF Receive, InPhase, NotTests
<1>2. n < K /\ a = Blk[c.type].a
  BY <1>1 DEF Par, Len345
<1> HIDE DEF a
<1>3. /\ InBurst /\ InBurst' /\ c \in CallType /\ c.type \in DOMAIN Blk /\ calls \in Seq(CallType)
      /\ train \in DOMAIN Blocks
  BY <1>1, ParOfBurst DEF CodingInv, InBurst, Typed
<1>4. n \in 0..431 /\ n + 1 \in 1..K /\ n + 1 \in Nat \ {0} /\ (n + 1) - 1 = n
  <2>1. n \in 0..K
    BY <1>1, <1>3 DEF CodingInv, CallsOK, Par, Len345
  <2>2. K \in Nat /\ K <= 432
    BY <1>3, BlkParams DEF Len345
  <2> HIDE DEF K
  <2>3. n < K
    BY <1>2
  <2> QED BY <2>1, <2>2, <2>3
<1>5. PICK run \in Runs, out \in Counts :
        OnTheAir(air, train, cell, one, run, out) /\ Stage(train, calls, phase, n, lfsr, run, out)
  BY <1>3 DEF UndoInv
<1>6. p \in 1..Len(B) /\ c = B[p]
  BY <1>1, <1>3, <1>5, CallAtStage
<1>7. /\ \A k \in 1..Len(calls) : calls[k] = B[(p - 1) + k]
      /\ p - 1 = Len(B) - Len(calls) /\ p - 1 >= 0
      /\ \A m \in 1..Len(B) : out[m] = Len345(B[m].type)
      /\ run[p][n] = lfsr
  <2>1. Len(calls) \in Nat /\ Len(B) \in 1..3
    BY <1>3, BlocksAre, LenProperties
  <2>2. (Len(B) - Len(calls)) + 1 = p /\ p - 1 = Len(B) - Len(calls)
    BY <2>1
  <2> HIDE DEF p, c, K
  <2> QED BY <1>1, <1>5, <2>2 DEF Stage
<1> HIDE DEF p
<1>8. TakenFrom(train, c, n + 1) = SentAt(train, B[p], n + 1)
  <2>1. c.type = "NDB" => c.blk \in 1..2
    <3> HIDE DEF c
    <3>1. CASE train = "SYNC"
      <4>1. B = <<Call("SB1", 1), Call("BBK", 0), Call("SB2", 2)>> /\ p \in 1..3
        BY <1>3, <1>6, <3>1, BlocksAre
      <4> QED BY <1>6, <4>1 DEF Call
    <3>2. CASE train = "NORM_2"
      <4>1. B = <<Call("BBK", 0), Call("NDB", 1), Call("NDB", 2)>> /\ p \in 1..3
        BY <1>3, <1>6, <3>2, BlocksAre
      <4> QED BY <1>6, <4>1 DEF Call
    <3>3. CASE train = "NORM_1"
      <4>1. B = <<Call("BBK", 0), Call("SCH_F", 0)>> /\ p \in 1..2
        BY <1>3, <1>6, <3>3, BlocksAre
      <4> QED BY <1>6, <4>1 DEF Call
    <3> QED BY <1>3, <3>1, <3>2, <3>3, BlocksAre
  <2>2. TakenFrom(train, c, n + 1) = SentAt(train, c, n + 1)
    <3> HIDE DEF c, B, K
    <3> QED BY <1>3, <1>4, <2>1, TakenWhereSent
  <2> QED BY <1>6, <2>2
<1>9. ASSUME NEW r \in air, r.pos = TakenFrom(train, c, n + 1)
      PROVE  IsBit(r, train, c, n + 1, lfsr, one)
  <2>1. r.pos = SentAt(train, B[p], n + 1) /\ n + 1 \in 1..Len345(B[p].type)
    BY <1>4, <1>6, <1>8, <1>9
  <2>2. IsBit(r, train, B[p], n + 1, run[p][(n + 1) - 1], one)
    <3> HIDE DEF c, K
    <3> QED BY <1>3, <1>5, <1>6, <2>1, BitAtPlace, ZenonT(30)
  <2>3. run[p][(n + 1) - 1] = lfsr
    BY <1>4, <1>7
  <2> HIDE DEF c, K, B
  <2> QED BY <1>6, <2>2, <2>3
<1>10. ASSUME NEW h \in new
      PROVE  /\ h.of.call = h.call /\ h.of.k = h.k /\ h.bit = h.of.bit
             /\ h.call.type = "BBK" /\ h.k <= 14 => h.bit = IF h.k = one THEN 1 ELSE 0
  <2>1. PICK j \in from, r \in air : r.pos = TakenFrom(train, c, n + 1) /\ h = got(j, r)
    OBVIOUS
  <2>2. IsBit(r, train, c, n + 1, lfsr, one)
    BY <1>9, <2>1
  <2>3. h.call = c /\ h.k = (IF a = 0 THEN j ELSE Punctured(j)) /\ h.of = r
        /\ h.bit = (r.sent + LfsrBit(lfsr)) % 2
    BY <2>1
  <2>4. IF a = 0 THEN j = n + 1 ELSE j \in 1..K /\ BlockInterl(K, a, j) = n + 1
    <3>1. CASE a = 0 BY <3>1
    <3>2. CASE a # 0
      <4>1. j \in Type3At(n + 1)
        BY <2>1, <3>2
      <4> QED BY <1>2, <3>2, <4>1 DEF Type3At, Par, Len345
    <3> QED BY <3>1, <3>2
  <2> HIDE DEF new, got, from
  <2>5. r.k = IF a = 0 THEN j ELSE Punctured(j)
    <3>1. IsSymbol(c, r.k, n + 1)
      BY <2>2 DEF IsBit
    <3> HIDE DEF c
    <3> QED BY <1>3, <1>2, <2>4, <3>1, SymbolAt
  <2>6. h.bit = r.bit
    <3>1. r.bit \in 0..1 /\ r.sent = (r.bit + LfsrBit(lfsr)) % 2
      BY <2>2 DEF IsBit
    <3> QED BY <2>3, <3>1, AddedTwice, LfsrBitIsBit
  <2> HIDE DEF a, c
  <2> QED BY <2>2, <2>3, <2>5, <2>6 DEF IsBit, Payload
<1>11. new # {}
  <2>1. \E j : j \in from
    <3>1. CASE a = 0 BY <3>1
    <3>2. CASE a # 0
      <4>1. c.type # "BBK"
        BY <1>3, <1>2, <3>2, BlkParams
      <4>2. PICK j \in 1..K : BlockInterl(K, a, j) = n + 1
        BY <1>3, <1>4, <1>2, <4>1, InterleaverInverts
      <4>3. j \in Type3At(n + 1)
        BY <1>2, <4>2 DEF Type3At, Par, Len345
      <4> QED BY <3>2, <4>3
    <3> QED BY <3>1, <3>2
  <2>2. PICK j : j \in from
    BY <2>1
  <2>3. PICK r \in air : r.pos = TakenFrom(train, c, n + 1)
    <3>1. n + 1 \in 1..out[p]
      BY <1>4, <1>6, <1>7
    <3>2. \E r \in air : r.pos = SentAt(train, B[p], n + 1)
      BY <1>5, <1>6, <3>1 DEF OnTheAir
    <3> HIDE DEF c, B, K
    <3> QED BY <1>8, <3>2
  <2>4. got(j, r) \in new
    <3> HIDE DEF from, c, K, a
    <3> QED BY <2>2, <2>3
  <2> HIDE DEF new
  <2> QED BY <2>4
<1> HIDE DEF new
<1>12. SymbolsReturn'
  <2> HIDE DEF c, K, B
  <2> QED BY <1>1, <1>10, <1>11 DEF SymbolsReturn, DataBit
<1>13. Stage(train', calls', phase', n', lfsr', run, out)
  <2>1. run[p][n + 1] = LfsrNext(lfsr)
    <3>1. n < out[p]
      <4>1. out[p] = K /\ n < K
        BY <1>2, <1>6, <1>7
      <4> HIDE DEF K
      <4> QED BY <4>1
    <3> HIDE DEF c, K
    <3> QED BY <1>4, <1>5, <1>6, <1>7, <3>1 DEF OnTheAir
  <2>2. p - 1 = Len(Blocks[train']) - Len(calls') /\ (p - 1) + 1 = p
    <3>1. p \in Int
      BY <1>3, <1>6, BlocksAre
    <3> QED BY <1>1, <1>7, <3>1
  <2> HIDE DEF c, K
  <2> QED BY <1>1, <1>7, <2>1, <2>2, Zenon DEF Stage
<1>14. OnTheAir(air', train', cell', one', run, out)
  BY <1>1, <1>5
<1> QED BY <1>1, <1>3, <1>5, <1>12, <1>13, <1>14 DEF UndoInv

(* Outside of a burst nothing is on the air.                               *)
LEMMA UndoIdle ==
  ASSUME UndoInv, Puncture \/ NextTest \/ Reorder
  PROVE  UndoInv'
<1>1. /\ phase \in {"puncture", "speech"} /\ phase' = phase
      /\ UNCHANGED <<air, type4>>
  BY Zenon DEF Puncture, NextTest, Reorder, TestSucceeds, InPhase, coding
<1> QED BY <1>1 DEF UndoInv, InBurst, SymbolsReturn

LEMMA UndoInit ==
  ASSUME Init
  PROVE  UndoInv
<1>1. phase \in {"puncture", "speech"} /\ air = {} /\ type4 = {}
  BY DEF Init
<1> QED BY <1>1 DEF UndoInv, InBurst, SymbolsReturn

LEMMA UndoStep ==
  ASSUME CodingInv, UndoInv, [Next]_vars
  PROVE  UndoInv'
<1>1. CASE UNCHANGED vars
  <2>1. UNCHANGED <<train, cell, one, phase, calls, n, type4, lfsr, air, heard>>
    BY <1>1, Zenon DEF vars, coding
  <2>2. InBurst' = InBurst /\ SymbolsReturn' = SymbolsReturn
    BY <2>1, Zenon DEF InBurst, SymbolsReturn, DataBit
  <2> QED BY <2>1, <2>2, Zenon DEF UndoInv
<1>2. CASE Next
  BY <1>2, UndoIdle, UndoStart, UndoEncode, UndoEncodeAach, UndoStartScramble, UndoScramble,
     UndoEndBlock, UndoReceive, UndoNextCall DEF Next
<1> QED BY <1>1, <1>2

LEMMA UndoInvariant == Spec => []UndoInv
BY CodingInvariant, UndoInit, UndoStep, PTL DEF Spec

-----------------------------------------------------------------------------
(* Puncturing: no symbol of the mother code is sent twice.                 *)
Regular(pu) ==
  /\ Len(pu.P) \in {3, 6, 9, 17} /\ pu.period \in {6, 8, 12, 24} /\ pu.group \in {0, 35, 65}
  /\ \A r \in 1..Len(pu.P) : pu.P[r] \in 1..(pu.period)
  /\ \A r, s \in 1..Len(pu.P) : r < s => pu.P[r] < pu.P[s]

LEMMA TestsAreRegular ==
  ASSUME NEW t \in Range(PunctTests)
  PROVE  Regular(t.pu)
<1>1. PICK k \in 1..9 : t = PunctTests[k]
  BY TestsAre
<1>2. CASE k \in {1, 2, 4, 5, 6}
  <2>1. t.pu.P = P_rate2_3 /\ t.pu.period = 8 /\ t.pu.group \in {0, 65}
    <3>1. CASE k = 1 BY <1>1, <3>1 DEF PunctTests, PunctTest, Puncturer, punct_2_3
    <3>2. CASE k = 2 BY <1>1, <3>2 DEF PunctTests, PunctTest, Puncturer, punct_2_3
    <3>3. CASE k = 4 BY <1>1, <3>3 DEF PunctTests, PunctTest, Puncturer, punct_2_3
    <3>4. CASE k = 5 BY <1>1, <3>4 DEF PunctTests, PunctTest, Puncturer, punct_2_3
    <3>5. CASE k = 6 BY <1>1, <3>5 DEF PunctTests, PunctTest, Puncturer, punct_2_3
    <3> QED BY <1>2, <3>1, <3>2, <3>3, <3>4, <3>5
  <2> QED BY <2>1 DEF Regular, P_rate2_3
<1>3. CASE k = 3
  <2>1. t.pu.P = P_rate1_3 /\ t.pu.period = 8 /\ t.pu.group = 35
    BY <1>1, <1>3 DEF PunctTests, PunctTest, Puncturer
  <2> QED BY <2>1 DEF Regular, P_rate1_3
<1>4. CASE k = 7
  <2>1. t.pu.P = P_rate8_12 /\ t.pu.period = 6 /\ t.pu.group = 0
    BY <1>1, <1>4 DEF PunctTests, PunctTest, Puncturer
  <2> QED BY <2>1 DEF Regular, P_rate8_12
<1>5. CASE k = 8
  <2>1. t.pu.P = P_rate8_18 /\ t.pu.period = 12 /\ t.pu.group = 0
    BY <1>1, <1>5 DEF PunctTests, PunctTest, Puncturer
  <2> QED BY <2>1 DEF Regular, P_rate8_18
<1>6. CASE k = 9
  <2>1. t.pu.P = P_rate8_17 /\ t.pu.period = 24 /\ t.pu.group = 0
    BY <1>1, <1>6 DEF PunctTests, PunctTest, Puncturer
  <2>2. \A r \in 1..17 : P_rate8_17[r] = IF r <= 4 THEN r ELSE r + (r - 4) \div 2
    BY DEF P_rate8_17
  <2>3. \A r, s \in 1..17 : r < s => P_rate8_17[r] < P_rate8_17[s]
    BY <2>2
  <2>4. \A r \in 1..17 : P_rate8_17[r] \in 1..24
    BY <2>2
  <2>5. Len(P_rate8_17) = 17
    BY DEF P_rate8_17
  <2> QED BY <2>1, <2>3, <2>4, <2>5 DEF Regular
<1> QED BY <1>1, <1>2, <1>3, <1>4, <1>5, <1>6

LEMMA IFuncIncreases ==
  ASSUME NEW pu, pu.group \in {0, 35, 65}, NEW j \in Nat \ {0}, NEW k \in Nat \ {0}
  PROVE  IFunc(pu, j) \in Nat \ {0} /\ (j < k => IFunc(pu, j) < IFunc(pu, k))
<1>1. CASE pu.group = 0 BY <1>1 DEF IFunc
<1>2. CASE pu.group = 35 BY <1>2 DEF IFunc
<1>3. CASE pu.group = 65 BY <1>3 DEF IFunc
<1> QED BY <1>1, <1>2, <1>3

LEMMA RegularSplit ==
  ASSUME NEW pu, Regular(pu), NEW j \in Nat \ {0}
  PROVE  \E q \in Nat, r \in 1..Len(pu.P) :
           IFunc(pu, j) = Len(pu.P) * q + r /\ PuncturedBy(pu, j) = pu.period * q + pu.P[r]
<1> DEFINE i == IFunc(pu, j)
           t == Len(pu.P)
           q == (i - 1) \div t
           r == i - t * q
<1>1. PuncturedBy(pu, j) = pu.period * q + pu.P[r]
  BY DEF PuncturedBy
<1>2. i \in Nat \ {0} /\ t \in {3, 6, 9, 17}
  BY IFuncIncreases DEF Regular
<1> HIDE DEF i, t
<1>3. q \in Nat /\ r \in 1..t /\ i = t * q + r
  BY <1>2, PeriodAndPlace
<1> HIDE DEF q, r
<1>4. \E y \in Nat, z \in 1..t : i = t * y + z /\ PuncturedBy(pu, j) = pu.period * y + pu.P[z]
  BY <1>1, <1>3
<1> QED BY <1>4 DEF i, t

(* The symbols are sent in the order of the mother code.                   *)
LEMMA PuncturesIncrease ==
  ASSUME NEW pu, Regular(pu), NEW j \in Nat \ {0}, NEW k \in Nat \ {0}, j < k
  PROVE  /\ PuncturedBy(pu, j) \in Nat /\ PuncturedBy(pu, k) \in Nat
         /\ PuncturedBy(pu, j) < PuncturedBy(pu, k)
<1> DEFINE t == Len(pu.P)
           per == pu.period
           v == IFunc(pu, j)
           w == IFunc(pu, k)
           x == PuncturedBy(pu, j)
           y == PuncturedBy(pu, k)
<1>1. t \in {3, 6, 9, 17} /\ per \in {6, 8, 12, 24}
  BY DEF Regular
<1>2. v \in Nat \ {0} /\ w \in Nat \ {0} /\ v < w
  BY IFuncIncreases DEF Regular
<1>3. PICK q \in Nat, r \in 1..t : v = t * q + r /\ x = per * q + pu.P[r]
  BY RegularSplit, Zenon
<1>4. PICK u \in Nat, s \in 1..t : w = t * u + s /\ y = per * u + pu.P[s]
  BY RegularSplit, Zenon
<1> DEFINE a == pu.P[r]
           b == pu.P[s]
<1>5. a \in 1..per /\ b \in 1..per /\ (r < s => a < b)
  BY DEF Regular
<1>6. x = per * q + a /\ y = per * u + b
  BY <1>3, <1>4
<1> HIDE DEF t, per, v, w, x, y, a, b
<1>7. q < u \/ (q = u /\ r < s)
  <2>1. CASE t = 3 BY <1>2, <1>3, <1>4, <2>1
  <2>2. CASE t = 6 BY <1>2, <1>3, <1>4, <2>2
  <2>3. CASE t = 9 BY <1>2, <1>3, <1>4, <2>3
  <2>4. CASE t = 17 BY <1>2, <1>3, <1>4, <2>4
  <2> QED BY <1>1, <2>1, <2>2, <2>3, <2>4
<1>8. x \in Nat /\ y \in Nat /\ x < y
  <2>1. CASE per = 6 BY <1>5, <1>6, <1>7, <2>1
  <2>2. CASE per = 8 BY <1>5, <1>6, <1>7, <2>2
  <2>3. CASE per = 12 BY <1>5, <1>6, <1>7, <2>3
  <2>4. CASE per = 24 BY <1>5, <1>6, <1>7, <2>4
  <2> QED BY <1>1, <2>1, <2>2, <2>3, <2>4
<1> QED BY <1>8 DEF x, y

(* A test has back as many symbols as it tried.                            *)
TestInv ==
  phase = "puncture" =>
    /\ IsFiniteSet(depunct) /\ Cardinality(depunct) = n
    /\ \A d \in depunct : \E j \in 1..n : d = PuncturedBy(Head(calls).pu, j)

LEMMA TestPuncture ==
  ASSUME CodingInv, TestInv, Puncture
  PROVE  TestInv'
<1> DEFINE pu == Head(calls).pu
           new == PuncturedBy(pu, n + 1)
<1>1. /\ phase = "puncture" /\ phase' = phase /\ calls' = calls /\ n' = n + 1 /\ depunct' = depunct \cup {new}
      /\ calls \in Seq(Range(PunctTests)) /\ calls # <<>> /\ n \in 0..(Head(calls).type3)
  BY DEF CodingInv, CallsOK, Puncture, InPhase
<1>2. Head(calls) \in Range(PunctTests)
  BY <1>1, TailOfCalls
<1>3. n \in Nat
  <2>1. Head(calls).type3 \in Nat
    BY <1>2, PuncturesInBounds
  <2> QED BY <1>1, <2>1
<1>4. Regular(pu)
  BY <1>2, TestsAreRegular
<1>5. /\ IsFiniteSet(depunct) /\ Cardinality(depunct) = n
      /\ \A d \in depunct : \E j \in 1..n : d = PuncturedBy(pu, j)
  BY <1>1 DEF TestInv
<1> HIDE DEF pu
<1>6. new \notin depunct
  <2> SUFFICES ASSUME new \in depunct
               PROVE  FALSE
    OBVIOUS
  <2>1. PICK j \in 1..n : new = PuncturedBy(pu, j)
    BY <1>5
  <2>2. j \in Nat \ {0} /\ n + 1 \in Nat \ {0} /\ j < n + 1
    BY <1>3
  <2>3. PuncturedBy(pu, j) \in Nat /\ PuncturedBy(pu, j) < new
    BY <1>4, <2>2, PuncturesIncrease
  <2> HIDE DEF new
  <2> QED BY <2>1, <2>3
<1>7. IsFiniteSet(depunct') /\ Cardinality(depunct') = n + 1
  BY <1>1, <1>5, <1>6, FS_AddElement
<1>8. \A d \in depunct' : \E j \in 1..(n + 1) : d = PuncturedBy(pu, j)
  <2> SUFFICES ASSUME NEW d \in depunct'
               PROVE  \E j \in 1..(n + 1) : d = PuncturedBy(pu, j)
    OBVIOUS
  <2>1. \A j \in 1..n : j \in 1..(n + 1)
    BY <1>3
  <2>2. n + 1 \in 1..(n + 1)
    BY <1>3
  <2> QED BY <1>1, <1>5, <2>1, <2>2
<1> QED BY <1>1, <1>7, <1>8 DEF TestInv, pu

LEMMA TestInit ==
  ASSUME Init
  PROVE  TestInv
<1>1. n = 0 /\ depunct = {}
  BY DEF Init
<1> QED BY <1>1, FS_EmptySet DEF TestInv

LEMMA TestStep ==
  ASSUME CodingInv, TestInv, [Next]_vars
  PROVE  TestInv'
<1>1. CASE UNCHANGED vars
  <2>1. UNCHANGED <<phase, calls, n, depunct>>
    BY <1>1, Zenon DEF vars
  <2> QED BY <2>1, Zenon DEF TestInv
<1>2. CASE NextTest
  <2>1. n' = 0 /\ depunct' = {}
    BY <1>2 DEF NextTest
  <2> QED BY <2>1, FS_EmptySet DEF TestInv
<1>3. CASE StartBurst \/ Reorder \/ Encode \/ EncodeAach \/ StartScramble \/ Scramble \/ EndBlock \/ Receive \/ NextCall
  <2>1. CASE StartBurst \/ StartScramble \/ EndBlock
    <3>1. phase' \in {"encode", "scramble", "receive"}
      BY <2>1 DEF StartBurst, StartScramble, EndBlock
    <3> QED BY <3>1 DEF TestInv
  <2>2. CASE Reorder \/ Encode \/ EncodeAach \/ Scramble \/ Receive \/ NextCall
    <3>1. phase' = phase /\ phase \in {"speech", "encode", "scramble", "receive"}
      BY <2>2 DEF Reorder, Encode, EncodeAach, Scramble, Receive, NextCall, InPhase
    <3> QED BY <3>1 DEF TestInv
  <2> QED BY <1>3, <2>1, <2>2
<1> QED BY <1>1, <1>2, <1>3, TestPuncture DEF Next

LEMMA TestInvariant == Spec => []TestInv
BY CodingInvariant, TestInit, TestStep, PTL DEF Spec

-----------------------------------------------------------------------------
(* The order of the bits of a speech frame.                                *)

(* Where each place, from 0, is in the three tables.                       *)
IndexOf ==
  << 51, 118, 119, 120, 121, 71, 82, 84, 74, 122, 123, 124, 125, 72, 83, 85, 75, 76, 108, 109,
     110, 111, 77, 78, 79, 80, 81, 126, 127, 128, 129, 112, 113, 97, 73, 1, 2, 3, 4, 5, 6, 7, 8,
     0, 93, 63, 89, 10, 11, 98, 59, 134, 130, 114, 55, 67, 12, 105, 52, 102, 86, 13, 14, 15, 0,
     16, 17, 18, 19, 20, 21, 94, 64, 90, 22, 23, 99, 60, 135, 131, 115, 56, 68, 24, 106, 53, 103,
     87, 25, 26, 27, 28, 29, 30, 31, 32, 33, 34, 95, 65, 91, 35, 36, 100, 61, 136, 132, 116, 57,
     69, 37, 107, 54, 104, 88, 38, 39, 40, 41, 42, 43, 44, 45, 46, 47, 96, 66, 92, 48, 49, 101,
     62, 137, 133, 117, 58, 70, 50 >>

LEMMA Tables ==
  /\ Len(Class0) = 51 /\ Len(Class1) = 56 /\ Len(Class2) = 30
  /\ Class0 \in Seq(Int) /\ Class1 \in Seq(Int) /\ Class2 \in Seq(Int)
<1>1. Len(Class0) = 51 /\ Class0 \in Seq(Int)
  BY DEF Class0
<1>2. Len(Class1) = 56 /\ Class1 \in Seq(Int)
  BY DEF Class1
<1>3. Len(Class2) = 30 /\ Class2 \in Seq(Int)
  BY DEF Class2
<1> QED BY <1>1, <1>2, <1>3

(* The tables, one behind the other.                                       *)
Behind(r, p, q) ==
  /\ r \in Seq(Int) /\ Len(r) = Len(p) + Len(q)
  /\ \A i \in 1..Len(p) : r[i] = p[i]
  /\ \A i \in 1..Len(q) : r[Len(p) + i] = q[i]

LEMMA Joined ==
  ASSUME NEW p \in Seq(Int), NEW q \in Seq(Int)
  PROVE  Behind(p \o q, p, q)
<1> DEFINE r == p \o q
           a == Len(p)
           b == Len(q)
<1>1. r \in Seq(Int) /\ Len(r) = a + b /\ a \in Nat /\ b \in Nat
  BY ConcatProperties, LenProperties
<1>2. \A i \in 1..(a + b) : r[i] = IF i <= a THEN p[i] ELSE q[i - a]
  BY ConcatProperties
<1> HIDE DEF r, a, b
<1>3. \A i \in 1..a : r[i] = p[i]
  BY <1>1, <1>2
<1>4. ASSUME NEW i \in 1..b
      PROVE  r[a + i] = q[i]
  <2>1. a + i \in 1..(a + b) /\ ~(a + i <= a) /\ (a + i) - a = i
    BY <1>1
  <2> QED BY <1>2, <2>1
<1> QED BY <1>1, <1>3, <1>4 DEF r, a, b, Behind

LEMMA PositionsOf ==
  /\ \A i \in 1..51 : Positions[i] = Class0[i]
  /\ \A i \in 1..56 : Positions[51 + i] = Class1[i]
  /\ \A i \in 1..30 : Positions[107 + i] = Class2[i]
<1> DEFINE C == Class0 \o Class1
           k == 51
           l == 56
           m == 30
<1>1. k \in Nat /\ l \in Nat /\ m \in Nat /\ k + l = 107
  OBVIOUS
<1>2. Len(Class0) = k /\ Len(Class1) = l /\ Len(Class2) = m
  BY Tables
<1> HIDE DEF k, l, m
<1>3. /\ C \in Seq(Int) /\ Len(C) = k + l
      /\ \A i \in 1..k : C[i] = Class0[i]
      /\ \A i \in 1..l : C[k + i] = Class1[i]
  <2>1. Behind(C, Class0, Class1)
    BY Tables, Joined
  <2> QED BY <1>2, <2>1, Zenon DEF Behind
<1> HIDE DEF C
<1>4. /\ \A i \in 1..(k + l) : (C \o Class2)[i] = C[i]
      /\ \A i \in 1..m : (C \o Class2)[(k + l) + i] = Class2[i]
  <2>1. Behind(C \o Class2, C, Class2)
    BY <1>3, Tables, Joined
  <2> QED BY <1>2, <1>3, <2>1, Zenon DEF Behind
<1>5. Positions = C \o Class2
  BY DEF Positions, C
<1>6. \A i \in 1..k : i \in 1..(k + l)
  BY <1>1
<1>7. \A i \in 1..l : k + i \in 1..(k + l)
  BY <1>1
<1>8. /\ \A i \in 1..k : Positions[i] = Class0[i]
      /\ \A i \in 1..l : Positions[k + i] = Class1[i]
      /\ \A i \in 1..m : Positions[(k + l) + i] = Class2[i]
  BY <1>3, <1>4, <1>5, <1>6, <1>7, Zenon
<1> QED BY <1>1, <1>8 DEF k, l, m

(* Every entry is a place; but for one, no other entry names the same, and *)
(* two places have none.                                                   *)
LEMMA PositionsAre ==
  ASSUME NEW i \in 1..137
  PROVE  /\ Positions[i] \in 0..137 /\ Positions[i] \notin {43, 64}
         /\ IndexOf[Positions[i] + 1] = IF i = 9 THEN 97 ELSE i
<1>1. CASE i \in 1..51
  <2>1. /\ Class0[i] \in 0..137 /\ Class0[i] \notin {43, 64}
        /\ IndexOf[Class0[i] + 1] = IF i = 9 THEN 97 ELSE i
    BY <1>1 DEF Class0, IndexOf
  <2> QED BY <1>1, <2>1, PositionsOf
<1>2. CASE i \in 52..107
  <2> DEFINE k == i - 51
  <2>1. k \in 1..56 /\ i = 51 + k
    BY <1>2
  <2> HIDE DEF k
  <2>2. /\ Class1[k] \in 0..137 /\ Class1[k] \notin {43, 64}
        /\ IndexOf[Class1[k] + 1] = 51 + k
    BY <2>1 DEF Class1, IndexOf
  <2>3. Positions[i] = Class1[k] /\ i # 9
    BY <2>1, PositionsOf
  <2> QED BY <2>1, <2>2, <2>3
<1>3. CASE i \in 108..137
  <2> DEFINE k == i - 107
  <2>1. k \in 1..30 /\ i = 107 + k
    BY <1>3
  <2> HIDE DEF k
  <2>2. /\ Class2[k] \in 0..137 /\ Class2[k] \notin {43, 64}
        /\ IndexOf[Class2[k] + 1] = 107 + k
    BY <2>1 DEF Class2, IndexOf
  <2>3. Positions[i] = Class2[k] /\ i # 9
    BY <2>1, PositionsOf
  <2> QED BY <2>1, <2>2, <2>3
<1> QED BY <1>1, <1>2, <1>3

LEMMA IndexIs ==
  ASSUME NEW v \in 0..137, v \notin {43, 64}
  PROVE  IndexOf[v + 1] \in 1..137 /\ Positions[IndexOf[v + 1]] = v
<1> DEFINE i == IndexOf[v + 1]
<1>1. \/ i \in 1..51 /\ Class0[i] = v
      \/ i \in 52..107 /\ Class1[i - 51] = v
      \/ i \in 108..137 /\ Class2[i - 107] = v
  BY DEF IndexOf, Class0, Class1, Class2
<1> HIDE DEF i
<1>2. CASE i \in 1..51 /\ Class0[i] = v
  BY <1>2, PositionsOf DEF i
<1>3. CASE i \in 52..107 /\ Class1[i - 51] = v
  <2>1. i - 51 \in 1..56 /\ 51 + (i - 51) = i /\ i \in 1..137
    BY <1>3
  <2> QED BY <1>3, <2>1, PositionsOf DEF i
<1>4. CASE i \in 108..137 /\ Class2[i - 107] = v
  <2>1. i - 107 \in 1..30 /\ 107 + (i - 107) = i /\ i \in 1..137
    BY <1>4
  <2> QED BY <1>4, <2>1, PositionsOf DEF i
<1> QED BY <1>1, <1>2, <1>3, <1>4

(* The bits of the two frames alternate.                                   *)
LEMMA CodecSplit ==
  ASSUME NEW h \in 0..1, NEW i \in 1..137
  PROVE  2 * i - 1 + h \in 1..274 /\ CodecPlace(2 * i - 1 + h) = h * 137 + Positions[i]
<1> DEFINE b == 2 * i - 1 + h
<1>1. b \in 1..274 /\ (b - 1) % 2 = h /\ 1 + ((b - 1) \div 2) = i
  OBVIOUS
<1> HIDE DEF b
<1>2. CodecPlace(b) = h * 137 + Positions[i]
  BY <1>1 DEF CodecPlace
<1> QED BY <1>1, <1>2 DEF b

LEMMA FrameAndEntry ==
  ASSUME NEW b \in 1..274
  PROVE  \E h \in 0..1, i \in 1..137 : b = 2 * i - 1 + h /\ CodecPlace(b) = h * 137 + Positions[i]
<1> DEFINE h == (b - 1) % 2
           i == 1 + ((b - 1) \div 2)
<1>1. h \in 0..1 /\ i \in 1..137 /\ b = 2 * i - 1 + h
  OBVIOUS
<1>2. CodecPlace(b) = h * 137 + Positions[i]
  BY DEF CodecPlace
<1> HIDE DEF h, i
<1> QED BY <1>1, <1>2

LEMMA CodecUsed ==
  ASSUME NEW b \in 1..274
  PROVE  CodecPlace(b) \in 0..274 /\ CodecPlace(b) \notin {43, 64, 137 + 43, 137 + 64}
<1>1. PICK h \in 0..1, i \in 1..137 : CodecPlace(b) = h * 137 + Positions[i]
  BY FrameAndEntry
<1> DEFINE v == Positions[i]
           x == CodecPlace(b)
<1>2. v \in 0..137 /\ v \notin {43, 64} /\ x = h * 137 + v
  BY <1>1, PositionsAre
<1> HIDE DEF v, x
<1>3. x \in 0..274 /\ x \notin {43, 64, 137 + 43, 137 + 64}
  BY <1>2
<1> QED BY <1>3 DEF x

LEMMA CodecFilled ==
  ASSUME NEW p \in 1..274, p \notin {43, 64, 137 + 43, 137 + 64}
  PROVE  \E b \in 1..274 : CodecPlace(b) = p
<1>1. PICK h \in 0..1, v \in 0..137 : p = h * 137 + v /\ v \notin {43, 64}
  <2>1. CASE p <= 137
    <3>1. p = 0 * 137 + p /\ p \in 0..137 /\ p \notin {43, 64} /\ 0 \in 0..1
      BY <2>1
    <3> QED BY <3>1
  <2>2. CASE p > 137
    <3> DEFINE v == p - 137
    <3>1. p = 1 * 137 + v /\ v \in 0..137 /\ v \notin {43, 64} /\ 1 \in 0..1
      BY <2>2
    <3> HIDE DEF v
    <3> QED BY <3>1
  <2> QED BY <2>1, <2>2
<1>2. PICK i \in 1..137 : Positions[i] = v
  BY <1>1, IndexIs
<1>3. 2 * i - 1 + h \in 1..274 /\ CodecPlace(2 * i - 1 + h) = h * 137 + v
  BY <1>2, CodecSplit
<1> QED BY <1>1, <1>3

(* Which entries are zero, and which name the last place of a frame.       *)
LEMMA EntriesAtEnds ==
  ASSUME NEW i \in 1..137
  PROVE  /\ Positions[i] = 0 => i = 51
         /\ Positions[i] = 137 => i = 50
<1>1. IndexOf[0 + 1] = 51 /\ IndexOf[137 + 1] = 50
  BY DEF IndexOf
<1>2. IndexOf[Positions[i] + 1] = IF i = 9 THEN 97 ELSE i
  BY PositionsAre
<1> QED BY <1>1, <1>2

(* Of two type-2 bits that are put at the same place, the first is one of  *)
(* three.                                                                  *)
LEMMA CodecOnce ==
  ASSUME NEW b \in 1..274, NEW c \in 1..274, b < c, CodecPlace(b) = CodecPlace(c)
  PROVE  b \in {17, 18, 99}
<1>1. PICK h \in 0..1, i \in 1..137 : b = 2 * i - 1 + h /\ CodecPlace(b) = h * 137 + Positions[i]
  BY FrameAndEntry
<1>2. PICK g \in 0..1, k \in 1..137 : c = 2 * k - 1 + g /\ CodecPlace(c) = g * 137 + Positions[k]
  BY FrameAndEntry
<1> DEFINE v == Positions[i]
           w == Positions[k]
<1>3. v \in 0..137 /\ w \in 0..137 /\ h * 137 + v = g * 137 + w
  BY <1>1, <1>2, PositionsAre
<1>4. /\ v = 0 => i = 51
      /\ v = 137 => i = 50
      /\ w = 0 => k = 51
      /\ w = 137 => k = 50
  BY EntriesAtEnds
<1>5. v = w => i = k \/ {i, k} = {9, 97}
  <2>1. IndexOf[v + 1] = (IF i = 9 THEN 97 ELSE i) /\ IndexOf[w + 1] = (IF k = 9 THEN 97 ELSE k)
    BY PositionsAre
  <2> HIDE DEF v, w
  <2> QED BY <2>1
<1> HIDE DEF v, w
<1>6. \/ h = g /\ v = w
      \/ h = 0 /\ g = 1 /\ v = 137 /\ w = 0
      \/ h = 1 /\ g = 0 /\ v = 0 /\ w = 137
  BY <1>3
<1>7. CASE h = g /\ v = w
  <2>1. i # k
    BY <1>1, <1>2, <1>7
  <2>2. (i = 9 /\ k = 97) \/ (i = 97 /\ k = 9)
    BY <1>5, <1>7, <2>1
  <2> QED BY <1>1, <1>2, <1>7, <2>2
<1>8. CASE h = 0 /\ g = 1 /\ v = 137 /\ w = 0
  BY <1>1, <1>4, <1>8
<1>9. CASE h = 1 /\ g = 0 /\ v = 0 /\ w = 137
  BY <1>1, <1>2, <1>4, <1>9
<1> QED BY <1>6, <1>7, <1>8, <1>9

LEMMA CodecTwice ==
  /\ CodecPlace(17) = 33 /\ CodecPlace(193) = 33 /\ CodecPlace(18) = 170 /\ CodecPlace(194) = 170
  /\ CodecPlace(99) = 137 /\ CodecPlace(102) = 137
<1>1. Class0[9] = 33 /\ Class0[50] = 137 /\ Class0[51] = 0 /\ Class1[46] = 33
  BY DEF Class0, Class1
<1>2. 9 \in 1..51 /\ 50 \in 1..51 /\ 51 \in 1..51 /\ 46 \in 1..56 /\ 51 + 46 = 97
  OBVIOUS
<1>3. Positions[9] = 33 /\ Positions[50] = 137 /\ Positions[51] = 0 /\ Positions[97] = 33
  BY <1>1, <1>2, PositionsOf
<1> QED BY <1>3 DEF CodecPlace

(* A codec bit that has a value has it from the last type-2 bit that goes  *)
(* there.                                                                  *)
Held(x) == codec[x] # 0 => codec[x] \in 1..n /\ CodecPlace(codec[x]) = x
Kept(b) == codec[CodecPlace(b)] >= b

SpeechInv == phase = "speech" => (\A x \in 0..274 : Held(x)) /\ (\A b \in 1..n : Kept(b))

LEMMA SpeechReorder ==
  ASSUME CodingInv, SpeechInv, Reorder
  PROVE  SpeechInv'
<1> DEFINE e == n + 1
           p == CodecPlace(e)
<1>1. /\ phase = "speech" /\ n \in 0..274 /\ n < 274 /\ n' = e
      /\ codec' = [codec EXCEPT ![p] = e] /\ codec \in CodecBits
  BY DEF CodingInv, CallsOK, Typed, Reorder
<1>2. \A b \in 1..e : b \in 1..274 /\ (b = e \/ b \in 1..n) /\ b <= e
  BY <1>1
<1>3. e \in 1..274 /\ e \in 1..e /\ e >= e
  BY <1>1
<1>4. p \in 0..274
  BY <1>3, CodecUsed
<1>5. (\A x \in 0..274 : Held(x)) /\ (\A b \in 1..n : Kept(b))
  BY <1>1 DEF SpeechInv
<1>6. \A m \in 1..n : m \in 1..e
  BY <1>1
<1>7. codec'[p] = e /\ \A x \in 0..274 : x # p => codec'[x] = codec[x]
  <2> DEFINE S == 0..274
  <2>1. codec \in [S -> S] /\ codec' = [codec EXCEPT ![p] = e] /\ p \in S
    BY <1>1, <1>4, Zenon DEF CodecBits
  <2> HIDE DEF S, p, e
  <2>2. codec'[p] = e /\ \A x \in S : x # p => codec'[x] = codec[x]
    BY <2>1
  <2> QED BY <2>2, Zenon DEF S
<1>8. p = CodecPlace(e)
  OBVIOUS
<1> HIDE DEF p, e
<1>9. ASSUME NEW x \in 0..274
      PROVE  Held(x)'
  <2>1. CASE x = p
    <3>1. codec'[x] = e /\ CodecPlace(codec'[x]) = x
      BY <1>7, <1>8, <2>1
    <3> QED BY <1>1, <1>3, <3>1 DEF Held
  <2>2. CASE x # p
    <3>1. codec'[x] = codec[x] /\ Held(x)
      BY <1>5, <1>7, <2>2
    <3> QED BY <1>1, <1>6, <3>1, Zenon DEF Held
  <2> QED BY <2>1, <2>2
<1>10. ASSUME NEW b \in 1..e
       PROVE  Kept(b)'
  <2>1. b \in 1..274 /\ (b = e \/ b \in 1..n) /\ b <= e
    BY <1>2
  <2>2. CodecPlace(b) \in 0..274
    BY <2>1, CodecUsed
  <2>3. CASE CodecPlace(b) = p
    <3>1. codec'[CodecPlace(b)] = e
      BY <1>7, <2>3
    <3> QED BY <1>3, <2>1, <3>1 DEF Kept
  <2>4. CASE CodecPlace(b) # p
    <3>1. b \in 1..n
      BY <1>8, <2>1, <2>4
    <3>2. codec'[CodecPlace(b)] = codec[CodecPlace(b)] /\ Kept(b)
      BY <1>5, <1>7, <2>2, <2>4, <3>1
    <3> QED BY <3>2, Zenon DEF Kept
  <2> QED BY <2>3, <2>4
<1> QED BY <1>1, <1>9, <1>10 DEF SpeechInv

LEMMA SpeechInit ==
  ASSUME Init
  PROVE  SpeechInv
<1>1. n = 0 /\ \A x \in 0..274 : codec[x] = 0
  BY DEF Init
<1> QED BY <1>1 DEF SpeechInv, Held, Kept

LEMMA SpeechStep ==
  ASSUME CodingInv, SpeechInv, [Next]_vars
  PROVE  SpeechInv'
<1>1. CASE UNCHANGED vars
  <2>1. UNCHANGED <<phase, n, codec>>
    BY <1>1, Zenon DEF vars
  <2> QED BY <2>1, Zenon DEF SpeechInv, Held, Kept
<1>2. CASE StartBurst \/ StartScramble \/ EndBlock
  <2>1. phase' \in {"encode", "scramble", "receive"}
    BY <1>2 DEF StartBurst, StartScramble, EndBlock
  <2> QED BY <2>1 DEF SpeechInv
<1>3. CASE Puncture \/ NextTest \/ Encode \/ EncodeAach \/ Scramble \/ Receive \/ NextCall
  <2>1. phase' = phase /\ phase \in {"puncture", "encode", "scramble", "receive"}
    BY <1>3 DEF Puncture, NextTest, TestSucceeds, Encode, EncodeAach, Scramble, Receive, NextCall, InPhase
  <2> QED BY <2>1 DEF SpeechInv
<1> QED BY <1>1, <1>2, <1>3, SpeechReorder DEF Next

LEMMA SpeechInvariant == Spec => []SpeechInv
BY CodingInvariant, SpeechInit, SpeechStep, PTL DEF Spec

(* What is at the end of a frame.                                          *)
LEMMA SpeechEnds ==
  ASSUME CodingInv, SpeechInv
  PROVE  SpeechReturns
<1> SUFFICES ASSUME phase = "speech", n = 274
             PROVE  /\ {p \in 1..274 : codec[p] = 0} = {43, 64, 137 + 43, 137 + 64}
                    /\ {b \in 1..274 : codec[CodecPlace(b)] # b} = {17, 18, 99}
  BY Zenon DEF SpeechReturns
<1>1. (\A x \in 0..274 : Held(x)) /\ (\A b \in 1..274 : Kept(b))
  BY DEF SpeechInv
<1>2. ASSUME NEW p \in 1..274
      PROVE  codec[p] = 0 <=> p \in {43, 64, 137 + 43, 137 + 64}
  <2>1. p \in 0..274 /\ Held(p)
    BY <1>1
  <2>2. CASE p \in {43, 64, 137 + 43, 137 + 64}
    <3>1. ASSUME codec[p] # 0
          PROVE  FALSE
      <4>1. codec[p] \in 1..274 /\ CodecPlace(codec[p]) = p
        BY <2>1, <3>1 DEF Held
      <4>2. p \notin {43, 64, 137 + 43, 137 + 64}
        BY <4>1, CodecUsed, Zenon
      <4> QED BY <2>2, <4>2
    <3> QED BY <2>2, <3>1
  <2>3. CASE p \notin {43, 64, 137 + 43, 137 + 64}
    <3>1. PICK b \in 1..274 : CodecPlace(b) = p
      BY <2>3, CodecFilled, Zenon
    <3>2. Kept(b)
      BY <1>1
    <3>3. codec[p] >= b
      BY <3>1, <3>2 DEF Kept
    <3> QED BY <2>3, <3>3
  <2> QED BY <2>2, <2>3
<1>3. ASSUME NEW b \in 1..274
      PROVE  codec[CodecPlace(b)] # b <=> b \in {17, 18, 99}
  <2> DEFINE x == CodecPlace(b)
             c == codec[x]
  <2>1. x \in 0..274
    BY CodecUsed, Zenon
  <2>2. Held(x) /\ Kept(b)
    BY <1>1, <2>1
  <2>3. c >= b
    BY <2>2 DEF Kept
  <2>4. c \in 0..274
    <3> DEFINE S == 0..274
    <3>1. codec \in [S -> S] /\ x \in S
      BY <2>1, Zenon DEF CodingInv, Typed, CodecBits
    <3> HIDE DEF S, x
    <3>2. codec[x] \in S
      BY <3>1, Zenon
    <3> QED BY <3>2 DEF S
  <2>5. c \in 1..274 /\ CodecPlace(c) = x
    <3>1. Held(x) => (c # 0 => c \in 1..274 /\ CodecPlace(c) = x)
      BY Zenon DEF Held
    <3> HIDE DEF c, x
    <3>2. c # 0
      BY <2>3, <2>4
    <3> QED BY <2>2, <3>1, <3>2, Zenon
  <2>6. CASE b \notin {17, 18, 99}
    <3> HIDE DEF c
    <3>1. ~(b < c)
      BY <2>5, <2>6, CodecOnce
    <3>2. c = b
      BY <2>3, <2>4, <3>1
    <3> QED BY <2>6, <3>2 DEF c
  <2>7. CASE b \in {17, 18, 99}
    <3>1. \E d \in 1..274 : d > b /\ CodecPlace(d) = x
      <4>1. 193 \in 1..274 /\ 194 \in 1..274 /\ 102 \in 1..274 /\ 193 > 17 /\ 194 > 18 /\ 102 > 99
        OBVIOUS
      <4> QED BY <2>7, <4>1, CodecTwice
    <3>2. PICK d \in 1..274 : d > b /\ CodecPlace(d) = x
      BY <3>1
    <3>3. Kept(d)
      BY <1>1
    <3>4. c >= d
      BY <3>2, <3>3 DEF Kept
    <3> HIDE DEF c, x
    <3>5. c # b
      BY <2>4, <3>2, <3>4
    <3> QED BY <2>7, <3>5 DEF c, x
  <2> QED BY <2>6, <2>7
<1>4. {p \in 1..274 : codec[p] = 0} = {43, 64, 137 + 43, 137 + 64}
  <2>1. \A p \in {43, 64, 137 + 43, 137 + 64} : p \in 1..274
    OBVIOUS
  <2> QED BY <1>2, <2>1
<1>5. {b \in 1..274 : codec[CodecPlace(b)] # b} = {17, 18, 99}
  <2>1. \A b \in {17, 18, 99} : b \in 1..274
    OBVIOUS
  <2> QED BY <1>3, <2>1
<1> QED BY <1>4, <1>5

-----------------------------------------------------------------------------
(* The receiver undoes what the sender did: no puncturer loses a symbol;   *)
(* the speech frames come back but for the three bits that the table of    *)
(* class 0 loses; and whatever cell sends, and whatever it sends, each     *)
(* symbol that the receiver gives its decoder is the one that the encoder  *)
(* of the same block made for that place of the mother code.               *)
THEOREM BurstsComeBack == Spec => []ReceiverUndoes
<1>1. ASSUME CodingInv, UndoInv, TestInv, SpeechInv
      PROVE  ReceiverUndoes
  <2>1. PuncturersInvert
    BY <1>1 DEF TestInv, PuncturersInvert
  <2>2. SpeechReturns
    BY <1>1, SpeechEnds
  <2>3. SymbolsReturn
    BY <1>1 DEF UndoInv
  <2> QED BY <2>1, <2>2, <2>3 DEF ReceiverUndoes
<1> QED BY <1>1, CodingInvariant, UndoInvariant, TestInvariant, SpeechInvariant, PTL

=============================================================================
