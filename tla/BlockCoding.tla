---------------------------- MODULE BlockCoding ----------------------------
(***************************************************************************)
(* What happens to the bits of a burst between the type-1 bits of the MAC  *)
(* and the air: CRC, convolutional or Reed-Muller code, puncturing,        *)
(* interleaving, scrambling, and the layout of bursts.  One half is the    *)
(* sending side (the encoders of conv_enc_test.c and the builders of       *)
(* phy/tetra_burst.c, with the scrambling code a base station would use),  *)
(* the other the receiver (tetra_burst_rx_cb, tp_sap_udata_ind).  Before   *)
(* that come the puncturers alone, as conv_enc_test tries them, and the    *)
(* order of the bits of a speech frame (tch_reordering.c).                 *)
(*                                                                         *)
(* A bit on its way carries its origin: the block it is of and its number  *)
(* in the mother code.  The decoder of libosmocore is external, so what is *)
(* followed at the receiver are the symbols that are put into it.  All of  *)
(* these codes are linear: payloads with at most one bit set are enough.   *)
(***************************************************************************)
EXTENDS Integers, Sequences, FiniteSets, Functions

CONSTANTS
  Ones,      \* payloads: the number of the bit that is set, 0 for none
  Cells      \* mcc, mnc and colour code of the cells that may send

ASSUME CodingAssumption ==
  /\ Ones \subseteq Nat /\ 0 \in Ones
  /\ Cells \subseteq [mcc : Nat, mnc : Nat, cc : Nat] /\ Cells # {}
  /\ \A c \in Cells : c.mcc < 1024 /\ c.mnc < 16384 /\ c.cc < 64

VARIABLES
  train,     \* the burst: SYNC, NORM_1 or NORM_2
  cell,      \* the cell that sends it
  one,       \* the payload of its blocks
  phase,     \* "puncture", "speech", "encode", "scramble", "receive"
  calls,     \* blocks, or tests of puncturers, that are left in this phase
  n,         \* bits of the first of them that are done
  crc,       \* register of crc16_itut_bits
  fcs,       \* the CRC that is appended
  delayed,   \* delay line of the encoder
  trellis,   \* state of the decoder's tables on the same bits
  type4,     \* type-4 bits that are known, by number
  lfsr,      \* the scrambler's register
  air,       \* the burst: bits that are known, by position
  depunct,   \* symbols of the mother code that a test got back
  codec,     \* codec bits of a speech frame: the type-2 bit they are, or 0
  heard      \* symbols that the last step of the receiver gave its decoder

coding == <<crc, fcs, delayed, trellis, type4, lfsr, air, heard>>
vars == <<train, cell, one, phase, calls, n, coding, depunct, codec>>

Xor(S, f) == Cardinality({s \in S : f[s] = 1}) % 2
Bit(v, b) == (v \div 2 ^ b) % 2

-----------------------------------------------------------------------------
(* tetra_blk_param; the last four of the type-2 bits flush the encoder.    *)
Blk ==
  [SB1   |-> [type345 |-> 120, type2 |-> 80,  type1 |-> 60,  a |-> 11],
   SB2   |-> [type345 |-> 216, type2 |-> 144, type1 |-> 124, a |-> 101],
   NDB   |-> [type345 |-> 216, type2 |-> 144, type1 |-> 124, a |-> 101],
   SCH_F |-> [type345 |-> 432, type2 |-> 288, type1 |-> 268, a |-> 103],
   BBK   |-> [type345 |-> 30,  type2 |-> 30,  type1 |-> 14,  a |-> 0]]

(* block_interl_func                                                       *)
BlockInterl(K, a, i) == 1 + ((a * i) % K)

(* The puncturers: P from index 1, its length t, the period, and the group *)
(* of i_func_292 and i_func_148 (0 for i_func_equals).                     *)
P_rate2_3  == <<1, 2, 5>>
P_rate1_3  == <<1, 2, 3, 5, 6, 7>>
P_rate8_12 == <<1, 2, 4>>
P_rate8_18 == <<1, 2, 3, 4, 5, 7, 8, 10, 11>>
P_rate8_17 == <<1, 2, 3, 4, 5, 7, 8, 10, 11, 13, 14, 16, 17, 19, 20, 22, 23>>

Puncturer(P, period, group) == [P |-> P, period |-> period, group |-> group]
punct_2_3 == Puncturer(P_rate2_3, 8, 0)

IFunc(pu, j) == IF pu.group = 0 THEN j ELSE j + (j - 1) \div pu.group

(* The j-th symbol that is sent is this one of the mother code.            *)
PuncturedByNoZero(pu, j) ==
  LET i == IFunc(pu, j)
      t == Len(pu.P)
  IN  pu.period * ((i - 1) \div t) + IF i % t = 0 THEN 0 ELSE pu.P[i % t]

PuncturedBy(pu, j) ==
  LET i == IFunc(pu, j)
      t == Len(pu.P)
  IN  pu.period * ((i - 1) \div t) + pu.P[i - t * ((i - 1) \div t)]

Punctured(j) == PuncturedBy(punct_2_3, j)

(* punct_test_params                                                       *)
PunctTest(mother, type3, pu) == [mother |-> mother, type3 |-> type3, pu |-> pu]
PunctTests ==
  << PunctTest(80 * 4, 120, punct_2_3),
     PunctTest(292 * 4, 432, Puncturer(P_rate2_3, 8, 65)),
     PunctTest(148 * 4, 432, Puncturer(P_rate1_3, 8, 35)),
     PunctTest(144 * 4, 216, punct_2_3),
     PunctTest(112 * 4, 168, punct_2_3),
     PunctTest(288 * 4, 432, punct_2_3),
     PunctTest(112 * 3, 168, Puncturer(P_rate8_12, 6, 0)),
     PunctTest(72 * 3, 162, Puncturer(P_rate8_18, 12, 0)),
     PunctTest(38 * 3, 80, Puncturer(P_rate8_17, 24, 0)) >>

(* class0_positions, class1_positions and class2_positions, one behind the *)
(* other; the bits of two frames alternate.  The first table has 51 places *)
(* and a list of 50, so its last is zero: the octet in front of the frame. *)
Class0 ==
  << 35, 36, 37, 38, 39, 40, 41, 42, 33, 47, 48, 56, 61, 62, 63, 65, 66, 67, 68, 69, 70, 74, 75,
     83, 88, 89, 90, 91, 92, 93, 94, 95, 96, 97, 101, 102, 110, 115, 116, 117, 118, 119, 120,
     121, 122, 123, 124, 128, 129, 137, 0 >>
Class1 ==
  << 58, 85, 112, 54, 81, 108, 135, 50, 77, 104, 131, 45, 72, 99, 126, 55, 82, 109, 136, 5, 13,
     34, 8, 16, 17, 22, 23, 24, 25, 26, 6, 14, 7, 15, 60, 87, 114, 46, 73, 100, 127, 44, 71, 98,
     125, 33, 49, 76, 103, 130, 59, 86, 113, 57, 84, 111 >>
Class2 ==
  << 18, 19, 20, 21, 31, 32, 53, 80, 107, 134, 1, 2, 3, 4, 9, 10, 11, 12, 27, 28, 29, 30, 52,
     79, 106, 133, 51, 78, 105, 132 >>
Positions == Class0 \o Class1 \o Class2
CodecPlace(b) == ((b - 1) % 2) * 137 + Positions[1 + ((b - 1) \div 2)]

(* One bit through crc16_itut_bits, and the start value of ccitt_bits.     *)
GenPoly == {0, 5, 12}
CrcStart == [b \in 0..15 |-> 1]
CrcOk == {0, 1, 2, 3, 8, 10, 11, 12}      \* TETRA_CRC_OK, 0x1d0f
CrcShift(r, b) == IF b = 0 THEN 0 ELSE r[b - 1]
CrcIn(r, bit) ==
  LET feed == (r[15] + bit) % 2
  IN  [b \in 0..15 |-> IF b \in GenPoly THEN (CrcShift(r, b) + feed) % 2 ELSE CrcShift(r, b)]

(* conv_enc_in_bit: the mother code.                                       *)
Generators(d, bit) ==
  << (bit + d[1] + d[4]) % 2,
     (bit + d[2] + d[3] + d[4]) % 2,
     (bit + d[1] + d[2] + d[4]) % 2,
     (bit + d[1] + d[3] + d[4]) % 2 >>

DelayReversed(d, bit) == <<d[2], d[3], d[4], bit>>
Delay(d, bit) == <<bit, d[1], d[2], d[3]>>

(* conv_cch_next_output and conv_cch_next_state, by state and bit; in an   *)
(* output the first symbol is the highest bit.                             *)
NextOutput ==
  << <<0, 15>>, <<11, 4>>, <<6, 9>>, <<13, 2>>, <<5, 10>>, <<14, 1>>, <<3, 12>>, <<8, 7>>,
     <<15, 0>>, <<4, 11>>, <<9, 6>>, <<2, 13>>, <<10, 5>>, <<1, 14>>, <<12, 3>>, <<7, 8>> >>
NextState(s, bit) == (2 * s + bit) % 16
Output(s, bit) == [i \in 1..4 |-> Bit(NextOutput[s + 1][bit + 1], 4 - i)]

(* conv_tch_next_output, and the code for voice that the comment above it  *)
(* states; its states are those of the other code.                         *)
NextOutputTch ==
  << <<0, 7>>, <<6, 1>>, <<5, 2>>, <<3, 4>>, <<6, 1>>, <<0, 7>>, <<3, 4>>, <<5, 2>>,
     <<7, 0>>, <<1, 6>>, <<2, 5>>, <<4, 3>>, <<1, 6>>, <<7, 0>>, <<4, 3>>, <<2, 5>> >>
OutputTch(s, bit) == [i \in 1..3 |-> Bit(NextOutputTch[s + 1][bit + 1], 3 - i)]
GeneratorsTch(d, bit) ==
  << (bit + d[1] + d[2] + d[3] + d[4]) % 2, (bit + d[1] + d[3] + d[4]) % 2, (bit + d[2] + d[4]) % 2 >>

(* rm_30_14_gen                                                            *)
Rm3014Gen ==
  << <<1,0,0,1,1,0,1,1,0,1,1,0,0,0,0,0>>, <<0,0,1,0,1,1,0,1,1,1,1,0,0,0,0,0>>,
     <<1,1,1,1,1,1,0,0,0,0,1,0,0,0,0,0>>, <<1,1,1,0,0,0,0,0,0,0,1,1,1,1,0,0>>,
     <<1,0,0,1,1,0,0,0,0,0,1,1,1,0,1,0>>, <<0,1,0,1,0,1,0,0,0,0,1,1,0,1,1,0>>,
     <<0,0,1,0,1,1,0,0,0,0,1,0,1,1,1,0>>, <<1,1,1,1,1,1,1,1,1,1,0,1,1,1,1,1>>,
     <<1,0,0,0,0,0,1,1,0,0,1,1,1,0,0,1>>, <<0,1,0,0,0,0,1,0,1,0,1,1,0,1,0,1>>,
     <<0,0,1,0,0,0,0,1,1,0,1,0,1,1,0,1>>, <<0,0,0,1,0,0,1,0,0,1,1,1,0,0,1,1>>,
     <<0,0,0,0,1,0,0,1,0,1,1,0,1,0,1,1>>, <<0,0,0,0,0,1,0,0,1,1,1,0,0,1,1,1>> >>

(* tetra_rm3014_compute: bit i of 30, the highest first.                   *)
Rm3014(bits, i) ==
  IF i <= 14 THEN bits[i] ELSE Xor({r \in 1..14 : bits[r] = 1}, [r \in 1..14 |-> Rm3014Gen[r][i - 14]])

(* tetra_scramb_get_init, by bit: the masked fields above SCRAMB_INIT.     *)
ScrambInit == [b \in 0..31 |-> IF b < 2 THEN 1 ELSE 0]
ScrambOf(c) ==
  [b \in 0..31 |-> CASE b < 2  -> 1
                     [] b >= 2 /\ b < 8  -> Bit(c.cc, b - 2)
                     [] b >= 8 /\ b < 22 -> Bit(c.mnc, b - 8)
                     [] b >= 22 -> Bit(c.mcc, b - 22)]

(* next_lfsr_bit                                                           *)
Taps == {32 - y : y \in {32, 26, 23, 22, 16, 12, 11, 10, 8, 7, 5, 4, 2, 1}}
LfsrBit(r) == Xor(Taps, r)
LfsrNext(r) == [b \in 0..31 |-> IF b = 31 THEN LfsrBit(r) ELSE r[b + 1]]

-----------------------------------------------------------------------------
(* Where build_sync_c_d_burst and build_norm_c_d_burst put the blocks: the  *)
(* cursor cur after the fields in front of each.                           *)
SyncStart ==
  LET hc  == 12
      f   == hc + 2
      sb  == f + 80
      y   == sb + 120
      bb  == y + 38
      bkn == bb + 30
  IN  [sb |-> sb, bb |-> bb, bkn |-> bkn]
NormStart ==
  LET ha   == 12
      bkn1 == ha + 2
      bb1  == bkn1 + 216
      np   == bb1 + 14
      bb2  == np + 22
      bkn2 == bb2 + 16
  IN  [bkn1 |-> bkn1, bb1 |-> bb1, bb2 |-> bb2, bkn2 |-> bkn2]

InSync(f, i) == SyncStart[f] + i - 1
InNorm(f, i) == NormStart[f] + i - 1

(* Where the sender puts bit i of a block of burst t.                      *)
SentAt(t, c, i) ==
  CASE c.type = "SB1" -> InSync("sb", i)
    [] c.type = "SB2" -> InSync("bkn", i)
    [] c.type = "BBK" /\ t = "SYNC" -> InSync("bb", i)
    [] c.type = "BBK" /\ t # "SYNC" -> IF i <= 14 THEN InNorm("bb1", i) ELSE InNorm("bb2", i - 14)
    [] c.type = "NDB" -> InNorm(IF c.blk = 1 THEN "bkn1" ELSE "bkn2", i)
    [] c.type = "SCH_F" -> IF i <= 216 THEN InNorm("bkn1", i) ELSE InNorm("bkn2", i - 216)

(* Where tetra_burst_rx_cb takes it from: the offsets are given in symbols *)
(* of two bits.                                                            *)
TakenFrom(t, c, i) ==
  i - 1 + CASE c.type = "SB1" -> 2 * (6 + 1 + 40)
            [] c.type = "SB2" -> 2 * (6 + 1 + 40 + 60 + 19 + 15)
            [] c.type = "BBK" /\ t = "SYNC" -> 2 * (6 + 1 + 40 + 60 + 19)
            [] c.type = "BBK" /\ t # "SYNC" ->
                 IF i <= 14 THEN 2 * (5 + 1 + 1 + 108) ELSE 2 * (5 + 1 + 1 + 108 + 7 + 11) - 14
            [] c.type = "NDB" /\ c.blk = 1 -> 2 * (5 + 1 + 1)
            [] c.type = "NDB" /\ c.blk = 2 -> 2 * (5 + 1 + 1 + 108 + 7 + 11 + 8)
            [] c.type = "SCH_F" ->
                 IF i <= 216 THEN 2 * (5 + 1 + 1) ELSE 2 * (5 + 1 + 1 + 108 + 7 + 11 + 8) - 216

Call(type, blk) == [type |-> type, blk |-> blk]
Blocks ==
  [SYNC   |-> <<Call("SB1", 1), Call("BBK", 0), Call("SB2", 2)>>,
   NORM_2 |-> <<Call("BBK", 0), Call("NDB", 1), Call("NDB", 2)>>,
   NORM_1 |-> <<Call("BBK", 0), Call("SCH_F", 0)>>]

-----------------------------------------------------------------------------
Par == Blk[Head(calls).type]
InPhase(ph) == phase = ph /\ calls # <<>>
NotTests == UNCHANGED <<depunct, codec>>
DataBit(p) == IF p = one THEN 1 ELSE 0

(* The type-2 bits: data, CRC with the highest bit first, tail.            *)
Type2BitLowFirst(p) ==
  CASE p <= Par.type1 -> DataBit(p)
    [] p > Par.type1 /\ p <= Par.type1 + 16 -> fcs[p - Par.type1 - 1]
    [] p > Par.type1 + 16 -> 0

Type2Bit(p) ==
  CASE p <= Par.type1 -> DataBit(p)
    [] p > Par.type1 /\ p <= Par.type1 + 16 -> fcs[Par.type1 + 16 - p]
    [] p > Par.type1 + 16 -> 0

(* The numbers of the type-3 bits that become bit i of type 4.             *)
Type3At(i) == {j \in 1..Par.type345 : BlockInterl(Par.type345, Par.a, j) = i}

(* test_one_punct: one symbol is punctured and depunctured again, into its *)
(* place in the mother code.                                               *)
Puncture ==
  /\ InPhase("puncture") /\ n < Head(calls).type3
  /\ n' = n + 1
  /\ depunct' = depunct \cup {PuncturedBy(Head(calls).pu, n')}
  /\ UNCHANGED <<train, cell, one, phase, calls, coding, codec>>

(* tetra_punct_test goes on while a test gets all of its symbols back.     *)
TestSucceeds == InPhase("puncture") /\ n = Head(calls).type3 /\ Cardinality(depunct) = n
NextTest ==
  /\ TestSucceeds
  /\ Len(calls) > 1
  /\ n' = 0 /\ depunct' = {} /\ calls' = Tail(calls)
  /\ UNCHANGED <<train, cell, one, phase, coding, codec>>

(* After the last, main encodes a burst.                                   *)
StartBurst ==
  /\ TestSucceeds
  /\ Len(calls) = 1
  /\ train' \in DOMAIN Blocks /\ cell' \in Cells /\ one' \in Ones
  /\ phase' = "encode" /\ calls' = Blocks[train'] /\ n' = 0 /\ depunct' = {}
  /\ UNCHANGED <<coding, codec>>

(* tetra_acelp_type2_to_codec: one of the bits of two speech frames.       *)
Reorder ==
  /\ phase = "speech" /\ n < 274
  /\ n' = n + 1
  /\ codec' = [codec EXCEPT ![CodecPlace(n')] = n']
  /\ UNCHANGED <<train, cell, one, phase, calls, coding, depunct>>

(* One type-2 bit through the CRC, the encoder, the puncturer, and its     *)
(* symbols through the interleaver.                                        *)
Encode ==
  /\ InPhase("encode") /\ Head(calls).type # "BBK" /\ n < Par.type2
  /\ LET p == n + 1
         bit == Type2Bit(p)
         g == Generators(delayed, bit)
     IN  /\ n' = p
         /\ crc' = IF p <= Par.type1 + 16 THEN CrcIn(crc, bit) ELSE crc
         /\ fcs' = IF p = Par.type1 THEN [b \in 0..15 |-> 1 - crc'[b]] ELSE fcs
         /\ delayed' = Delay(delayed, bit)
         /\ trellis' = NextState(trellis, bit)
         /\ type4' = type4 \cup
              {[i |-> BlockInterl(Par.type345, Par.a, j), k |-> Punctured(j),
                bit |-> g[Punctured(j) - 4 * n]] :
                 j \in {x \in 1..Par.type345 : (Punctured(x) - 1) \div 4 = n}}
  /\ NotTests /\ UNCHANGED <<train, cell, one, phase, calls, lfsr, air, heard>>

EncodeAach ==
  /\ InPhase("encode") /\ Head(calls).type = "BBK" /\ n < Par.type2
  /\ n' = Par.type2
  /\ type4' = {[i |-> i, k |-> i, bit |-> Rm3014([p \in 1..14 |-> DataBit(p)], i)] : i \in 1..30}
  /\ NotTests /\ UNCHANGED <<train, cell, one, phase, calls, crc, fcs, delayed, trellis, lfsr, air, heard>>

(* tetra_scramb_bits starts with the code of the cell; the SYNC block has  *)
(* one that is known in advance.                                           *)
ScrambStartOwn(c) == ScrambOf(cell)
ScrambStart(c) == IF c.type = "SB1" THEN ScrambInit ELSE ScrambOf(cell)

StartScramble ==
  /\ InPhase("encode") /\ n = Par.type2
  /\ phase' = "scramble" /\ n' = 0
  /\ lfsr' = IF Head(calls).type = "SB1" THEN ScrambInit ELSE ScrambOf(cell)
  /\ NotTests /\ UNCHANGED <<train, cell, one, calls, crc, fcs, delayed, trellis, type4, air, heard>>

Scramble ==
  /\ InPhase("scramble") /\ n < Par.type345
  /\ n' = n + 1
  /\ air' = air \cup {[pos |-> SentAt(train, Head(calls), n + 1), call |-> Head(calls), k |-> t.k,
                       bit |-> t.bit, sent |-> (t.bit + LfsrBit(lfsr)) % 2] :
                         t \in {x \in type4 : x.i = n + 1}}
  /\ lfsr' = LfsrNext(lfsr)
  /\ NotTests /\ UNCHANGED <<train, cell, one, phase, calls, crc, fcs, delayed, trellis, type4, heard>>

(* The next block, or the burst is complete.                               *)
EndBlock ==
  /\ InPhase("scramble") /\ n = Par.type345
  /\ n' = 0 /\ crc' = CrcStart /\ delayed' = <<0, 0, 0, 0>> /\ trellis' = 0 /\ type4' = {}
  /\ IF Len(calls) > 1
       THEN phase' = "encode" /\ calls' = Tail(calls) /\ UNCHANGED lfsr
       ELSE phase' = "receive" /\ calls' = Blocks[train] /\ lfsr' = ScrambStart(Head(Blocks[train]))
  /\ NotTests /\ UNCHANGED <<train, cell, one, fcs, air, heard>>

(* tp_sap_udata_ind: descramble, deinterleave and depuncture one bit.      *)
Receive ==
  /\ InPhase("receive") /\ n < Par.type345
  /\ n' = n + 1
  /\ heard' = {[call |-> Head(calls), k |-> IF Par.a = 0 THEN j ELSE Punctured(j), in |-> r.sent,
                bit |-> (r.sent + LfsrBit(lfsr)) % 2, of |-> r] :
                 j \in IF Par.a = 0 THEN {n + 1} ELSE Type3At(n + 1),
                 r \in {x \in air : x.pos = TakenFrom(train, Head(calls), n + 1)}}
  /\ lfsr' = LfsrNext(lfsr)
  /\ NotTests /\ UNCHANGED <<train, cell, one, phase, calls, crc, fcs, delayed, trellis, type4, air>>

NextCall ==
  /\ InPhase("receive") /\ n = Par.type345
  /\ n' = 0 /\ heard' = {} /\ calls' = Tail(calls)
  /\ lfsr' = IF Len(calls) > 1 THEN ScrambStart(calls[2]) ELSE ScrambInit
  /\ NotTests /\ UNCHANGED <<train, cell, one, phase, crc, fcs, delayed, trellis, type4, air>>

Init ==
  /\ train = "SYNC" /\ cell = (CHOOSE c \in Cells : TRUE) /\ one = 0
  /\ \/ phase = "puncture" /\ calls = PunctTests
     \/ phase = "speech" /\ calls = <<>>
  /\ n = 0 /\ depunct = {} /\ codec = [b \in 0..274 |-> 0]
  /\ crc = CrcStart /\ fcs = CrcStart
  /\ delayed = <<0, 0, 0, 0>> /\ trellis = 0
  /\ type4 = {} /\ lfsr = ScrambInit /\ air = {} /\ heard = {}

Next ==
  \/ Puncture \/ NextTest \/ StartBurst \/ Reorder
  \/ Encode \/ EncodeAach \/ StartScramble \/ Scramble \/ EndBlock
  \/ Receive \/ NextCall

Spec == Init /\ [][Next]_vars

-----------------------------------------------------------------------------
(* The variables keep to their types; of the mother code, tests write what *)
(* lies within the buffer for it.                                          *)
TypeOK ==
  /\ train \in DOMAIN Blocks /\ cell \in Cells /\ one \in Ones
  /\ phase \in {"puncture", "speech", "encode", "scramble", "receive"} /\ n \in 0..432
  /\ calls \in Seq([type : DOMAIN Blk, blk : 0..2]) \cup Seq(Range(PunctTests))
  /\ phase = "puncture" => depunct \subseteq 1..(Head(calls).mother)
  /\ codec \in [0..274 -> 0..274]
  /\ crc \in [0..15 -> 0..1] /\ fcs \in [0..15 -> 0..1] /\ lfsr \in [0..31 -> 0..1]
  /\ delayed \in [1..4 -> 0..1] /\ trellis \in 0..15
  /\ type4 \subseteq [i : 1..432, k : 1..1152, bit : 0..1]

(* The decoder's tables, which are numbers in viterbi_cch.c, describe the  *)
(* encoder: on the same bits the state of the tables is the delay line,    *)
(* and either next bit makes both produce the same symbols; so do those of *)
(* viterbi_tch.c for the code for voice.                                   *)
TrellisFollowsEncoder ==
  /\ trellis = delayed[1] + 2 * delayed[2] + 4 * delayed[3] + 8 * delayed[4]
  /\ \A bit \in 0..1 : /\ Output(trellis, bit) = Generators(delayed, bit)
                         /\ OutputTch(trellis, bit) = GeneratorsTch(delayed, bit)

(* A block with its CRC behind it leaves the constant in the register that *)
(* the receiver compares with, whatever its payload and its length.     *)
CrcResidue ==
  phase = "encode" /\ calls # <<>> /\ Par.a # 0 /\ n = Par.type1 + 16
    => {b \in 0..15 : crc[b] = 1} = CrcOk

(* What puncturing lets through comes back without a collision, so that    *)
(* the tests of the puncturers go on to the next.                          *)
PuncturersInvert == phase = "puncture" => Cardinality(depunct) = n

(* The bits of the speech frames that were given a value, and those of the *)
(* type-2 bits that tetra_acelp_codec_to_acelp finds where they were put:  *)
(* all but what two slips in the table of class 0 lose (it names bit 33,   *)
(* which is of class 1, for 43, and leaves out 64).                        *)
SpeechReturns ==
  phase = "speech" /\ n = 274
    => /\ {p \in 1..274 : codec[p] = 0} = {43, 64, 137 + 43, 137 + 64}
       /\ {b \in 1..274 : codec[CodecPlace(b)] # b} = {17, 18, 99}

(* Each symbol the receiver gives its decoder is one that the encoder of   *)
(* the same block made, in the place of the mother code it was made for,   *)
(* and with its value; none is missing; the first bits of the access       *)
(* assignment are the payload itself.                                      *)
SymbolsReturn ==
  phase = "receive" /\ n > 0
    => /\ heard # {}
       /\ \A h \in heard :
            /\ h.of.call = h.call /\ h.of.k = h.k /\ h.bit = h.of.bit
            /\ h.call.type = "BBK" /\ h.k <= 14 => h.bit = DataBit(h.k)

(* Every layer of the receiver is the inverse of the sender's.             *)
ReceiverUndoes == PuncturersInvert /\ SpeechReturns /\ SymbolsReturn
=============================================================================
