---------------------------- MODULE KeySealing ----------------------------
(***************************************************************************)
(* Sealed keys: the algorithms TA31/TA32 (CCK), TA51/TA52 (SCK), TA81/TA82 *)
(* and TA91/TA92 (GCK, GSKO) of src/crypto/taa1.c over the block cipher of *)
(* src/crypto/hurdle.c.  A key gets check bytes that fill it up to 15      *)
(* bytes and is enciphered as two chained blocks, of which the last byte   *)
(* of the first is left out: unsealing has to steal it back from the       *)
(* second.  The manipulation flag says that a check byte is wrong.         *)
(*                                                                         *)
(* One step is one round of the cipher, or the work between two blocks.    *)
(* Bytes may have fewer values than 256, and the S-box and the constants   *)
(* of the key schedule may be any.                                         *)
(***************************************************************************)
EXTENDS Integers, Sequences

CONSTANTS
  ByteSize,     \* number of values of a byte (256)
  Xor(_, _),    \* exclusive or of bytes
  Sbox,         \* g_abHurdleSbox
  XorConsts,    \* abKeyXorConsts
  KeyNumbers,   \* bytes without the bits 0xe0: those that number an SCK
  Keys,         \* keys to seal with; a DCK is the first 10 bytes of one
  Versions,     \* CCK-id, SCK-VN, GCK-VN or GSKO-VN
  Data(_),      \* keys that are sealed, with their number, by kind
  Texts         \* sealed keys that are received

Byte == 0..(ByteSize - 1)
Half == [0..3 -> Byte]
Block == [0..7 -> Byte]
Text == [0..14 -> Byte]
Bytes16 == [0..15 -> Byte]
Kinds == {"CCK", "SCK", "GCK"}

(* Bytes of an unsealed key with its number.                               *)
SizeOf(k) == CASE k = "CCK" -> 10 [] k = "SCK" -> 11 [] k = "GCK" -> 12

ASSUME SealingAssumption ==
  /\ ByteSize \in Nat \ {0}
  /\ \A x, y \in Byte : Xor(x, y) \in Byte /\ Xor(x, y) = Xor(y, x) /\ Xor(Xor(x, y), y) = x
  /\ \A x \in Byte : Xor(x, 0) = x
  /\ Sbox \in [Byte -> Byte]
  /\ XorConsts \in [0..15 -> Bytes16]
  /\ KeyNumbers \subseteq Byte
  /\ Keys \subseteq Bytes16 /\ Versions \subseteq [0..1 -> Byte]
  /\ \A k \in Kinds : Data(k) \subseteq [1..SizeOf(k) -> Byte]
  /\ Texts \subseteq Text

VARIABLES
  kind, key, version,  \* what is being sealed, and with what
  data,      \* the unsealed key, with its number
  text,      \* the sealed key
  mf,        \* the manipulation flag of the last unsealing
  last,      \* where data and text are from: given, sealed or unsealed
  step,      \* the block being enciphered or deciphered
  round,     \* rounds of it that are done
  lhs, rhs,  \* its halves
  padded,    \* abUnsealedPadded
  mid,       \* the block before: abCiphertext[0..7], abIntermediate[8..15]
  trace      \* history: halves before each round of enciphering the blocks

params == <<kind, key, version>>
cipher == <<step, round, lhs, rhs, padded, mid, trace>>
vars == <<params, data, text, mf, last, cipher>>

-----------------------------------------------------------------------------
(* HURDLE_f: twelve look-ups in the S-box, of which the last eight give    *)
(* one bit to each byte of the output, their highest of four to byte 0.    *)
Look(s, x, k) == Sbox[Xor((x + k) % ByteSize, s)]
BitOf(s, j) == (s \div <<8, 4, 2, 1>>[j + 1]) % 2

HurdleF(rk, h) ==
  LET s1  == Look(0, h[3], rk[15])   s2  == Look(s1, h[2], rk[14])
      s3  == Look(s2, h[1], rk[13])  s4  == Look(s3, h[0], rk[12])
      s5  == Look(s4, h[3], rk[11])  s6  == Look(s5, h[1], rk[10])
      s7  == Look(s6, h[2], rk[9])   s8  == Look(s7, h[0], rk[8])
      s9  == Look(s8, h[1], rk[7])   s10 == Look(s9, h[3], rk[6])
      s11 == Look(s10, h[0], rk[5])  s12 == Look(s11, h[2], rk[4])
  IN  [j \in 0..3 |->
         (BitOf(s5, j) + 2 * BitOf(s6, j) + 4 * BitOf(s7, j) + 8 * BitOf(s8, j)
          + 16 * BitOf(s9, j) + 32 * BitOf(s10, j) + 64 * BitOf(s11, j)
          + 128 * BitOf(s12, j)) % ByteSize]

(* The key of the cipher: the key, modified by the version; a DCK is       *)
(* expanded to 16 bytes by transform_80_to_128.                            *)
Adjusted == [i \in 0..15 |-> Xor(key[i], version[i % 2])]

Sum(x, y) == (x + y) % ByteSize

Expanded(a) ==
  LET pair(n) == Sum(a[n], a[9 - n])
  IN  [p \in 0..15 |->
         CASE p = 0 -> Xor(Xor(Xor(Xor(pair(0), pair(1)), pair(2)), pair(3)), pair(4))
           [] p \in {1, 4, 7, 10, 13} -> pair((p - 1) \div 3)
           [] p \in {2, 5, 8, 11, 14} -> a[(p - 2) \div 3]
           [] p \in {3, 6, 9, 12, 15} -> a[9 - ((p - 3) \div 3)]]

HurdleKey == IF kind = "CCK" THEN Expanded(Adjusted) ELSE Adjusted

(* hurdle_set_key: round keys are rotated keys.                            *)
Rotation == <<0, 5, 10, 15, 4, 7, 14, 3, 8, 13, 2, 9, 12, 1, 6, 11>>
RoundKey(n) ==
  [i \in 0..15 |-> Xor(HurdleKey[(i + Rotation[n + 1]) % 16], XorConsts[n][i])]

-----------------------------------------------------------------------------
(* Where the bytes of a key go between the check bytes (0), and where they *)
(* are taken from.                                                         *)
Layout(k) ==
  CASE k = "CCK" -> <<1, 2, 0, 3, 4, 0, 5, 6, 0, 7, 8, 0, 9, 10, 0>>
    [] k = "SCK" -> <<1, 2, 0, 3, 4, 5, 0, 6, 7, 8, 0, 9, 10, 11, 0>>
    [] k = "GCK" -> <<1, 2, 3, 4, 0, 5, 6, 7, 8, 0, 9, 10, 11, 12, 0>>
PlaceOf(k) ==
  CASE k = "CCK" -> <<0, 1, 3, 4, 6, 7, 9, 10, 12, 13>>
    [] k = "SCK" -> <<0, 1, 3, 4, 5, 7, 8, 9, 11, 12, 13>>
    [] k = "GCK" -> <<0, 1, 2, 3, 5, 6, 7, 8, 10, 11, 12, 13>>

IsCheck(k, p) == Layout(k)[p + 1] = 0

(* The check byte at p is the sum of the bytes since the one before it.    *)
CheckByte(k, b, p) ==
  CASE k = "CCK" \/ (k = "SCK" /\ p = 2) -> Xor(b[p - 2], b[p - 1])
    [] k = "SCK" /\ p # 2 -> Xor(Xor(b[p - 3], b[p - 2]), b[p - 1])
    [] k = "GCK" -> Xor(Xor(Xor(b[p - 4], b[p - 3]), b[p - 2]), b[p - 1])

(* transform_80_to_120_alt, transform_88_to_120, ta81; byte 15 is 0.       *)
Spaced(k, d) ==
  [p \in 0..15 |-> IF p = 15 \/ IsCheck(k, p) THEN 0 ELSE d[Layout(k)[p + 1]]]
Pad(k, d) ==
  [p \in 0..15 |-> IF p < 15 /\ IsCheck(k, p) THEN CheckByte(k, Spaced(k, d), p)
                                              ELSE Spaced(k, d)[p]]

(* transform_120_to_80_alt, transform_120_to_88, ta82                      *)
Unpad(k, b) == [n \in 1..SizeOf(k) |-> b[PlaceOf(k)[n]]]

MfOfNumber(k, b) == k = "SCK" /\ b[13] \notin KeyNumbers
MfNoLastCheck(k, b) ==
  \/ \E p \in 0..13 : IsCheck(k, p) /\ b[p] # CheckByte(k, b, p)
  \/ MfOfNumber(k, b)
Mf(k, b) ==
  \/ \E p \in 0..14 : IsCheck(k, p) /\ b[p] # CheckByte(k, b, p)
  \/ MfOfNumber(k, b)

-----------------------------------------------------------------------------
(* One block of HURDLE_encrypt.  Deciphering takes the round keys from the *)
(* last one to the first.                                                  *)
Idle == step = "idle"
Done(s) == step = s /\ round = 16
Deciphering == step \in {"dec0", "dec1"}
BlockNo == IF step \in {"enc0", "dec0"} THEN 0 ELSE 1

(* The operation before was the opposite one, on the same key.             *)
Again == last \in {"sealed", "unsealed"}

Load(s, b) ==
  /\ step' = s /\ round' = 0
  /\ lhs' = [i \in 0..3 |-> b[i]] /\ rhs' = [i \in 0..3 |-> b[i + 4]]

Output == [i \in 0..7 |-> IF i < 4 THEN rhs[i] ELSE lhs[i - 4]]

KeyRowForward(n) == n
KeyRow(n) == IF Deciphering THEN 15 - n ELSE n

Switched == [i \in 0..3 |-> Xor(HurdleF(RoundKey(KeyRow(round)), rhs)[i], lhs[i])]

(* The history keeps the halves in the order of enciphering.               *)
Trace(b, n, l, r) == trace' = IF Again THEN trace ELSE [trace EXCEPT ![b][n] = <<l, r>>]

Round ==
  /\ ~Idle /\ round < 16
  /\ round' = round + 1
  /\ lhs' = rhs /\ rhs' = Switched
  /\ IF Deciphering THEN Trace(BlockNo, 15 - round, rhs', lhs')
                    ELSE Trace(BlockNo, round + 1, lhs', rhs')
  /\ UNCHANGED <<params, data, text, mf, last, step, padded, mid>>

(* ta31, ta51, ta81 and HURDLE_enc_cbc.  A key is sealed that was given,   *)
(* or that an unsealing has returned without the flag; ta51 asserts that   *)
(* its number has no more than 5 bits.                                     *)
StartSeal ==
  /\ Idle /\ last \in {"data", "unsealed"} /\ ~mf
  /\ kind = "SCK" => data[11] \in KeyNumbers
  /\ padded' = Pad(kind, data)
  /\ Load("enc0", padded')
  /\ Trace(0, 0, lhs', rhs')
  /\ UNCHANGED <<params, data, text, mf, last, mid>>

Chain ==
  /\ Done("enc0")
  /\ mid' = Output
  /\ Load("enc1", [i \in 0..7 |-> Xor(Output[i], padded[i + 8])])
  /\ Trace(1, 0, lhs', rhs')
  /\ UNCHANGED <<params, data, text, mf, last, padded>>

FinishSeal ==
  /\ Done("enc1")
  /\ text' = [i \in 0..14 |-> IF i < 7 THEN mid[i] ELSE Output[i - 7]]
  /\ step' = "idle" /\ last' = "sealed"
  /\ UNCHANGED <<params, data, mf, round, lhs, rhs, padded, mid, trace>>

(* ta32, ta52, ta82 and HURDLE_dec_cts: the second block first.  Its last  *)
(* byte is that of the first, as it was chained with 0.                    *)
StartUnseal ==
  /\ Idle /\ last \in {"text", "sealed"}
  /\ Load("dec1", [i \in 0..7 |-> text[i + 7]])
  /\ Trace(1, 16, rhs', lhs')
  /\ UNCHANGED <<params, data, text, mf, last, padded, mid>>

Steal ==
  /\ Done("dec1")
  /\ mid' = Output
  /\ Load("dec0", [i \in 0..7 |-> IF i = 7 THEN Output[7] ELSE text[i]])
  /\ Trace(0, 16, rhs', lhs')
  /\ UNCHANGED <<params, data, text, mf, last, padded>>

FinishUnseal ==
  /\ Done("dec0")
  /\ padded' = [p \in 0..15 |-> CASE p < 8 -> Output[p]
                                  [] p \in 8..14 -> Xor(mid[p - 8], text[p - 8])
                                  [] p = 15 -> 0]
  /\ data' = Unpad(kind, padded') /\ mf' = Mf(kind, padded')
  /\ step' = "idle" /\ last' = "unsealed"
  /\ UNCHANGED <<params, text, round, lhs, rhs, mid, trace>>

-----------------------------------------------------------------------------
Zeros(S) == [i \in S |-> 0]

Init ==
  /\ kind \in Kinds /\ key \in Keys /\ version \in Versions
  /\ \/ last = "data" /\ data \in Data(kind) /\ text = Zeros(0..14)
     \/ last = "text" /\ text \in Texts /\ data = Zeros(1..SizeOf(kind))
  /\ mf = FALSE /\ step = "idle" /\ round = 0
  /\ lhs = Zeros(0..3) /\ rhs = Zeros(0..3) /\ padded = Zeros(0..15) /\ mid = Zeros(0..7)
  /\ trace = [b \in 0..1 |-> [n \in 0..16 |-> <<Zeros(0..3), Zeros(0..3)>>]]

Next ==
  \/ Round
  \/ StartSeal \/ Chain \/ FinishSeal
  \/ StartUnseal \/ Steal \/ FinishUnseal

Spec == Init /\ [][Next]_vars

-----------------------------------------------------------------------------
(* Types: what looks up the S-box and the tables is always a byte.         *)
TypeOK ==
  /\ kind \in Kinds /\ key \in Bytes16 /\ version \in [0..1 -> Byte]
  /\ data \in [1..SizeOf(kind) -> Byte] /\ text \in Text /\ mf \in BOOLEAN
  /\ last \in {"data", "text", "sealed", "unsealed"}
  /\ step \in {"idle", "enc0", "enc1", "dec0", "dec1"} /\ round \in 0..16
  /\ lhs \in Half /\ rhs \in Half /\ padded \in Bytes16 /\ mid \in Block
  /\ HurdleKey \in Bytes16
  /\ trace \in [0..1 -> [0..16 -> Half \X Half]]

(* What ta31, ta51 and ta81 sealed, ta32, ta52 and ta82 unseal, byte for   *)
(* byte, and without the manipulation flag: rounds, chaining, stolen byte  *)
(* and check bytes are all undone.                                         *)
UnsealUndoesSeal ==
  [][ FinishUnseal /\ last = "sealed" => data' = data /\ ~mf' ]_vars

(* A key that was unsealed without the flag is sealed to the text it came  *)
(* from: no two texts stand for one key, and the flag leaves out no text   *)
(* that sealing could not have produced.                                   *)
AcceptedReseals ==
  [][ FinishSeal /\ last = "unsealed" => text' = text ]_vars
=============================================================================
