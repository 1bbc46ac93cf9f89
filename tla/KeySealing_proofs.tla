------------------------- MODULE KeySealing_proofs -------------------------
(***************************************************************************)
(* Proofs about KeySealing, for every exclusive or that cancels, every     *)
(* S-box, every key, version and text.                                     *)
(***************************************************************************)
EXTENDS KeySealing, TLAPS

-----------------------------------------------------------------------------
(* What is assumed of bytes.                                               *)
LEMMA XorType == \A x, y \in Byte : Xor(x, y) \in Byte
BY SealingAssumption

LEMMA XorCancels ==
  \A x, y \in Byte : /\ Xor(Xor(x, y), y) = x /\ Xor(x, Xor(y, x)) = y
                     /\ Xor(x, Xor(x, y)) = y /\ Xor(Xor(x, y), x) = y
<1> SUFFICES ASSUME NEW x \in Byte, NEW y \in Byte
             PROVE  /\ Xor(Xor(x, y), y) = x /\ Xor(x, Xor(y, x)) = y
                    /\ Xor(x, Xor(x, y)) = y /\ Xor(Xor(x, y), x) = y
  OBVIOUS
<1>1. Xor(x, y) \in Byte /\ Xor(y, x) = Xor(x, y) BY SealingAssumption
<1>2. Xor(Xor(x, y), y) = x /\ Xor(Xor(y, x), x) = y BY SealingAssumption
<1>3. Xor(x, Xor(x, y)) = Xor(Xor(x, y), x) BY <1>1, SealingAssumption
<1> QED BY <1>1, <1>2, <1>3

LEMMA ByteFacts ==
  /\ ByteSize \in Nat /\ ByteSize > 0 /\ 0 \in Byte
  /\ \A n \in Nat : n % ByteSize \in Byte
  /\ \A x \in Byte : x \in Nat /\ Xor(x, 0) = x
<1>1. ByteSize \in Nat /\ ByteSize > 0 BY SealingAssumption
<1>2. \A x \in Byte : Xor(x, 0) = x BY SealingAssumption
<1>3. 0 \in Byte /\ \A x \in Byte : x \in Nat BY <1>1 DEF Byte
<1>4. \A n \in Nat : n % ByteSize \in Byte BY <1>1 DEF Byte
<1> QED BY <1>1, <1>2, <1>3, <1>4

(* Types of the operators.                                                 *)
LEMMA LookType == \A s, x, k \in Byte : Look(s, x, k) \in Byte
<1> SUFFICES ASSUME NEW s \in Byte, NEW x \in Byte, NEW k \in Byte
             PROVE  Look(s, x, k) \in Byte
  OBVIOUS
<1>1. (x + k) % ByteSize \in Byte BY ByteFacts
<1>2. Xor((x + k) % ByteSize, s) \in Byte BY <1>1, XorType
<1>3. Sbox \in [Byte -> Byte] BY SealingAssumption
<1> QED BY <1>2, <1>3 DEF Look

LEMMA BitType == \A s \in Byte, j \in 0..3 : BitOf(s, j) \in 0..1
<1> SUFFICES ASSUME NEW s \in Byte, NEW j \in 0..3 PROVE BitOf(s, j) \in 0..1
  OBVIOUS
<1>a. s \in Nat BY ByteFacts
<1>1. CASE j = 0 BY <1>1, <1>a DEF BitOf
<1>2. CASE j = 1 BY <1>2, <1>a DEF BitOf
<1>3. CASE j = 2 BY <1>3, <1>a DEF BitOf
<1>4. CASE j = 3 BY <1>4, <1>a DEF BitOf
<1> QED BY <1>1, <1>2, <1>3, <1>4

LEMMA FType == \A rk \in Bytes16, h \in Half : HurdleF(rk, h) \in Half
<1> SUFFICES ASSUME NEW rk \in Bytes16, NEW h \in Half PROVE HurdleF(rk, h) \in Half
  OBVIOUS
<1>b. /\ \A n \in 0..15 : rk[n] \in Byte
      /\ \A n \in 0..3 : h[n] \in Byte
      /\ 0 \in Byte
  BY ByteFacts DEF Bytes16, Half
<1> DEFINE s1  == Look(0, h[3], rk[15])   s2  == Look(s1, h[2], rk[14])
           s3  == Look(s2, h[1], rk[13])  s4  == Look(s3, h[0], rk[12])
           s5  == Look(s4, h[3], rk[11])  s6  == Look(s5, h[1], rk[10])
           s7  == Look(s6, h[2], rk[9])   s8  == Look(s7, h[0], rk[8])
           s9  == Look(s8, h[1], rk[7])   s10 == Look(s9, h[3], rk[6])
           s11 == Look(s10, h[0], rk[5])  s12 == Look(s11, h[2], rk[4])
           f(j) == (BitOf(s5, j) + 2 * BitOf(s6, j) + 4 * BitOf(s7, j) + 8 * BitOf(s8, j)
                    + 16 * BitOf(s9, j) + 32 * BitOf(s10, j) + 64 * BitOf(s11, j)
                    + 128 * BitOf(s12, j)) % ByteSize
<1>1. HurdleF(rk, h) = [j \in 0..3 |-> f(j)] BY DEF HurdleF
<1>2. s1 \in Byte BY <1>b, LookType
<1> HIDE DEF s1
<1>3. s2 \in Byte BY <1>b, <1>2, LookType
<1> HIDE DEF s2
<1>4. s3 \in Byte BY <1>b, <1>3, LookType
<1> HIDE DEF s3
<1>5. s4 \in Byte BY <1>b, <1>4, LookType
<1> HIDE DEF s4
<1>6. s5 \in Byte BY <1>b, <1>5, LookType
<1> HIDE DEF s5
<1>7. s6 \in Byte BY <1>b, <1>6, LookType
<1> HIDE DEF s6
<1>8. s7 \in Byte BY <1>b, <1>7, LookType
<1> HIDE DEF s7
<1>9. s8 \in Byte BY <1>b, <1>8, LookType
<1> HIDE DEF s8
<1>10. s9 \in Byte BY <1>b, <1>9, LookType
<1> HIDE DEF s9
<1>11. s10 \in Byte BY <1>b, <1>10, LookType
<1> HIDE DEF s10
<1>12. s11 \in Byte BY <1>b, <1>11, LookType
<1> HIDE DEF s11
<1>13. s12 \in Byte BY <1>b, <1>12, LookType
<1> HIDE DEF s12
<1>14. ASSUME NEW j \in 0..3 PROVE f(j) \in Byte
  <2>1. /\ BitOf(s5, j) \in 0..1 /\ BitOf(s6, j) \in 0..1 /\ BitOf(s7, j) \in 0..1
        /\ BitOf(s8, j) \in 0..1 /\ BitOf(s9, j) \in 0..1 /\ BitOf(s10, j) \in 0..1
        /\ BitOf(s11, j) \in 0..1 /\ BitOf(s12, j) \in 0..1
    BY BitType, <1>6, <1>7, <1>8, <1>9, <1>10, <1>11, <1>12, <1>13
  <2> HIDE DEF s12
  <2> QED BY <2>1, ByteFacts
<1> HIDE DEF f
<1> QED BY <1>1, <1>14 DEF Half

(* The key of the cipher and its round keys are bytes.                     *)
Params == kind \in Kinds /\ key \in Bytes16 /\ version \in [0..1 -> Byte]

LEMMA HurdleKeyType == Params => HurdleKey \in Bytes16
<1> SUFFICES ASSUME Params PROVE HurdleKey \in Bytes16 OBVIOUS
<1>1. Adjusted \in Bytes16
  <2>1. ASSUME NEW i \in 0..15 PROVE Xor(key[i], version[i % 2]) \in Byte
    <3>1. i % 2 \in 0..1 OBVIOUS
    <3>2. key[i] \in Byte /\ version[i % 2] \in Byte BY <3>1 DEF Params, Bytes16
    <3> QED BY <3>2, XorType
  <2> QED BY <2>1 DEF Adjusted, Bytes16
<1>2. ASSUME NEW a \in Bytes16 PROVE Expanded(a) \in Bytes16
  <2> DEFINE pair(n) == Sum(a[n], a[9 - n])
             e(p) ==
               CASE p = 0 -> Xor(Xor(Xor(Xor(pair(0), pair(1)), pair(2)), pair(3)), pair(4))
                 [] p \in {1, 4, 7, 10, 13} -> pair((p - 1) \div 3)
                 [] p \in {2, 5, 8, 11, 14} -> a[(p - 2) \div 3]
                 [] p \in {3, 6, 9, 12, 15} -> a[9 - ((p - 3) \div 3)]
  <2>1. \A n \in 0..9 : a[n] \in Byte BY DEF Bytes16
  <2>2. ASSUME NEW n \in 0..4 PROVE pair(n) \in Byte
    <3>1. n \in 0..9 /\ 9 - n \in 0..9 OBVIOUS
    <3>2. a[n] + a[9 - n] \in Nat BY <2>1, <3>1, ByteFacts
    <3> QED BY <3>2, ByteFacts DEF Sum
  <2> HIDE DEF pair
  <2>3. Xor(Xor(Xor(Xor(pair(0), pair(1)), pair(2)), pair(3)), pair(4)) \in Byte
    BY <2>2, XorType
  <2>4. ASSUME NEW p \in 0..15 PROVE e(p) \in Byte
    <3>1. CASE p = 0 BY <2>3, <3>1
    <3>2. CASE p \in {1, 4, 7, 10, 13}
      <4>1. (p - 1) \div 3 \in 0..4 BY <3>2
      <4> QED BY <2>2, <3>2, <4>1
    <3>3. CASE p \in {2, 5, 8, 11, 14}
      <4>1. (p - 2) \div 3 \in 0..9 BY <3>3
      <4> QED BY <2>1, <3>3, <4>1
    <3>4. CASE p \in {3, 6, 9, 12, 15}
      <4>1. 9 - ((p - 3) \div 3) \in 0..9 BY <3>4
      <4> QED BY <2>1, <3>4, <4>1
    <3> QED BY <3>1, <3>2, <3>3, <3>4
  <2>5. Expanded(a) = [p \in 0..15 |-> e(p)] BY DEF Expanded, pair
  <2> HIDE DEF e
  <2> QED BY <2>4, <2>5 DEF Bytes16
<1> QED BY <1>1, <1>2 DEF HurdleKey

LEMMA RoundKeyType == Params => \A n \in 0..15 : RoundKey(n) \in Bytes16
<1> SUFFICES ASSUME Params, NEW n \in 0..15 PROVE RoundKey(n) \in Bytes16 OBVIOUS
<1>1. ASSUME NEW i \in 0..15
      PROVE  Xor(HurdleKey[(i + Rotation[n + 1]) % 16], XorConsts[n][i]) \in Byte
  <2>1. Rotation[n + 1] \in Nat BY DEF Rotation
  <2>2. (i + Rotation[n + 1]) % 16 \in 0..15 BY <2>1
  <2>3. HurdleKey[(i + Rotation[n + 1]) % 16] \in Byte
    BY <2>2, HurdleKeyType DEF Bytes16
  <2>4. XorConsts[n][i] \in Byte BY SealingAssumption DEF Bytes16
  <2> QED BY <2>3, <2>4, XorType
<1> QED BY <1>1 DEF RoundKey, Bytes16

-----------------------------------------------------------------------------
(* The two tables are inverse to each other, and a check byte has enough   *)
(* bytes of its own before it.                                             *)
LEMMA Tables ==
  \A k \in Kinds :
    /\ SizeOf(k) \in Nat
    /\ \A p \in 0..14 : /\ Layout(k)[p + 1] \in 0..SizeOf(k)
                        /\ ~IsCheck(k, p) => PlaceOf(k)[Layout(k)[p + 1]] = p
    /\ \A n \in 1..SizeOf(k) : /\ PlaceOf(k)[n] \in 0..14
                               /\ Layout(k)[PlaceOf(k)[n] + 1] = n
<1> SUFFICES ASSUME NEW k \in Kinds
             PROVE  /\ SizeOf(k) \in Nat
                    /\ \A p \in 0..14 : /\ Layout(k)[p + 1] \in 0..SizeOf(k)
                                        /\ ~IsCheck(k, p) => PlaceOf(k)[Layout(k)[p + 1]] = p
                    /\ \A n \in 1..SizeOf(k) : /\ PlaceOf(k)[n] \in 0..14
                                               /\ Layout(k)[PlaceOf(k)[n] + 1] = n
  OBVIOUS
<1>1. CASE k = "CCK" BY <1>1, SMTT(30) DEF SizeOf, Layout, PlaceOf, IsCheck
<1>2. CASE k = "SCK" BY <1>2, SMTT(30) DEF SizeOf, Layout, PlaceOf, IsCheck
<1>3. CASE k = "GCK" BY <1>3, SMTT(30) DEF SizeOf, Layout, PlaceOf, IsCheck
<1> QED BY <1>1, <1>2, <1>3 DEF Kinds

(* The bytes that a check byte is the sum of.                              *)
Summed(k, p) ==
  CASE k = "CCK" \/ (k = "SCK" /\ p = 2) -> {p - 2, p - 1}
    [] k = "SCK" /\ p # 2 -> {p - 3, p - 2, p - 1}
    [] k = "GCK" -> {p - 4, p - 3, p - 2, p - 1}

LEMMA ChecksOfData ==
  \A k \in Kinds, p \in 0..14 : IsCheck(k, p) =>
    \A q \in Summed(k, p) : q \in 0..14 /\ ~IsCheck(k, q)
<1> SUFFICES ASSUME NEW k \in Kinds, NEW p \in 0..14, IsCheck(k, p)
             PROVE  \A q \in Summed(k, p) : q \in 0..14 /\ ~IsCheck(k, q)
  OBVIOUS
<1>1. CASE k = "CCK"
  <2>1. p \in {2, 5, 8, 11, 14} BY <1>1 DEF IsCheck, Layout
  <2>2. Summed(k, p) = {p - 2, p - 1} BY <1>1 DEF Summed
  <2> QED BY <1>1, <2>1, <2>2 DEF IsCheck, Layout
<1>2. CASE k = "SCK"
  <2>1. p \in {2, 6, 10, 14} BY <1>2 DEF IsCheck, Layout
  <2>2. Summed(k, p) = IF p = 2 THEN {p - 2, p - 1} ELSE {p - 3, p - 2, p - 1}
    BY <1>2 DEF Summed
  <2> QED BY <1>2, <2>1, <2>2 DEF IsCheck, Layout
<1>3. CASE k = "GCK"
  <2>1. p \in {4, 9, 14} BY <1>3 DEF IsCheck, Layout
  <2>2. Summed(k, p) = {p - 4, p - 3, p - 2, p - 1} BY <1>3 DEF Summed
  <2> QED BY <1>3, <2>1, <2>2 DEF IsCheck, Layout
<1> QED BY <1>1, <1>2, <1>3 DEF Kinds

(* A check byte depends on the bytes that are not check bytes only.        *)
LEMMA CheckByteLocal ==
  ASSUME NEW k \in Kinds, NEW p \in 0..14, IsCheck(k, p), NEW b, NEW c,
         \A q \in 0..14 : ~IsCheck(k, q) => b[q] = c[q]
  PROVE  CheckByte(k, b, p) = CheckByte(k, c, p)
<1>1. \A q \in Summed(k, p) : b[q] = c[q] BY ChecksOfData
<1>2. CASE k = "CCK" \/ (k = "SCK" /\ p = 2) BY <1>1, <1>2 DEF Summed, CheckByte
<1>3. CASE k = "SCK" /\ p # 2 BY <1>1, <1>3 DEF Summed, CheckByte
<1>4. CASE k = "GCK" BY <1>1, <1>4 DEF Summed, CheckByte
<1> QED BY <1>2, <1>3, <1>4 DEF Kinds

LEMMA CheckByteType ==
  ASSUME NEW k \in Kinds, NEW p \in 0..14, IsCheck(k, p), NEW b,
         \A q \in 0..14 : ~IsCheck(k, q) => b[q] \in Byte
  PROVE  CheckByte(k, b, p) \in Byte
<1>1. \A q \in Summed(k, p) : b[q] \in Byte BY ChecksOfData
<1>2. CASE k = "CCK" \/ (k = "SCK" /\ p = 2)
  BY <1>1, <1>2, XorType DEF Summed, CheckByte
<1>3. CASE k = "SCK" /\ p # 2
  <2>1. b[p - 3] \in Byte /\ b[p - 2] \in Byte /\ b[p - 1] \in Byte BY <1>1, <1>3 DEF Summed
  <2> QED BY <1>3, <2>1, XorType DEF CheckByte
<1>4. CASE k = "GCK"
  <2>1. b[p - 4] \in Byte /\ b[p - 3] \in Byte /\ b[p - 2] \in Byte /\ b[p - 1] \in Byte
    BY <1>1, <1>4 DEF Summed
  <2> QED BY <1>4, <2>1, XorType DEF CheckByte
<1> QED BY <1>2, <1>3, <1>4 DEF Kinds

-----------------------------------------------------------------------------
(* Padding, unpadding and the manipulation flag.                           *)
KeysOf(k) == [1..SizeOf(k) -> Byte]

LEMMA PadByte ==
  ASSUME NEW k \in Kinds, NEW d
  PROVE  /\ Pad(k, d)[15] = 0
         /\ \A p \in 0..14 : ~IsCheck(k, p) => Pad(k, d)[p] = d[Layout(k)[p + 1]]
         /\ \A p \in 0..14 : IsCheck(k, p) => Pad(k, d)[p] = CheckByte(k, Pad(k, d), p)
<1>1. \A p \in 0..14 : ~IsCheck(k, p) =>
        Pad(k, d)[p] = d[Layout(k)[p + 1]] /\ Spaced(k, d)[p] = d[Layout(k)[p + 1]]
  BY DEF Pad, Spaced
<1>2. ASSUME NEW p \in 0..14, IsCheck(k, p) PROVE Pad(k, d)[p] = CheckByte(k, Pad(k, d), p)
  <2>1. Pad(k, d)[p] = CheckByte(k, Spaced(k, d), p) BY <1>2 DEF Pad
  <2>2. CheckByte(k, Spaced(k, d), p) = CheckByte(k, Pad(k, d), p)
    BY <1>1, <1>2, CheckByteLocal
  <2> QED BY <2>1, <2>2
<1>3. Pad(k, d)[15] = 0 BY DEF Pad, Spaced
<1> QED BY <1>1, <1>2, <1>3

LEMMA PadType == \A k \in Kinds : \A d \in KeysOf(k) : Pad(k, d) \in Bytes16
<1> SUFFICES ASSUME NEW k \in Kinds, NEW d \in KeysOf(k) PROVE Pad(k, d) \in Bytes16
  OBVIOUS
<1>1. ASSUME NEW p \in 0..14, ~IsCheck(k, p) PROVE Pad(k, d)[p] \in Byte
  <2>1. Layout(k)[p + 1] \in 1..SizeOf(k) BY <1>1, Tables DEF IsCheck
  <2>2. d[Layout(k)[p + 1]] \in Byte BY <2>1 DEF KeysOf
  <2>3. Pad(k, d)[p] = d[Layout(k)[p + 1]] BY <1>1, PadByte
  <2> QED BY <2>2, <2>3
<1>2. ASSUME NEW p \in 0..14, IsCheck(k, p) PROVE Pad(k, d)[p] \in Byte
  <2>1. CheckByte(k, Pad(k, d), p) \in Byte BY <1>1, <1>2, CheckByteType
  <2> QED BY <1>2, <2>1, PadByte
<1>3. \A p \in 0..15 : Pad(k, d)[p] \in Byte
  <2>1. Pad(k, d)[15] \in Byte BY PadByte, ByteFacts
  <2> QED BY <1>1, <1>2, <2>1
<1>4. Pad(k, d) = [p \in 0..15 |-> Pad(k, d)[p]] BY DEF Pad
<1> HIDE DEF Pad
<1> QED BY <1>3, <1>4 DEF Bytes16

LEMMA UnpadType == \A k \in Kinds : \A b \in Bytes16 : Unpad(k, b) \in KeysOf(k)
<1> SUFFICES ASSUME NEW k \in Kinds, NEW b \in Bytes16 PROVE Unpad(k, b) \in KeysOf(k)
  OBVIOUS
<1>1. \A n \in 1..SizeOf(k) : b[PlaceOf(k)[n]] \in Byte
  <2>1. \A n \in 1..SizeOf(k) : PlaceOf(k)[n] \in 0..15 BY Tables
  <2> QED BY <2>1 DEF Bytes16
<1> QED BY <1>1 DEF Unpad, KeysOf

(* What was padded is unpadded to itself, and not flagged.                 *)
LEMMA UnpadOfPad ==
  \A k \in Kinds : \A d \in KeysOf(k) : Unpad(k, Pad(k, d)) = d
<1> SUFFICES ASSUME NEW k \in Kinds, NEW d \in KeysOf(k) PROVE Unpad(k, Pad(k, d)) = d
  OBVIOUS
<1>1. ASSUME NEW n \in 1..SizeOf(k) PROVE Pad(k, d)[PlaceOf(k)[n]] = d[n]
  <2>1. PlaceOf(k)[n] \in 0..14 /\ Layout(k)[PlaceOf(k)[n] + 1] = n BY Tables
  <2>2. ~IsCheck(k, PlaceOf(k)[n]) BY <2>1 DEF IsCheck
  <2> QED BY <2>1, <2>2, PadByte
<1>2. Unpad(k, Pad(k, d)) = [n \in 1..SizeOf(k) |-> d[n]] BY <1>1 DEF Unpad
<1> QED BY <1>2 DEF KeysOf

LEMMA PadNotFlagged ==
  ASSUME NEW k \in Kinds, NEW d \in KeysOf(k), k = "SCK" => d[11] \in KeyNumbers
  PROVE  ~Mf(k, Pad(k, d))
<1>1. \A p \in 0..14 : IsCheck(k, p) => Pad(k, d)[p] = CheckByte(k, Pad(k, d), p)
  BY PadByte
<1>2. ~MfOfNumber(k, Pad(k, d))
  <2> SUFFICES ASSUME k = "SCK" PROVE Pad(k, d)[13] \in KeyNumbers BY DEF MfOfNumber
  <2>1. ~IsCheck(k, 13) /\ Layout(k)[13 + 1] = 11 BY DEF IsCheck, Layout
  <2>2. Pad(k, d)[13] = d[Layout(k)[13 + 1]] BY <2>1, PadByte
  <2> QED BY <2>1, <2>2
<1> QED BY <1>1, <1>2 DEF Mf

(* Without the flag, padding what was unpadded gives back every byte.      *)
LEMMA PadOfUnpad ==
  ASSUME NEW k \in Kinds, NEW b \in Bytes16, b[15] = 0, ~Mf(k, b)
  PROVE  /\ Pad(k, Unpad(k, b)) = b
         /\ k = "SCK" => Unpad(k, b)[11] \in KeyNumbers
<1> DEFINE c == Pad(k, Unpad(k, b))
<1>1. ASSUME NEW p \in 0..14, ~IsCheck(k, p) PROVE c[p] = b[p]
  <2>1. Layout(k)[p + 1] \in 1..SizeOf(k) /\ PlaceOf(k)[Layout(k)[p + 1]] = p
    BY <1>1, Tables DEF IsCheck
  <2>2. c[p] = Unpad(k, b)[Layout(k)[p + 1]] BY <1>1, PadByte
  <2> QED BY <2>1, <2>2 DEF Unpad
<1>2. ASSUME NEW p \in 0..14, IsCheck(k, p) PROVE c[p] = b[p]
  <2>1. c[p] = CheckByte(k, c, p) BY <1>2, PadByte
  <2>2. b[p] = CheckByte(k, b, p) BY <1>2 DEF Mf
  <2>3. CheckByte(k, c, p) = CheckByte(k, b, p) BY <1>1, <1>2, CheckByteLocal
  <2> QED BY <2>1, <2>2, <2>3
<1>3. c[15] = b[15] BY PadByte
<1>4. c = [p \in 0..15 |-> c[p]] BY DEF Pad
<1>5. \A p \in 0..15 : c[p] = b[p] BY <1>1, <1>2, <1>3
<1>6. c = b
  <2> HIDE DEF c
  <2> QED BY <1>4, <1>5 DEF Bytes16
<1>7. k = "SCK" => Unpad(k, b)[11] \in KeyNumbers
  <2> SUFFICES ASSUME k = "SCK" PROVE Unpad(k, b)[11] \in KeyNumbers OBVIOUS
  <2>1. b[13] \in KeyNumbers BY DEF Mf, MfOfNumber
  <2>2. SizeOf(k) = 11 /\ PlaceOf(k)[11] = 13 BY DEF SizeOf, PlaceOf
  <2> QED BY <2>1, <2>2 DEF Unpad
<1> QED BY <1>6, <1>7

-----------------------------------------------------------------------------
(* The cipher on the history.  Mixing is the half that a round computes, as *)
(* a function; blocks go in with the left half first and come out with the *)
(* right one first.                                                        *)
Mixing ==
  [n \in 0..15 |-> [r \in Half |-> [l \in Half |->
     [i \in 0..3 |-> Xor(HurdleF(RoundKey(n), r)[i], l[i])]]]]

InOf(h) == [i \in 0..7 |-> IF i < 4 THEN h[1][i] ELSE h[2][i - 4]]
OutOf(h) == [i \in 0..7 |-> IF i < 4 THEN h[2][i] ELSE h[1][i - 4]]

RunsOf(t, M, m, n) ==
  \A j \in 0..15 : m <= j /\ j < n =>
    t[j + 1][1] = t[j][2] /\ t[j + 1][2] = M[j][t[j][2]][t[j][1]]
Runs(b, m, n) == RunsOf(trace[b], Mixing, m, n)

(* What goes into the two blocks, and the text that comes out of them.     *)
FirstIn  == InOf(trace[0][0]) = [i \in 0..7 |-> Pad(kind, data)[i]]
SecondIn ==
  InOf(trace[1][0]) = [i \in 0..7 |-> Xor(OutOf(trace[0][16])[i], Pad(kind, data)[i + 8])]
FirstOut  == \A i \in 0..6 : OutOf(trace[0][16])[i] = text[i]
SecondOut == OutOf(trace[1][16]) = [i \in 0..7 |-> text[i + 7]]

Numbered == kind = "SCK" => data[11] \in KeyNumbers

Related ==
  /\ Runs(0, 0, 16) /\ Runs(1, 0, 16)
  /\ FirstIn /\ SecondIn /\ FirstOut /\ SecondOut /\ Numbered

(* How far the block is, and its halves in the order of enciphering.       *)
Position == IF Deciphering THEN 16 - round ELSE round
Halves == IF Deciphering THEN <<rhs, lhs>> ELSE <<lhs, rhs>>

(* Where an operation is.                                                  *)
OnTrace == ~Idle => Halves = trace[BlockNo][Position]
Sealing ==
  step \in {"enc0", "enc1"} =>
    /\ last \in {"data", "unsealed"} /\ Numbered
    /\ padded = Pad(kind, data)
    /\ step = "enc1" => mid = OutOf(trace[0][16])
Unsealing ==
  Deciphering =>
    /\ last \in {"text", "sealed"}
    /\ step = "dec0" => mid = InOf(trace[1][0])
Flagged == mf => Idle /\ last = "unsealed"

(* What the history holds of an operation that is not done again.          *)
Recorded ==
  /\ step = "enc0" => FirstIn /\ Runs(0, 0, round)
  /\ step = "enc1" => FirstIn /\ Runs(0, 0, 16) /\ SecondIn /\ Runs(1, 0, round)
  /\ step = "dec1" => SecondOut /\ Runs(1, 16 - round, 16)
  /\ step = "dec0" => /\ SecondOut /\ Runs(1, 0, 16) /\ FirstOut /\ Runs(0, 16 - round, 16)
                      /\ OutOf(trace[0][16])[7] = mid[7]

Inv ==
  /\ TypeOK /\ Flagged
  /\ OnTrace /\ Sealing /\ Unsealing
  /\ Again /\ ~mf => Related
  /\ ~Again => Recorded

-----------------------------------------------------------------------------
(* A round undoes itself, and is the same while the key is.                *)
LEMMA MixFacts ==
  Params => \A n \in 0..15 : \A r, l \in Half :
    Mixing[n][r][l] \in Half /\ Mixing[n][r][Mixing[n][r][l]] = l
<1> SUFFICES ASSUME Params, NEW n \in 0..15, NEW r \in Half, NEW l \in Half
             PROVE  Mixing[n][r][l] \in Half /\ Mixing[n][r][Mixing[n][r][l]] = l
  OBVIOUS
<1> DEFINE f == HurdleF(RoundKey(n), r)
<1>1. f \in Half BY RoundKeyType, FType
<1>2. \A x \in Half : Mixing[n][r][x] = [i \in 0..3 |-> Xor(f[i], x[i])] BY DEF Mixing
<1> HIDE DEF f
<1>3. ASSUME NEW x \in Half PROVE Mixing[n][r][x] \in Half
  <2>1. \A i \in 0..3 : f[i] \in Byte /\ x[i] \in Byte BY <1>1 DEF Half
  <2>2. \A i \in 0..3 : Xor(f[i], x[i]) \in Byte BY <2>1, XorType
  <2> QED BY <1>2, <2>2 DEF Half
<1> DEFINE m == Mixing[n][r][l]
<1>4. m = [i \in 0..3 |-> Xor(f[i], l[i])] /\ m \in Half BY <1>2, <1>3
<1>5. Mixing[n][r][m] = [i \in 0..3 |-> Xor(f[i], m[i])] BY <1>2, <1>3
<1> HIDE DEF m
<1>6. ASSUME NEW i \in 0..3 PROVE Xor(f[i], m[i]) = l[i]
  <2>1. f[i] \in Byte /\ l[i] \in Byte BY <1>1 DEF Half
  <2>2. m[i] = Xor(f[i], l[i]) BY <1>4
  <2> QED BY <2>1, <2>2, XorCancels
<1>7. Mixing[n][r][m] = l
  <2>1. l = [i \in 0..3 |-> l[i]] BY DEF Half
  <2> QED BY <1>5, <1>6, <2>1
<1> QED BY <1>4, <1>7 DEF m

LEMMA MixingKept == UNCHANGED params => Mixing' = Mixing /\ HurdleKey' = HurdleKey
<1> SUFFICES ASSUME kind' = kind, key' = key, version' = version
             PROVE  Mixing' = Mixing /\ HurdleKey' = HurdleKey
  BY DEF params
<1>1. Adjusted' = Adjusted BY DEF Adjusted
<1>2. HurdleKey' = HurdleKey BY <1>1 DEF HurdleKey, Expanded
<1>3. \A n \in 0..15 : RoundKey(n)' = RoundKey(n) BY <1>2 DEF RoundKey
<1> QED BY <1>2, <1>3 DEF Mixing

LEMMA SwitchedIsMixing ==
  TypeOK /\ round < 16 => Switched = Mixing[KeyRow(round)][rhs][lhs] /\ KeyRow(round) \in 0..15
<1> SUFFICES ASSUME TypeOK, round < 16
             PROVE  Switched = Mixing[KeyRow(round)][rhs][lhs] /\ KeyRow(round) \in 0..15
  OBVIOUS
<1>1. KeyRow(round) \in 0..15 BY DEF TypeOK, KeyRow
<1>2. lhs \in Half /\ rhs \in Half BY DEF TypeOK
<1> QED BY <1>1, <1>2 DEF Switched, Mixing

(* Blocks and halves.                                                      *)
LEMMA BlockFacts ==
  \A h \in Half \X Half :
    /\ InOf(h) \in Block /\ OutOf(h) \in Block
    /\ \A g \in Half \X Half : /\ InOf(g) = InOf(h) => g = h
                               /\ OutOf(g) = OutOf(h) => g = h
<1> SUFFICES ASSUME NEW h \in Half \X Half
             PROVE  /\ InOf(h) \in Block /\ OutOf(h) \in Block
                    /\ \A g \in Half \X Half : /\ InOf(g) = InOf(h) => g = h
                                               /\ OutOf(g) = OutOf(h) => g = h
  OBVIOUS
<1>1. h[1] \in Half /\ h[2] \in Half OBVIOUS
<1>2. \A i \in 0..3 : h[1][i] \in Byte /\ h[2][i] \in Byte BY <1>1 DEF Half
<1>3. \A i \in 0..7 : ~(i < 4) => i - 4 \in 0..3 OBVIOUS
<1>3a. \A i \in 0..7 : i < 4 => i \in 0..3 OBVIOUS
<1>4. InOf(h) \in Block BY <1>2, <1>3, <1>3a DEF InOf, Block
<1>5. OutOf(h) \in Block BY <1>2, <1>3, <1>3a DEF OutOf, Block
<1>6. ASSUME NEW g \in Half \X Half, g[1] = h[1], g[2] = h[2] PROVE g = h
  BY <1>6
<1>7. ASSUME NEW f \in Half, NEW e \in Half, \A i \in 0..3 : f[i] = e[i] PROVE f = e
  BY <1>7 DEF Half
<1>8. ASSUME NEW g \in Half \X Half, InOf(g) = InOf(h) PROVE g = h
  <2>1. \A i \in 0..7 : InOf(g)[i] = InOf(h)[i] BY <1>8
  <2>2. \A i \in 0..3 : g[1][i] = h[1][i] BY <2>1 DEF InOf
  <2>3. \A i \in 0..3 : g[2][i] = h[2][i]
    <3> TAKE i \in 0..3
    <3>1. i + 4 \in 0..7 /\ ~(i + 4 < 4) /\ (i + 4) - 4 = i OBVIOUS
    <3>2. InOf(g)[i + 4] = g[2][i] /\ InOf(h)[i + 4] = h[2][i] BY <3>1 DEF InOf
    <3> QED BY <2>1, <3>1, <3>2
  <2>4. g[1] \in Half /\ g[2] \in Half OBVIOUS
  <2> QED BY <1>1, <1>6, <1>7, <2>2, <2>3, <2>4
<1>9. ASSUME NEW g \in Half \X Half, OutOf(g) = OutOf(h) PROVE g = h
  <2>1. \A i \in 0..7 : OutOf(g)[i] = OutOf(h)[i] BY <1>9
  <2>2. \A i \in 0..3 : g[2][i] = h[2][i] BY <2>1 DEF OutOf
  <2>3. \A i \in 0..3 : g[1][i] = h[1][i]
    <3> TAKE i \in 0..3
    <3>1. i + 4 \in 0..7 /\ ~(i + 4 < 4) /\ (i + 4) - 4 = i OBVIOUS
    <3>2. OutOf(g)[i + 4] = g[1][i] /\ OutOf(h)[i + 4] = h[1][i] BY <3>1 DEF OutOf
    <3> QED BY <2>1, <3>1, <3>2
  <2>4. g[1] \in Half /\ g[2] \in Half OBVIOUS
  <2> QED BY <1>1, <1>6, <1>7, <2>2, <2>3, <2>4
<1> QED BY <1>4, <1>5, <1>8, <1>9

LEMMA OutputIs ==
  TypeOK => /\ Output = OutOf(<<lhs, rhs>>) /\ Output = InOf(<<rhs, lhs>>)
            /\ Output \in Block
<1> SUFFICES ASSUME TypeOK
             PROVE  /\ Output = OutOf(<<lhs, rhs>>) /\ Output = InOf(<<rhs, lhs>>)
                    /\ Output \in Block
  OBVIOUS
<1>1. <<lhs, rhs>> \in Half \X Half BY DEF TypeOK
<1>2. Output = OutOf(<<lhs, rhs>>) /\ Output = InOf(<<rhs, lhs>>) BY DEF Output, OutOf, InOf
<1> QED BY <1>1, <1>2, BlockFacts

LEMMA LoadIs ==
  ASSUME NEW s, NEW b, \A i \in 0..7 : b[i] \in Byte, Load(s, b)
  PROVE  /\ step' = s /\ round' = 0 /\ lhs' \in Half /\ rhs' \in Half
         /\ InOf(<<lhs', rhs'>>) = [i \in 0..7 |-> b[i]]
         /\ OutOf(<<rhs', lhs'>>) = [i \in 0..7 |-> b[i]]
<1>1. lhs' = [i \in 0..3 |-> b[i]] /\ rhs' = [i \in 0..3 |-> b[i + 4]] BY DEF Load
<1>2. ASSUME NEW i \in 0..7
      PROVE  (IF i < 4 THEN lhs'[i] ELSE rhs'[i - 4]) = b[i]
  BY <1>1
<1>3. lhs' \in Half /\ rhs' \in Half BY <1>1 DEF Half
<1>4. InOf(<<lhs', rhs'>>) = [i \in 0..7 |-> b[i]] BY <1>2 DEF InOf
<1>5. OutOf(<<rhs', lhs'>>) = [i \in 0..7 |-> b[i]] BY <1>2 DEF OutOf
<1> QED BY <1>3, <1>4, <1>5 DEF Load

(* What is written to the history, and what stays.                         *)
LEMMA TraceIs ==
  ASSUME TypeOK, NEW b \in 0..1, NEW n \in 0..16, NEW l \in Half, NEW r \in Half,
         ~Again, Trace(b, n, l, r)
  PROVE  /\ trace' \in [0..1 -> [0..16 -> Half \X Half]]
         /\ trace'[b][n] = <<l, r>>
         /\ \A c \in 0..1, m \in 0..16 : c # b \/ m # n => trace'[c][m] = trace[c][m]
<1>1. trace' = [trace EXCEPT ![b][n] = <<l, r>>] BY DEF Trace
<1>2. trace \in [0..1 -> [0..16 -> Half \X Half]] BY DEF TypeOK
<1>3. <<l, r>> \in Half \X Half OBVIOUS
<1> QED BY <1>1, <1>2, <1>3

(* Rounds in a row, with one more at the end or at the start.              *)
LEMMA RunsKept ==
  ASSUME NEW t, NEW u, NEW M, NEW m \in 0..16, NEW n \in 0..16, RunsOf(t, M, m, n),
         \A j \in 0..16 : m <= j /\ j <= n => u[j] = t[j]
  PROVE  RunsOf(u, M, m, n)
<1> SUFFICES ASSUME NEW j \in 0..15, m <= j, j < n
             PROVE  u[j + 1][1] = u[j][2] /\ u[j + 1][2] = M[j][u[j][2]][u[j][1]]
  BY DEF RunsOf
<1>1. u[j + 1] = t[j + 1] /\ u[j] = t[j] OBVIOUS
<1> QED BY <1>1 DEF RunsOf

LEMMA RunsLonger ==
  ASSUME NEW t, NEW u, NEW M, NEW n \in 0..15, RunsOf(t, M, 0, n),
         \A j \in 0..16 : j # n + 1 => u[j] = t[j],
         u[n + 1][1] = t[n][2] /\ u[n + 1][2] = M[n][t[n][2]][t[n][1]]
  PROVE  RunsOf(u, M, 0, n + 1)
<1> SUFFICES ASSUME NEW j \in 0..15, j < n + 1
             PROVE  u[j + 1][1] = u[j][2] /\ u[j + 1][2] = M[j][u[j][2]][u[j][1]]
  BY DEF RunsOf
<1>1. u[j] = t[j] OBVIOUS
<1>2. CASE j = n BY <1>1, <1>2
<1>3. CASE j < n
  <2>1. u[j + 1] = t[j + 1] BY <1>3
  <2> QED BY <1>1, <1>3, <2>1 DEF RunsOf
<1> QED BY <1>2, <1>3

LEMMA RunsEarlier ==
  ASSUME NEW t, NEW u, NEW M, NEW m \in 0..15, RunsOf(t, M, m + 1, 16),
         \A j \in 0..16 : j # m => u[j] = t[j],
         t[m + 1][1] = u[m][2] /\ t[m + 1][2] = M[m][u[m][2]][u[m][1]]
  PROVE  RunsOf(u, M, m, 16)
<1> SUFFICES ASSUME NEW j \in 0..15, m <= j
             PROVE  u[j + 1][1] = u[j][2] /\ u[j + 1][2] = M[j][u[j][2]][u[j][1]]
  BY DEF RunsOf
<1>1. u[j + 1] = t[j + 1] OBVIOUS
<1>2. CASE j = m BY <1>1, <1>2
<1>3. CASE j > m
  <2>1. u[j] = t[j] /\ m + 1 <= j BY <1>3
  <2> QED BY <1>1, <2>1 DEF RunsOf
<1> QED BY <1>2, <1>3

-----------------------------------------------------------------------------
(* A round leads from one entry of the history to the next, or back.       *)
LEMMA RoundLinks ==
  ASSUME TypeOK, Round
  PROVE  /\ lhs' \in Half /\ rhs' \in Half
         /\ Deciphering' = Deciphering /\ BlockNo' = BlockNo /\ Again' = Again
         /\ ~Deciphering => /\ lhs' = rhs
                            /\ rhs' = Mixing[round][rhs][lhs]
         /\ Deciphering => /\ lhs' = rhs
                           /\ rhs' = Mixing[15 - round][rhs][lhs]
                           /\ lhs = Mixing[15 - round][rhs][rhs']
<1>1. round < 16 /\ round \in 0..16 /\ lhs' = rhs /\ rhs' = Switched
  BY DEF Round, TypeOK
<1>2. step' = step /\ last' = last BY DEF Round
<1>3. rhs' = Mixing[KeyRow(round)][rhs][lhs] /\ KeyRow(round) \in 0..15
  BY <1>1, SwitchedIsMixing
<1>4. lhs \in Half /\ rhs \in Half /\ Params BY DEF TypeOK, Params
<1>5. rhs' \in Half /\ lhs = Mixing[KeyRow(round)][rhs][rhs']
  BY <1>3, <1>4, MixFacts
<1>6. Deciphering' = Deciphering /\ BlockNo' = BlockNo /\ Again' = Again
  BY <1>2 DEF Deciphering, BlockNo, Again
<1> QED BY <1>1, <1>3, <1>4, <1>5, <1>6 DEF KeyRow

LEMMA RoundStep == Inv /\ Round => Inv'
<1> SUFFICES ASSUME Inv, Round PROVE Inv' OBVIOUS
<1> USE DEF Inv
<1>1. /\ ~Idle /\ round < 16 /\ round \in 0..16 /\ round' = round + 1
      /\ UNCHANGED params /\ data' = data /\ text' = text /\ mf' = mf /\ last' = last
      /\ step' = step /\ padded' = padded /\ mid' = mid /\ kind' = kind
      /\ key' = key /\ version' = version
  BY DEF Round, TypeOK, params
<1>2. Mixing' = Mixing /\ HurdleKey' = HurdleKey BY <1>1, MixingKept
<1>3. /\ lhs' \in Half /\ rhs' \in Half
      /\ Deciphering' = Deciphering /\ BlockNo' = BlockNo /\ Again' = Again
      /\ ~Deciphering => lhs' = rhs /\ rhs' = Mixing[round][rhs][lhs]
      /\ Deciphering => /\ lhs' = rhs
                        /\ rhs' = Mixing[15 - round][rhs][lhs]
                        /\ lhs = Mixing[15 - round][rhs][rhs']
  BY RoundLinks
<1> DEFINE b == BlockNo
           q == IF Deciphering THEN 15 - round ELSE round + 1
           h == IF Deciphering THEN <<rhs', lhs'>> ELSE <<lhs', rhs'>>
<1>4. /\ b \in 0..1 /\ q \in 0..16 /\ h \in Half \X Half
      /\ Position' = q /\ Halves' = h
  BY <1>1, <1>3 DEF BlockNo, Position, Halves
<1>5. ~mf /\ step \in {"enc0", "enc1", "dec0", "dec1"} BY <1>1 DEF Flagged, TypeOK, Idle
<1>6. trace[b][Position] = Halves BY <1>1 DEF OnTrace
<1>7. ASSUME Again PROVE trace' = trace /\ trace[b][q] = h /\ Related
  <2>1. trace' = trace BY <1>7 DEF Round, Trace
  <2>2. Related BY <1>5, <1>7
  <2>3. Runs(b, 0, 16) BY <2>2, <1>4 DEF Related
  <2>4. CASE ~Deciphering
    <3>1. Halves = <<lhs, rhs>> /\ Position = round /\ q = round + 1 /\ h = <<lhs', rhs'>>
      BY <2>4 DEF Halves, Position
    <3>2. trace[b][round + 1][1] = rhs /\ trace[b][round + 1][2] = Mixing[round][rhs][lhs]
      BY <1>1, <1>6, <2>3, <3>1 DEF Runs, RunsOf
    <3>3. trace[b][q] \in Half \X Half BY <1>4 DEF TypeOK
    <3> HIDE DEF b, q, h
    <3> QED BY <1>3, <2>1, <2>2, <2>4, <3>1, <3>2, <3>3
  <2>5. CASE Deciphering
    <3>1. /\ Halves = <<rhs, lhs>> /\ Position = 16 - round /\ q = 15 - round
          /\ h = <<rhs', lhs'>> /\ q + 1 = 16 - round /\ q \in 0..15
      BY <1>1, <2>5 DEF Halves, Position
    <3> DEFINE g == trace[b][q]
    <3>2. g \in Half \X Half BY <1>4 DEF TypeOK
    <3>3. trace[b][q + 1] = <<rhs, lhs>> BY <1>6, <3>1
    <3> HIDE DEF b, q, h
    <3>4. trace[b][q + 1][1] = g[2] /\ trace[b][q + 1][2] = Mixing[q][g[2]][g[1]]
      <4>1. RunsOf(trace[b], Mixing, 0, 16) BY <2>3 DEF Runs
      <4>2. q \in 0..15 /\ 0 <= q /\ q < 16 BY <3>1
      <4> QED BY <4>1, <4>2 DEF RunsOf
    <3> HIDE DEF g
    <3>5. rhs = g[2] /\ lhs = Mixing[q][rhs][g[1]] BY <3>3, <3>4
    <3>6. Mixing[q][rhs][lhs] = g[1] BY <3>1, <3>2, <3>5, MixFacts DEF TypeOK, Params
    <3>7. rhs' = g[1] /\ lhs' = g[2] BY <1>3, <2>5, <3>1, <3>5, <3>6
    <3>8. g = h BY <3>1, <3>2, <3>7
    <3> QED BY <2>1, <2>2, <3>8 DEF g
  <2> QED BY <2>4, <2>5
<1>8. ASSUME ~Again
      PROVE  /\ trace' \in [0..1 -> [0..16 -> Half \X Half]]
             /\ trace'[b][q] = h
             /\ \A c \in 0..1, m \in 0..16 : c # b \/ m # q => trace'[c][m] = trace[c][m]
  <2>1. CASE Deciphering
    <3>1. Trace(b, q, rhs', lhs') /\ h = <<rhs', lhs'>> BY <2>1 DEF Round
    <3>2. TypeOK /\ b \in 0..1 /\ q \in 0..16 /\ rhs' \in Half /\ lhs' \in Half
      BY <1>3, <1>4
    <3> HIDE DEF b, q, h, Inv
    <3> QED BY <1>8, <3>1, <3>2, TraceIs
  <2>2. CASE ~Deciphering
    <3>1. Trace(b, q, lhs', rhs') /\ h = <<lhs', rhs'>> BY <2>2 DEF Round
    <3>2. TypeOK /\ b \in 0..1 /\ q \in 0..16 /\ lhs' \in Half /\ rhs' \in Half
      BY <1>3, <1>4
    <3> HIDE DEF b, q, h, Inv
    <3> QED BY <1>8, <3>1, <3>2, TraceIs
  <2> QED BY <2>1, <2>2
<1>9. /\ trace' \in [0..1 -> [0..16 -> Half \X Half]]
      /\ trace'[b][q] = h
      /\ \A c \in 0..1, m \in 0..16 : c # b \/ m # q => trace'[c][m] = trace[c][m]
  BY <1>7, <1>8 DEF TypeOK
<1>10. TypeOK'
  BY <1>1, <1>2, <1>3, <1>9 DEF TypeOK
<1>11. OnTrace'
  BY <1>3, <1>4, <1>9 DEF OnTrace
<1>12. Sealing' /\ Unsealing' /\ Flagged'
  <2>1. step = "enc1" => trace'[0][16] = trace[0][16] BY <1>9 DEF BlockNo
  <2>2. step = "dec0" => trace'[1][0] = trace[1][0] BY <1>9 DEF BlockNo
  <2>3. Sealing' BY <1>1, <2>1 DEF Sealing, Numbered
  <2>4. Unsealing' BY <1>1, <1>3, <2>2 DEF Unsealing
  <2>5. Flagged' BY <1>1 DEF Flagged, Idle
  <2> QED BY <2>3, <2>4, <2>5
<1>13. (Again /\ ~mf => Related)'
  <2> SUFFICES ASSUME Again PROVE Related' BY <1>3
  <2>1. trace' = trace /\ Related BY <1>7
  <2> QED BY <1>1, <1>2, <2>1
    DEF Related, Runs, FirstIn, SecondIn, FirstOut, SecondOut, Numbered
<1>14. (~Again => Recorded)'
  <2> SUFFICES ASSUME ~Again PROVE Recorded' BY <1>3
  <2>0. Recorded BY <1>3
  <2>1. CASE step = "enc0"
    <3>1. b = 0 /\ ~Deciphering /\ q = round + 1 /\ Halves = <<lhs, rhs>> /\ Position = round
          /\ h = <<lhs', rhs'>>
      BY <2>1 DEF BlockNo, Deciphering, Halves, Position
    <3>2. FirstIn /\ Runs(0, 0, round) BY <2>0, <2>1 DEF Recorded
    <3>3. trace[0][round] = <<lhs, rhs>> /\ trace'[0][round + 1] = <<lhs', rhs'>>
      BY <1>6, <1>9, <3>1
    <3>4. \A m \in 0..16 : m # round + 1 => trace'[0][m] = trace[0][m] BY <1>9, <3>1
    <3> HIDE DEF b, q, h
    <3>5. FirstIn'
      <4>1. trace'[0][0] = trace[0][0] BY <1>1, <3>4
      <4> QED BY <1>1, <3>2, <4>1 DEF FirstIn
    <3>6. Runs(0, 0, round)'
      <4>1. trace'[0][round + 1][1] = trace[0][round][2]
            /\ trace'[0][round + 1][2] = Mixing[round][trace[0][round][2]][trace[0][round][1]]
        BY <1>3, <3>1, <3>3
      <4>2. round \in 0..15 /\ RunsOf(trace[0], Mixing, 0, round) BY <1>1, <3>2 DEF Runs
      <4>3. RunsOf(trace'[0], Mixing, 0, round + 1) BY <3>4, <4>1, <4>2, RunsLonger
      <4> QED BY <1>1, <1>2, <4>3 DEF Runs
    <3> QED BY <1>1, <2>1, <3>5, <3>6 DEF Recorded
  <2>2. CASE step = "enc1"
    <3>1. b = 1 /\ ~Deciphering /\ q = round + 1 /\ Halves = <<lhs, rhs>> /\ Position = round
          /\ h = <<lhs', rhs'>>
      BY <2>2 DEF BlockNo, Deciphering, Halves, Position
    <3>2. FirstIn /\ Runs(0, 0, 16) /\ SecondIn /\ Runs(1, 0, round)
      BY <2>0, <2>2 DEF Recorded
    <3>3. trace[1][round] = <<lhs, rhs>> /\ trace'[1][round + 1] = <<lhs', rhs'>>
      BY <1>6, <1>9, <3>1
    <3>4. /\ \A m \in 0..16 : m # round + 1 => trace'[1][m] = trace[1][m]
          /\ \A m \in 0..16 : trace'[0][m] = trace[0][m]
      BY <1>9, <3>1
    <3> HIDE DEF b, q, h
    <3>5. FirstIn' /\ SecondIn'
      <4>1. /\ trace'[0][0] = trace[0][0] /\ trace'[0][16] = trace[0][16]
            /\ trace'[1][0] = trace[1][0]
        BY <1>1, <3>4
      <4> QED BY <1>1, <3>2, <4>1 DEF FirstIn, SecondIn
    <3>6. Runs(0, 0, 16)'
      <4>1. RunsOf(trace[0], Mixing, 0, 16) BY <3>2 DEF Runs
      <4>2. RunsOf(trace'[0], Mixing, 0, 16) BY <3>4, <4>1, RunsKept
      <4> QED BY <1>2, <4>2 DEF Runs
    <3>7. Runs(1, 0, round)'
      <4>1. trace'[1][round + 1][1] = trace[1][round][2]
            /\ trace'[1][round + 1][2] = Mixing[round][trace[1][round][2]][trace[1][round][1]]
        BY <1>3, <3>1, <3>3
      <4>2. round \in 0..15 /\ RunsOf(trace[1], Mixing, 0, round) BY <1>1, <3>2 DEF Runs
      <4>3. RunsOf(trace'[1], Mixing, 0, round + 1) BY <3>4, <4>1, <4>2, RunsLonger
      <4> QED BY <1>1, <1>2, <4>3 DEF Runs
    <3> QED BY <1>1, <2>2, <3>5, <3>6, <3>7 DEF Recorded
  <2>3. CASE step = "dec1"
    <3>1. b = 1 /\ Deciphering /\ q = 15 - round /\ Halves = <<rhs, lhs>>
          /\ Position = 16 - round /\ h = <<rhs', lhs'>>
      BY <2>3 DEF BlockNo, Deciphering, Halves, Position
    <3>2. SecondOut /\ Runs(1, 16 - round, 16) BY <2>0, <2>3 DEF Recorded
    <3>3. trace[1][16 - round] = <<rhs, lhs>> /\ trace'[1][15 - round] = <<rhs', lhs'>>
      BY <1>6, <1>9, <3>1
    <3>4. \A m \in 0..16 : m # 15 - round => trace'[1][m] = trace[1][m] BY <1>9, <3>1
    <3> HIDE DEF b, q, h
    <3>5. SecondOut'
      <4>1. trace'[1][16] = trace[1][16] BY <1>1, <3>4
      <4> QED BY <1>1, <3>2, <4>1 DEF SecondOut
    <3>6. Runs(1, 16 - round, 16)'
      <4>1. trace[1][16 - round][1] = trace'[1][15 - round][2]
            /\ trace[1][16 - round][2]
                 = Mixing[15 - round][trace'[1][15 - round][2]][trace'[1][15 - round][1]]
        BY <1>3, <3>1, <3>3
      <4> DEFINE m == 15 - round
      <4>2. m \in 0..15 /\ m + 1 = 16 - round /\ m = 16 - round' BY <1>1
      <4>3. RunsOf(trace[1], Mixing, m + 1, 16) BY <3>2, <4>2 DEF Runs
      <4>4. RunsOf(trace'[1], Mixing, m, 16)
        <5>1. trace[1][m + 1][1] = trace'[1][m][2]
              /\ trace[1][m + 1][2] = Mixing[m][trace'[1][m][2]][trace'[1][m][1]]
          BY <4>1, <4>2
        <5>2. \A j \in 0..16 : j # m => trace'[1][j] = trace[1][j] BY <3>4
        <5> HIDE DEF m
        <5> QED BY <4>2, <4>3, <5>1, <5>2, RunsEarlier
      <4> HIDE DEF m
      <4> QED BY <1>2, <4>2, <4>4 DEF Runs
    <3> QED BY <1>1, <2>3, <3>5, <3>6 DEF Recorded
  <2>4. CASE step = "dec0"
    <3>1. b = 0 /\ Deciphering /\ q = 15 - round /\ Halves = <<rhs, lhs>>
          /\ Position = 16 - round /\ h = <<rhs', lhs'>>
      BY <2>4 DEF BlockNo, Deciphering, Halves, Position
    <3>2. /\ SecondOut /\ Runs(1, 0, 16) /\ FirstOut /\ Runs(0, 16 - round, 16)
          /\ OutOf(trace[0][16])[7] = mid[7]
      BY <2>0, <2>4 DEF Recorded
    <3>3. trace[0][16 - round] = <<rhs, lhs>> /\ trace'[0][15 - round] = <<rhs', lhs'>>
      BY <1>6, <1>9, <3>1
    <3>4. /\ \A m \in 0..16 : m # 15 - round => trace'[0][m] = trace[0][m]
          /\ \A m \in 0..16 : trace'[1][m] = trace[1][m]
      BY <1>9, <3>1
    <3> HIDE DEF b, q, h
    <3>5. SecondOut' /\ FirstOut' /\ (OutOf(trace[0][16])[7] = mid[7])'
      <4>1. trace'[0][16] = trace[0][16] /\ trace'[1][16] = trace[1][16] BY <1>1, <3>4
      <4> QED BY <1>1, <3>2, <4>1 DEF SecondOut, FirstOut
    <3>6. Runs(1, 0, 16)'
      <4>1. RunsOf(trace[1], Mixing, 0, 16) BY <3>2 DEF Runs
      <4>2. RunsOf(trace'[1], Mixing, 0, 16) BY <3>4, <4>1, RunsKept
      <4> QED BY <1>2, <4>2 DEF Runs
    <3>7. Runs(0, 16 - round, 16)'
      <4>1. trace[0][16 - round][1] = trace'[0][15 - round][2]
            /\ trace[0][16 - round][2]
                 = Mixing[15 - round][trace'[0][15 - round][2]][trace'[0][15 - round][1]]
        BY <1>3, <3>1, <3>3
      <4> DEFINE m == 15 - round
      <4>2. m \in 0..15 /\ m + 1 = 16 - round /\ m = 16 - round' BY <1>1
      <4>3. RunsOf(trace[0], Mixing, m + 1, 16) BY <3>2, <4>2 DEF Runs
      <4>4. RunsOf(trace'[0], Mixing, m, 16)
        <5>1. trace[0][m + 1][1] = trace'[0][m][2]
              /\ trace[0][m + 1][2] = Mixing[m][trace'[0][m][2]][trace'[0][m][1]]
          BY <4>1, <4>2
        <5>2. \A j \in 0..16 : j # m => trace'[0][j] = trace[0][j] BY <3>4
        <5> HIDE DEF m
        <5> QED BY <4>2, <4>3, <5>1, <5>2, RunsEarlier
      <4> HIDE DEF m
      <4> QED BY <1>2, <4>2, <4>4 DEF Runs
    <3> QED BY <1>1, <2>4, <3>5, <3>6, <3>7 DEF Recorded
  <2> QED BY <1>5, <2>1, <2>2, <2>3, <2>4
<1> QED BY <1>10, <1>11, <1>12, <1>13, <1>14

-----------------------------------------------------------------------------
(* The steps between the blocks.                                           *)
LEMMA StartSealStep == Inv /\ StartSeal => Inv'
<1> SUFFICES ASSUME Inv, StartSeal PROVE Inv' OBVIOUS
<1> USE DEF Inv
<1>1. /\ Idle /\ last \in {"data", "unsealed"} /\ ~mf /\ Numbered
      /\ padded' = Pad(kind, data) /\ Load("enc0", padded') /\ Trace(0, 0, lhs', rhs')
      /\ UNCHANGED params /\ data' = data /\ text' = text /\ mf' = mf /\ last' = last
      /\ mid' = mid /\ kind' = kind /\ key' = key /\ version' = version
  BY DEF StartSeal, Numbered, params
<1>2. padded' \in Bytes16 BY <1>1, PadType DEF TypeOK, KeysOf
<1>3. /\ step' = "enc0" /\ round' = 0 /\ lhs' \in Half /\ rhs' \in Half
      /\ InOf(<<lhs', rhs'>>) = [i \in 0..7 |-> Pad(kind, data)[i]]
  <2>1. \A i \in 0..7 : padded'[i] \in Byte BY <1>2 DEF Bytes16
  <2> QED BY <1>1, <2>1, LoadIs
<1>4. Mixing' = Mixing /\ HurdleKey' = HurdleKey BY <1>1, MixingKept
<1>5. <<lhs', rhs'>> \in Half \X Half BY <1>3
<1>6. Again' = Again BY <1>1 DEF Again
<1>7. ASSUME Again PROVE trace' = trace /\ Related /\ trace[0][0] = <<lhs', rhs'>>
  <2>1. trace' = trace BY <1>1, <1>7 DEF Trace
  <2>2. Related BY <1>1, <1>7
  <2>3. InOf(trace[0][0]) = InOf(<<lhs', rhs'>>) BY <1>3, <2>2 DEF Related, FirstIn
  <2>4. trace[0][0] \in Half \X Half BY DEF TypeOK
  <2>5. trace[0][0] = <<lhs', rhs'>> BY <1>5, <2>3, <2>4, BlockFacts
  <2> QED BY <2>1, <2>2, <2>5
<1>8. trace' \in [0..1 -> [0..16 -> Half \X Half]] /\ trace'[0][0] = <<lhs', rhs'>>
  <2>1. CASE Again BY <1>7, <2>1 DEF TypeOK
  <2>2. CASE ~Again
    <3>1. TypeOK /\ 0 \in 0..1 /\ 0 \in 0..16 OBVIOUS
    <3>2. Trace(0, 0, lhs', rhs') /\ lhs' \in Half /\ rhs' \in Half BY <1>1, <1>3
    <3> QED BY <2>2, <3>1, <3>2, TraceIs
  <2> QED BY <2>1, <2>2
<1>9. TypeOK' BY <1>1, <1>2, <1>3, <1>4, <1>8 DEF TypeOK
<1>10. OnTrace'
  BY <1>3, <1>8 DEF OnTrace, Halves, BlockNo, Position, Deciphering
<1>11. Sealing' /\ Unsealing' /\ Flagged'
  BY <1>1, <1>3 DEF Sealing, Unsealing, Flagged, Numbered, Deciphering
<1>12. (Again /\ ~mf => Related)'
  BY <1>1, <1>4, <1>6, <1>7
  DEF Related, Runs, FirstIn, SecondIn, FirstOut, SecondOut, Numbered
<1>13. (~Again => Recorded)'
  <2>1. FirstIn' BY <1>1, <1>3, <1>8 DEF FirstIn
  <2>2. Runs(0, 0, round)' BY <1>3 DEF Runs, RunsOf
  <2> QED BY <1>3, <2>1, <2>2 DEF Recorded
<1> QED BY <1>9, <1>10, <1>11, <1>12, <1>13

LEMMA ChainStep == Inv /\ Chain => Inv'
<1> SUFFICES ASSUME Inv, Chain PROVE Inv' OBVIOUS
<1> USE DEF Inv
<1> DEFINE block == [i \in 0..7 |-> Xor(Output[i], padded[i + 8])]
<1>1. /\ step = "enc0" /\ round = 16 /\ mid' = Output
      /\ Load("enc1", block) /\ Trace(1, 0, lhs', rhs')
      /\ UNCHANGED params /\ data' = data /\ text' = text /\ mf' = mf /\ last' = last
      /\ padded' = padded /\ kind' = kind /\ key' = key /\ version' = version
  BY DEF Chain, Done, params
<1>2. ~mf /\ last \in {"data", "unsealed"} /\ Numbered /\ padded = Pad(kind, data)
  BY <1>1 DEF Flagged, Sealing, Idle
<1>3. trace[0][16] = <<lhs, rhs>>
  BY <1>1 DEF OnTrace, Halves, BlockNo, Position, Deciphering, Idle
<1>4. Output = OutOf(trace[0][16]) /\ Output \in Block BY <1>3, OutputIs
<1>5. \A i \in 0..7 : block[i] \in Byte
  <2> SUFFICES ASSUME NEW i \in 0..7 PROVE Xor(Output[i], padded[i + 8]) \in Byte OBVIOUS
  <2>1. Output[i] \in Byte BY <1>4 DEF Block
  <2>2. i + 8 \in 0..15 /\ padded \in Bytes16 BY DEF TypeOK
  <2>3. padded[i + 8] \in Byte BY <2>2 DEF Bytes16
  <2> QED BY <2>1, <2>3, XorType
<1>6. /\ step' = "enc1" /\ round' = 0 /\ lhs' \in Half /\ rhs' \in Half
      /\ InOf(<<lhs', rhs'>>) = [i \in 0..7 |-> block[i]]
  <2> HIDE DEF block
  <2> QED BY <1>1, <1>5, LoadIs
<1>7. InOf(<<lhs', rhs'>>) =
        [i \in 0..7 |-> Xor(OutOf(trace[0][16])[i], Pad(kind, data)[i + 8])]
  BY <1>2, <1>4, <1>6
<1>8. Mixing' = Mixing /\ HurdleKey' = HurdleKey BY <1>1, MixingKept
<1>9. <<lhs', rhs'>> \in Half \X Half /\ Again' = Again BY <1>1, <1>6 DEF Again
<1>10. ASSUME Again PROVE trace' = trace /\ Related /\ trace[1][0] = <<lhs', rhs'>>
  <2>1. trace' = trace BY <1>1, <1>10 DEF Trace
  <2>2. Related BY <1>2, <1>10
  <2>3. InOf(trace[1][0]) = InOf(<<lhs', rhs'>>) BY <1>7, <2>2 DEF Related, SecondIn
  <2>4. trace[1][0] \in Half \X Half BY DEF TypeOK
  <2>5. trace[1][0] = <<lhs', rhs'>> BY <1>9, <2>3, <2>4, BlockFacts
  <2> QED BY <2>1, <2>2, <2>5
<1>11. /\ trace' \in [0..1 -> [0..16 -> Half \X Half]] /\ trace'[1][0] = <<lhs', rhs'>>
       /\ \A m \in 0..16 : trace'[0][m] = trace[0][m]
  <2>1. CASE Again BY <1>10, <2>1 DEF TypeOK
  <2>2. CASE ~Again
    <3>1. TypeOK /\ 1 \in 0..1 /\ 0 \in 0..16 OBVIOUS
    <3>2. Trace(1, 0, lhs', rhs') /\ lhs' \in Half /\ rhs' \in Half BY <1>1, <1>6
    <3>3. /\ trace' \in [0..1 -> [0..16 -> Half \X Half]] /\ trace'[1][0] = <<lhs', rhs'>>
          /\ \A c \in 0..1, m \in 0..16 : c # 1 \/ m # 0 => trace'[c][m] = trace[c][m]
      BY <2>2, <3>1, <3>2, TraceIs
    <3> QED BY <3>3
  <2> QED BY <2>1, <2>2
<1> HIDE DEF block
<1>12. TypeOK' BY <1>1, <1>4, <1>6, <1>8, <1>11 DEF TypeOK
<1>13. OnTrace'
  BY <1>6, <1>11 DEF OnTrace, Halves, BlockNo, Position, Deciphering
<1>14. Sealing' /\ Unsealing' /\ Flagged'
  <2>1. mid' = OutOf(trace'[0][16]) BY <1>1, <1>4, <1>11
  <2>2. Sealing' BY <1>1, <1>2, <1>6, <2>1 DEF Sealing, Numbered
  <2> QED BY <1>1, <1>2, <1>6, <2>2 DEF Unsealing, Flagged, Deciphering
<1>15. (Again /\ ~mf => Related)'
  BY <1>1, <1>8, <1>9, <1>10
  DEF Related, Runs, FirstIn, SecondIn, FirstOut, SecondOut, Numbered
<1>16. (~Again => Recorded)'
  <2> SUFFICES ASSUME ~Again PROVE Recorded' BY <1>9
  <2>1. FirstIn /\ RunsOf(trace[0], Mixing, 0, 16) BY <1>1 DEF Recorded, Runs
  <2>2. trace'[0][0] = trace[0][0] /\ trace'[0][16] = trace[0][16] BY <1>11
  <2>3. FirstIn' BY <1>1, <2>1, <2>2 DEF FirstIn
  <2>4. SecondIn' BY <1>1, <1>7, <1>11, <2>2 DEF SecondIn
  <2>5. Runs(0, 0, 16)'
    <3>1. \A m \in 0..16 : trace'[0][m] = trace[0][m] BY <1>11
    <3>2. RunsOf(trace[0], Mixing, 0, 16) /\ 0 \in 0..16 /\ 16 \in 0..16 BY <2>1
    <3>3. RunsOf(trace'[0], Mixing, 0, 16) BY <3>1, <3>2, RunsKept
    <3> QED BY <1>8, <3>3 DEF Runs
  <2>6. Runs(1, 0, round)' BY <1>6 DEF Runs, RunsOf
  <2> QED BY <1>6, <2>3, <2>4, <2>5, <2>6 DEF Recorded
<1> QED BY <1>12, <1>13, <1>14, <1>15, <1>16

(* Two texts that the operation on the history has written are the same.   *)
LEMMA TextKept ==
  ASSUME TypeOK, FirstOut, SecondOut, NEW x \in Text,
         \A i \in 0..6 : x[i] = OutOf(trace[0][16])[i],
         \A i \in 0..7 : x[i + 7] = OutOf(trace[1][16])[i]
  PROVE  x = text
<1>1. ASSUME NEW j \in 0..14 PROVE x[j] = text[j]
  <2>1. CASE j < 7
    <3>1. j \in 0..6 BY <2>1
    <3> QED BY <3>1 DEF FirstOut
  <2>2. CASE ~(j < 7)
    <3>1. j - 7 \in 0..7 /\ (j - 7) + 7 = j BY <2>2
    <3>2. OutOf(trace[1][16])[j - 7] = text[(j - 7) + 7] BY <3>1 DEF SecondOut
    <3> QED BY <3>1, <3>2
  <2> QED BY <2>1, <2>2
<1>2. text \in Text BY DEF TypeOK
<1> QED BY <1>1, <1>2 DEF Text

LEMMA FinishSealFacts ==
  Inv /\ FinishSeal =>
    /\ Inv'
    /\ last = "unsealed" => text' = text
<1> SUFFICES ASSUME Inv, FinishSeal PROVE Inv' /\ (last = "unsealed" => text' = text) OBVIOUS
<1> USE DEF Inv
<1>1. /\ step = "enc1" /\ round = 16
      /\ text' = [i \in 0..14 |-> IF i < 7 THEN mid[i] ELSE Output[i - 7]]
      /\ step' = "idle" /\ last' = "sealed"
      /\ UNCHANGED params /\ data' = data /\ mf' = mf /\ round' = round /\ lhs' = lhs
      /\ rhs' = rhs /\ padded' = padded /\ mid' = mid /\ trace' = trace
      /\ kind' = kind /\ key' = key /\ version' = version
  BY DEF FinishSeal, Done, params
<1>2. /\ ~mf /\ last \in {"data", "unsealed"} /\ Numbered /\ padded = Pad(kind, data)
      /\ mid = OutOf(trace[0][16])
  BY <1>1 DEF Flagged, Sealing, Idle
<1>3. trace[1][16] = <<lhs, rhs>>
  BY <1>1 DEF OnTrace, Halves, BlockNo, Position, Deciphering, Idle
<1>4. Output = OutOf(trace[1][16]) /\ Output \in Block BY <1>3, OutputIs
<1>5. text' \in Text
  <2> SUFFICES ASSUME NEW i \in 0..14 PROVE (IF i < 7 THEN mid[i] ELSE Output[i - 7]) \in Byte
    BY <1>1 DEF Text
  <2>1. mid \in Block BY DEF TypeOK
  <2>2. CASE i < 7
    <3>1. i \in 0..7 BY <2>2
    <3> QED BY <2>1, <2>2, <3>1 DEF Block
  <2>3. CASE ~(i < 7)
    <3>1. i - 7 \in 0..7 BY <2>3
    <3> QED BY <1>4, <2>3, <3>1 DEF Block
  <2> QED BY <2>2, <2>3
<1>6. \A i \in 0..6 : text'[i] = OutOf(trace[0][16])[i]
  <2> SUFFICES ASSUME NEW i \in 0..6 PROVE text'[i] = OutOf(trace[0][16])[i] OBVIOUS
  <2>1. i \in 0..14 /\ i < 7 OBVIOUS
  <2> QED BY <1>1, <1>2, <2>1
<1>7. \A i \in 0..7 : text'[i + 7] = OutOf(trace[1][16])[i]
  <2> SUFFICES ASSUME NEW i \in 0..7 PROVE text'[i + 7] = OutOf(trace[1][16])[i] OBVIOUS
  <2>1. i + 7 \in 0..14 /\ ~(i + 7 < 7) /\ (i + 7) - 7 = i OBVIOUS
  <2> QED BY <1>1, <1>4, <2>1
<1>8. last = "unsealed" => text' = text
  <2> SUFFICES ASSUME last = "unsealed" PROVE text' = text OBVIOUS
  <2>1. Related BY <1>2 DEF Again
  <2>2. FirstOut /\ SecondOut BY <2>1 DEF Related
  <2> QED BY <1>5, <1>6, <1>7, <2>2, TextKept
<1>9. Mixing' = Mixing /\ HurdleKey' = HurdleKey BY <1>1, MixingKept
<1>10. TypeOK' BY <1>1, <1>5, <1>9 DEF TypeOK
<1>11. OnTrace' /\ Sealing' /\ Unsealing' /\ Flagged'
  BY <1>1, <1>2 DEF OnTrace, Sealing, Unsealing, Flagged, Deciphering, Idle
<1>12. FirstIn /\ SecondIn /\ Runs(0, 0, 16) /\ Runs(1, 0, 16)
  <2>1. CASE Again BY <1>2, <2>1 DEF Related
  <2>2. CASE ~Again BY <1>1, <2>2 DEF Recorded
  <2> QED BY <2>1, <2>2
<1>13. Related'
  <2>1. FirstIn' /\ SecondIn' /\ Numbered'
    BY <1>1, <1>2, <1>12 DEF FirstIn, SecondIn, Numbered
  <2>2. Runs(0, 0, 16)' /\ Runs(1, 0, 16)' BY <1>1, <1>9, <1>12 DEF Runs
  <2>3. FirstOut' BY <1>1, <1>6 DEF FirstOut
  <2>4. SecondOut'
    <3>1. trace[1][16] \in Half \X Half BY DEF TypeOK
    <3>2. OutOf(trace[1][16]) = [i \in 0..7 |-> OutOf(trace[1][16])[i]] BY DEF OutOf
    <3>3. OutOf(trace[1][16]) = [i \in 0..7 |-> text'[i + 7]] BY <1>7, <3>2
    <3> QED BY <1>1, <3>3 DEF SecondOut
  <2> QED BY <2>1, <2>2, <2>3, <2>4 DEF Related
<1>14. Again' BY <1>1 DEF Again
<1> QED BY <1>8, <1>10, <1>11, <1>13, <1>14

LEMMA StartUnsealStep == Inv /\ StartUnseal => Inv'
<1> SUFFICES ASSUME Inv, StartUnseal PROVE Inv' OBVIOUS
<1> USE DEF Inv
<1> DEFINE block == [i \in 0..7 |-> text[i + 7]]
<1>1. /\ Idle /\ last \in {"text", "sealed"} /\ Load("dec1", block) /\ Trace(1, 16, rhs', lhs')
      /\ UNCHANGED params /\ data' = data /\ text' = text /\ mf' = mf /\ last' = last
      /\ padded' = padded /\ mid' = mid /\ kind' = kind /\ key' = key /\ version' = version
  BY DEF StartUnseal, params
<1>2. ~mf BY <1>1 DEF Flagged
<1>3. \A i \in 0..7 : block[i] \in Byte
  <2> SUFFICES ASSUME NEW i \in 0..7 PROVE text[i + 7] \in Byte OBVIOUS
  <2>1. i + 7 \in 0..14 /\ text \in Text BY DEF TypeOK
  <2> QED BY <2>1 DEF Text
<1>4. /\ step' = "dec1" /\ round' = 0 /\ lhs' \in Half /\ rhs' \in Half
      /\ OutOf(<<rhs', lhs'>>) = [i \in 0..7 |-> block[i]]
  <2> HIDE DEF block
  <2> QED BY <1>1, <1>3, LoadIs
<1>5. OutOf(<<rhs', lhs'>>) = [i \in 0..7 |-> text[i + 7]] BY <1>4
<1>6. Mixing' = Mixing /\ HurdleKey' = HurdleKey BY <1>1, MixingKept
<1>7. <<rhs', lhs'>> \in Half \X Half /\ Again' = Again BY <1>1, <1>4 DEF Again
<1>8. ASSUME Again PROVE trace' = trace /\ Related /\ trace[1][16] = <<rhs', lhs'>>
  <2>1. trace' = trace BY <1>1, <1>8 DEF Trace
  <2>2. Related BY <1>2, <1>8
  <2>3. OutOf(trace[1][16]) = OutOf(<<rhs', lhs'>>) BY <1>5, <2>2 DEF Related, SecondOut
  <2>4. trace[1][16] \in Half \X Half BY DEF TypeOK
  <2>5. trace[1][16] = <<rhs', lhs'>> BY <1>7, <2>3, <2>4, BlockFacts
  <2> QED BY <2>1, <2>2, <2>5
<1>9. trace' \in [0..1 -> [0..16 -> Half \X Half]] /\ trace'[1][16] = <<rhs', lhs'>>
  <2>1. CASE Again BY <1>8, <2>1 DEF TypeOK
  <2>2. CASE ~Again
    <3>1. TypeOK /\ 1 \in 0..1 /\ 16 \in 0..16 OBVIOUS
    <3>2. Trace(1, 16, rhs', lhs') /\ lhs' \in Half /\ rhs' \in Half BY <1>1, <1>4
    <3> QED BY <2>2, <3>1, <3>2, TraceIs
  <2> QED BY <2>1, <2>2
<1> HIDE DEF block
<1>10. TypeOK' BY <1>1, <1>4, <1>6, <1>9 DEF TypeOK
<1>11. OnTrace'
  BY <1>4, <1>9 DEF OnTrace, Halves, BlockNo, Position, Deciphering
<1>12. Sealing' /\ Unsealing' /\ Flagged'
  BY <1>1, <1>2, <1>4 DEF Sealing, Unsealing, Flagged, Deciphering
<1>13. (Again /\ ~mf => Related)'
  BY <1>1, <1>6, <1>7, <1>8
  DEF Related, Runs, FirstIn, SecondIn, FirstOut, SecondOut, Numbered
<1>14. (~Again => Recorded)'
  <2>1. SecondOut' BY <1>1, <1>5, <1>9 DEF SecondOut
  <2>2. Runs(1, 16 - round, 16)' BY <1>4 DEF Runs, RunsOf
  <2> QED BY <1>4, <2>1, <2>2 DEF Recorded
<1> QED BY <1>10, <1>11, <1>12, <1>13, <1>14

LEMMA StealStep == Inv /\ Steal => Inv'
<1> SUFFICES ASSUME Inv, Steal PROVE Inv' OBVIOUS
<1> USE DEF Inv
<1> DEFINE block == [i \in 0..7 |-> IF i = 7 THEN Output[7] ELSE text[i]]
<1>1. /\ step = "dec1" /\ round = 16 /\ mid' = Output
      /\ Load("dec0", block) /\ Trace(0, 16, rhs', lhs')
      /\ UNCHANGED params /\ data' = data /\ text' = text /\ mf' = mf /\ last' = last
      /\ padded' = padded /\ kind' = kind /\ key' = key /\ version' = version
  BY DEF Steal, Done, params
<1>2. ~mf /\ last \in {"text", "sealed"}
  BY <1>1 DEF Flagged, Unsealing, Idle, Deciphering
<1>3. trace[1][0] = <<rhs, lhs>>
  BY <1>1 DEF OnTrace, Halves, BlockNo, Position, Deciphering, Idle
<1>4. Output = InOf(trace[1][0]) /\ Output \in Block BY <1>3, OutputIs
<1>5. \A i \in 0..7 : block[i] \in Byte
  <2> SUFFICES ASSUME NEW i \in 0..7
               PROVE  (IF i = 7 THEN Output[7] ELSE text[i]) \in Byte
    OBVIOUS
  <2>1. Output[7] \in Byte BY <1>4 DEF Block
  <2>2. i \in 0..14 /\ text \in Text BY DEF TypeOK
  <2> QED BY <2>1, <2>2 DEF Text
<1>6. /\ step' = "dec0" /\ round' = 0 /\ lhs' \in Half /\ rhs' \in Half
      /\ OutOf(<<rhs', lhs'>>) = [i \in 0..7 |-> block[i]]
  <2> HIDE DEF block
  <2> QED BY <1>1, <1>5, LoadIs
<1>7. OutOf(<<rhs', lhs'>>) = [i \in 0..7 |-> IF i = 7 THEN Output[7] ELSE text[i]]
  BY <1>6
<1>8. Mixing' = Mixing /\ HurdleKey' = HurdleKey BY <1>1, MixingKept
<1>9. <<rhs', lhs'>> \in Half \X Half /\ Again' = Again BY <1>1, <1>6 DEF Again
<1> HIDE DEF block
<1>10. ASSUME Again PROVE trace' = trace /\ Related /\ trace[0][16] = <<rhs', lhs'>>
  <2>1. trace' = trace BY <1>1, <1>10 DEF Trace
  <2>2. Related BY <1>2, <1>10
  <2>3. trace[0][16] \in Half \X Half BY DEF TypeOK
  <2>4. OutOf(trace[0][16]) \in Block BY <2>3, BlockFacts
  <2>5. OutOf(trace[0][16])[7] = Output[7]
    <3>1. Output[7] = Xor(OutOf(trace[0][16])[7], Pad(kind, data)[7 + 8])
      BY <1>4, <2>2 DEF Related, SecondIn
    <3>2. kind \in Kinds /\ OutOf(trace[0][16])[7] \in Byte BY <2>4 DEF Block, TypeOK
    <3>3. Pad(kind, data)[7 + 8] = 0 BY <3>2, PadByte
    <3> QED BY <3>1, <3>2, <3>3, ByteFacts
  <2>6. \A i \in 0..6 : OutOf(trace[0][16])[i] = text[i] BY <2>2 DEF Related, FirstOut
  <2>7. OutOf(trace[0][16]) = [i \in 0..7 |-> IF i = 7 THEN Output[7] ELSE text[i]]
    <3>1. \A i \in 0..7 : i # 7 => i \in 0..6 OBVIOUS
    <3> QED BY <2>4, <2>5, <2>6, <3>1 DEF Block
  <2>8. trace[0][16] = <<rhs', lhs'>> BY <1>7, <1>9, <2>3, <2>7, BlockFacts
  <2> QED BY <2>1, <2>2, <2>8
<1>11. /\ trace' \in [0..1 -> [0..16 -> Half \X Half]] /\ trace'[0][16] = <<rhs', lhs'>>
       /\ \A m \in 0..16 : trace'[1][m] = trace[1][m]
  <2>1. CASE Again BY <1>10, <2>1 DEF TypeOK
  <2>2. CASE ~Again
    <3>1. TypeOK /\ 0 \in 0..1 /\ 16 \in 0..16 OBVIOUS
    <3>2. Trace(0, 16, rhs', lhs') /\ lhs' \in Half /\ rhs' \in Half BY <1>1, <1>6
    <3>3. /\ trace' \in [0..1 -> [0..16 -> Half \X Half]] /\ trace'[0][16] = <<rhs', lhs'>>
          /\ \A c \in 0..1, m \in 0..16 : c # 0 \/ m # 16 => trace'[c][m] = trace[c][m]
      BY <2>2, <3>1, <3>2, TraceIs
    <3> QED BY <3>3
  <2> QED BY <2>1, <2>2
<1>12. TypeOK' BY <1>1, <1>4, <1>6, <1>8, <1>11 DEF TypeOK
<1>13. OnTrace'
  BY <1>6, <1>11 DEF OnTrace, Halves, BlockNo, Position, Deciphering
<1>14. Sealing' /\ Unsealing' /\ Flagged'
  <2>1. mid' = InOf(trace'[1][0]) BY <1>1, <1>4, <1>11
  <2>2. Unsealing' BY <1>1, <1>2, <1>6, <2>1 DEF Unsealing
  <2> QED BY <1>1, <1>2, <1>6, <2>2 DEF Sealing, Flagged, Deciphering
<1>15. (Again /\ ~mf => Related)'
  BY <1>1, <1>8, <1>9, <1>10
  DEF Related, Runs, FirstIn, SecondIn, FirstOut, SecondOut, Numbered
<1>16. (~Again => Recorded)'
  <2> SUFFICES ASSUME ~Again PROVE Recorded' BY <1>9
  <2>1. SecondOut /\ RunsOf(trace[1], Mixing, 0, 16) BY <1>1 DEF Recorded, Runs
  <2>2. SecondOut'
    <3>1. trace'[1][16] = trace[1][16] BY <1>11
    <3> QED BY <1>1, <2>1, <3>1 DEF SecondOut
  <2>3. Runs(1, 0, 16)'
    <3>1. \A m \in 0..16 : trace'[1][m] = trace[1][m] BY <1>11
    <3>2. RunsOf(trace[1], Mixing, 0, 16) /\ 0 \in 0..16 /\ 16 \in 0..16 BY <2>1
    <3>3. RunsOf(trace'[1], Mixing, 0, 16) BY <3>1, <3>2, RunsKept
    <3> QED BY <1>8, <3>3 DEF Runs
  <2>4. Runs(0, 16 - round, 16)' BY <1>6 DEF Runs, RunsOf
  <2>5. FirstOut' /\ (OutOf(trace[0][16])[7] = mid[7])'
    <3>1. OutOf(trace'[0][16]) = [i \in 0..7 |-> IF i = 7 THEN Output[7] ELSE text[i]]
      BY <1>7, <1>11
    <3>2. OutOf(trace'[0][16])[7] = mid'[7] BY <1>1, <3>1
    <3>3. \A i \in 0..6 : OutOf(trace'[0][16])[i] = text'[i] BY <1>1, <3>1
    <3> QED BY <3>2, <3>3 DEF FirstOut
  <2> QED BY <1>6, <2>2, <2>3, <2>4, <2>5 DEF Recorded
<1> QED BY <1>12, <1>13, <1>14, <1>15, <1>16

LEMMA FinishUnsealFacts ==
  Inv /\ FinishUnseal =>
    /\ Inv'
    /\ last = "sealed" => data' = data /\ ~mf'
<1> SUFFICES ASSUME Inv, FinishUnseal
             PROVE  Inv' /\ (last = "sealed" => data' = data /\ ~mf')
  OBVIOUS
<1> USE DEF Inv
<1>1. /\ step = "dec0" /\ round = 16
      /\ padded' = [p \in 0..15 |-> CASE p < 8 -> Output[p]
                                      [] p \in 8..14 -> Xor(mid[p - 8], text[p - 8])
                                      [] p = 15 -> 0]
      /\ data' = Unpad(kind, padded') /\ mf' = Mf(kind, padded')
      /\ step' = "idle" /\ last' = "unsealed"
      /\ UNCHANGED params /\ text' = text /\ round' = round /\ lhs' = lhs
      /\ rhs' = rhs /\ mid' = mid /\ trace' = trace
      /\ kind' = kind /\ key' = key /\ version' = version
  BY DEF FinishUnseal, Done, params
<1>2. ~mf /\ last \in {"text", "sealed"} /\ mid = InOf(trace[1][0])
  BY <1>1 DEF Flagged, Unsealing, Idle, Deciphering
<1>3. trace[0][0] = <<rhs, lhs>>
  BY <1>1 DEF OnTrace, Halves, BlockNo, Position, Deciphering, Idle
<1>4. Output = InOf(trace[0][0]) /\ Output \in Block BY <1>3, OutputIs
<1>5. /\ \A i \in 0..7 : padded'[i] = Output[i] /\ Output[i] \in Byte
      /\ \A i \in 0..6 : /\ padded'[i + 8] = Xor(mid[i], text[i])
                         /\ mid[i] \in Byte /\ text[i] \in Byte
      /\ padded'[15] = 0 /\ mid[7] \in Byte
  <2>1. \A i \in 0..7 : Output[i] \in Byte /\ mid[i] \in Byte BY <1>4 DEF Block, TypeOK
  <2>2. ASSUME NEW i \in 0..7 PROVE padded'[i] = Output[i]
    <3>1. i \in 0..15 /\ i < 8 OBVIOUS
    <3> QED BY <1>1, <3>1
  <2>3. ASSUME NEW i \in 0..6 PROVE padded'[i + 8] = Xor(mid[i], text[i]) /\ text[i] \in Byte
    <3>1. i + 8 \in 0..15 /\ ~(i + 8 < 8) /\ i + 8 \in 8..14 /\ (i + 8) - 8 = i OBVIOUS
    <3>2. i \in 0..14 /\ text \in Text BY DEF TypeOK
    <3> QED BY <1>1, <3>1, <3>2 DEF Text
  <2>4. padded'[15] = 0 BY <1>1
  <2>5. 7 \in 0..7 /\ \A i \in 0..6 : i \in 0..7 OBVIOUS
  <2> QED BY <2>1, <2>2, <2>3, <2>4, <2>5
<1>6. padded' \in Bytes16
  <2>1. ASSUME NEW p \in 0..15 PROVE padded'[p] \in Byte
    <3>1. CASE p < 8
      <4>1. p \in 0..7 BY <3>1
      <4> QED BY <1>5, <4>1
    <3>2. CASE p \in 8..14
      <4>1. p - 8 \in 0..6 /\ (p - 8) + 8 = p BY <3>2
      <4>2. padded'[p] = Xor(mid[p - 8], text[p - 8]) /\ mid[p - 8] \in Byte
            /\ text[p - 8] \in Byte
        BY <1>5, <4>1
      <4> QED BY <4>2, XorType
    <3>3. CASE p = 15 BY <1>5, <3>3, ByteFacts
    <3> QED BY <3>1, <3>2, <3>3
  <2>2. padded' = [p \in 0..15 |-> padded'[p]] BY <1>1
  <2> QED BY <2>1, <2>2 DEF Bytes16
<1>7. kind \in Kinds /\ data \in KeysOf(kind) /\ data' \in KeysOf(kind)
  BY <1>1, <1>6, UnpadType DEF TypeOK, KeysOf
<1>8. mf' \in BOOLEAN BY <1>1 DEF Mf
<1>9. Mixing' = Mixing /\ HurdleKey' = HurdleKey BY <1>1, MixingKept
<1>10. TypeOK' BY <1>1, <1>6, <1>7, <1>8, <1>9 DEF TypeOK, KeysOf
<1>11. OnTrace' /\ Sealing' /\ Unsealing' /\ Flagged'
  BY <1>1 DEF OnTrace, Sealing, Unsealing, Flagged, Deciphering, Idle
<1>12. FirstOut /\ SecondOut /\ Runs(0, 0, 16) /\ Runs(1, 0, 16)
       /\ OutOf(trace[0][16]) \in Block
  <2>1. trace[0][16] \in Half \X Half BY DEF TypeOK
  <2>2. OutOf(trace[0][16]) \in Block BY <2>1, BlockFacts
  <2>3. CASE Again BY <1>2, <2>2, <2>3 DEF Related
  <2>4. CASE ~Again BY <1>1, <2>2, <2>4 DEF Recorded
  <2> QED BY <2>3, <2>4
<1>13. \A i \in 0..6 : mid[i] = Xor(text[i], padded'[i + 8])
  <2> SUFFICES ASSUME NEW i \in 0..6 PROVE mid[i] = Xor(text[i], Xor(mid[i], text[i]))
    BY <1>5
  <2> QED BY <1>5, XorCancels
<1>14. ASSUME last = "sealed"
       PROVE  padded' = Pad(kind, data) /\ data' = data /\ ~mf' /\ Numbered
  <2> DEFINE pad == Pad(kind, data)
  <2>1. Related BY <1>2, <1>14 DEF Again
  <2>2. pad \in Bytes16 BY <1>7, PadType
  <2>3. pad[15] = 0 BY <1>7, PadByte
  <2>4. /\ InOf(trace[0][0]) = [i \in 0..7 |-> pad[i]]
        /\ InOf(trace[1][0]) = [i \in 0..7 |-> Xor(OutOf(trace[0][16])[i], pad[i + 8])]
        /\ \A i \in 0..6 : OutOf(trace[0][16])[i] = text[i] /\ Numbered
    BY <2>1 DEF Related, FirstIn, SecondIn, FirstOut
  <2> HIDE DEF pad
  <2>5. ASSUME NEW p \in 0..15 PROVE padded'[p] = pad[p]
    <3>1. CASE p < 8
      <4>1. p \in 0..7 BY <3>1
      <4> QED BY <1>4, <1>5, <2>4, <4>1
    <3>2. CASE p \in 8..14
      <4> DEFINE i == p - 8
      <4>1. i \in 0..6 /\ i \in 0..7 /\ i + 8 = p /\ i + 8 \in 0..15 BY <3>2
      <4> HIDE DEF i
      <4>2. mid[i] = Xor(text[i], pad[i + 8]) BY <1>2, <2>4, <4>1
      <4>3. pad[i + 8] \in Byte /\ text[i] \in Byte BY <1>5, <2>2, <4>1 DEF Bytes16
      <4>4. Xor(Xor(text[i], pad[i + 8]), text[i]) = pad[i + 8] BY <4>3, XorCancels
      <4>5. padded'[i + 8] = Xor(mid[i], text[i]) BY <1>5, <4>1
      <4> QED BY <4>1, <4>2, <4>4, <4>5
    <3>3. CASE p = 15 BY <1>5, <2>3, <3>3
    <3> QED BY <3>1, <3>2, <3>3
  <2>6. padded' = pad BY <1>6, <2>2, <2>5 DEF Bytes16
  <2>7. 0 \in 0..6 OBVIOUS
  <2>8. Numbered BY <2>4, <2>7
  <2>9. data' = data BY <1>1, <1>7, <2>6, UnpadOfPad DEF pad
  <2>10. ~Mf(kind, Pad(kind, data)) BY <1>7, <2>8, PadNotFlagged DEF Numbered
  <2> QED BY <1>1, <2>6, <2>8, <2>9, <2>10 DEF pad
<1>15. ASSUME ~mf' PROVE Pad(kind, data') = padded' /\ Numbered'
  <2>1. ~Mf(kind, padded') BY <1>1, <1>15
  <2>2. padded'[15] = 0 BY <1>5
  <2>3. /\ Pad(kind, Unpad(kind, padded')) = padded'
        /\ kind = "SCK" => Unpad(kind, padded')[11] \in KeyNumbers
    BY <1>6, <1>7, <2>1, <2>2, PadOfUnpad
  <2> QED BY <1>1, <2>3 DEF Numbered
<1>16. (Again /\ ~mf => Related)'
  <2> SUFFICES ASSUME ~mf' PROVE Related' OBVIOUS
  <2>1. Pad(kind, data') = padded' /\ Numbered' BY <1>15
  <2>2. Runs(0, 0, 16)' /\ Runs(1, 0, 16)' /\ FirstOut' /\ SecondOut'
    BY <1>1, <1>9, <1>12 DEF Runs, FirstOut, SecondOut
  <2>3. FirstIn'
    <3>1. InOf(trace[0][0]) = [i \in 0..7 |-> Output[i]] BY <1>4 DEF Block
    <3>2. InOf(trace[0][0]) = [i \in 0..7 |-> padded'[i]] BY <1>5, <3>1
    <3> QED BY <1>1, <2>1, <3>2 DEF FirstIn
  <2>4. OutOf(trace[0][16])[7] = mid[7]
    <3>1. CASE last = "sealed"
      <4>1. SecondIn BY <1>2, <3>1 DEF Again, Related
      <4>2. mid[7] = Xor(OutOf(trace[0][16])[7], Pad(kind, data)[7 + 8])
        BY <1>2, <4>1 DEF SecondIn
      <4>3. Pad(kind, data)[7 + 8] = 0 BY <1>7, PadByte
      <4>4. OutOf(trace[0][16])[7] \in Byte BY <1>12 DEF Block
      <4> QED BY <4>2, <4>3, <4>4, ByteFacts
    <3>2. CASE last = "text" BY <1>1, <3>2 DEF Recorded, Again
    <3> QED BY <1>2, <3>1, <3>2
  <2>5. ASSUME NEW i \in 0..7 PROVE mid[i] = Xor(OutOf(trace[0][16])[i], padded'[i + 8])
    <3>1. CASE i = 7 BY <1>5, <2>4, <3>1, ByteFacts
    <3>2. CASE i # 7
      <4>1. i \in 0..6 BY <3>2
      <4>2. OutOf(trace[0][16])[i] = text[i] BY <1>12, <4>1 DEF FirstOut
      <4> QED BY <1>13, <4>1, <4>2
    <3> QED BY <3>1, <3>2
  <2>6. SecondIn'
    <3>1. mid = [i \in 0..7 |-> mid[i]] BY DEF TypeOK, Block
    <3>2. InOf(trace[1][0]) = [i \in 0..7 |-> Xor(OutOf(trace[0][16])[i], padded'[i + 8])]
      BY <1>2, <2>5, <3>1
    <3> QED BY <1>1, <2>1, <3>2 DEF SecondIn
  <2> QED BY <2>1, <2>2, <2>3, <2>6 DEF Related
<1>17. Again' BY <1>1 DEF Again
<1> QED BY <1>10, <1>11, <1>14, <1>16, <1>17

-----------------------------------------------------------------------------
LEMMA ZerosType == \A S : Zeros(S) \in [S -> Byte]
BY ByteFacts DEF Zeros

LEMMA InitInv == Init => Inv
<1> SUFFICES ASSUME Init PROVE Inv OBVIOUS
<1>1. /\ kind \in Kinds /\ key \in Bytes16 /\ version \in [0..1 -> Byte]
      /\ mf = FALSE /\ step = "idle" /\ round = 0 /\ last \in {"data", "text"}
  BY SealingAssumption DEF Init
<1>2. data \in [1..SizeOf(kind) -> Byte]
  <2>1. CASE last = "data"
    <3>1. data \in Data(kind) BY <2>1 DEF Init
    <3>2. Data(kind) \subseteq [1..SizeOf(kind) -> Byte] BY <1>1, SealingAssumption
    <3> QED BY <3>1, <3>2
  <2>2. CASE last = "text"
    <3>1. data = Zeros(1..SizeOf(kind)) BY <2>2 DEF Init
    <3> QED BY <3>1, ZerosType
  <2> QED BY <1>1, <2>1, <2>2
<1>3. text \in Text
  <2>1. CASE last = "data"
    <3>1. text = Zeros(0..14) BY <2>1 DEF Init
    <3> QED BY <3>1, ZerosType DEF Text
  <2>2. CASE last = "text" BY <2>2, SealingAssumption DEF Init
  <2> QED BY <1>1, <2>1, <2>2
<1>4. lhs \in Half /\ rhs \in Half /\ padded \in Bytes16 /\ mid \in Block
  BY ZerosType DEF Init, Half, Bytes16, Block
<1>5. trace \in [0..1 -> [0..16 -> Half \X Half]]
  <2>1. <<Zeros(0..3), Zeros(0..3)>> \in Half \X Half BY ZerosType DEF Half
  <2> QED BY <2>1 DEF Init
<1>6. HurdleKey \in Bytes16 BY <1>1, HurdleKeyType DEF Params
<1>7. TypeOK
  <2>1. mf \in BOOLEAN BY <1>1, Zenon
  <2>2. round \in 0..16 BY <1>1, SMT
  <2>3. /\ last \in {"data", "text", "sealed", "unsealed"}
        /\ step \in {"idle", "enc0", "enc1", "dec0", "dec1"}
    BY <1>1, Zenon
  <2> QED BY <1>1, <1>2, <1>3, <1>4, <1>5, <1>6, <2>1, <2>2, <2>3, Zenon DEF TypeOK
<1>8. Flagged /\ OnTrace /\ Sealing /\ Unsealing
  BY <1>1 DEF Flagged, OnTrace, Sealing, Unsealing, Idle, Deciphering
<1>9. ~Again /\ Recorded BY <1>1 DEF Again, Recorded
<1> QED BY <1>7, <1>8, <1>9 DEF Inv

LEMMA StutterInv == Inv /\ UNCHANGED vars => Inv'
<1> SUFFICES ASSUME Inv, UNCHANGED vars PROVE Inv' OBVIOUS
<1>1. /\ UNCHANGED params /\ kind' = kind /\ key' = key /\ version' = version
      /\ data' = data /\ text' = text /\ mf' = mf /\ last' = last /\ step' = step
      /\ round' = round /\ lhs' = lhs /\ rhs' = rhs /\ padded' = padded /\ mid' = mid
      /\ trace' = trace
  BY DEF vars, params, cipher
<1>2. Mixing' = Mixing /\ HurdleKey' = HurdleKey BY <1>1, MixingKept
<1>3. TypeOK' BY <1>1, <1>2 DEF Inv, TypeOK
<1>4. Flagged' BY <1>1 DEF Inv, Flagged, Idle
<1>5. OnTrace'
  BY <1>1 DEF Inv, OnTrace, Idle, Halves, BlockNo, Position, Deciphering
<1>6. Sealing' BY <1>1 DEF Inv, Sealing, Numbered
<1>7. Unsealing' BY <1>1 DEF Inv, Unsealing, Deciphering
<1>8. (Again /\ ~mf => Related)'
  <2> SUFFICES ASSUME Again, ~mf PROVE Related' BY <1>1 DEF Again
  <2>1. Related BY DEF Inv
  <2> QED BY <1>1, <1>2, <2>1
    DEF Related, Runs, FirstIn, SecondIn, FirstOut, SecondOut, Numbered
<1>9. (~Again => Recorded)'
  <2> SUFFICES ASSUME ~Again PROVE Recorded' BY <1>1 DEF Again
  <2>1. Recorded BY DEF Inv
  <2> QED BY <1>1, <1>2, <2>1
    DEF Recorded, Runs, FirstIn, SecondIn, FirstOut, SecondOut
<1> QED BY <1>3, <1>4, <1>5, <1>6, <1>7, <1>8, <1>9 DEF Inv

LEMMA Invariance == Spec => []Inv
<1>1. Inv /\ [Next]_vars => Inv'
  BY RoundStep, StartSealStep, ChainStep, FinishSealFacts, StartUnsealStep, StealStep,
     FinishUnsealFacts, StutterInv
  DEF Next
<1> QED BY <1>1, InitInv, PTL DEF Spec

(* All that is looked up is in its table: the state stays in its types.    *)
THEOREM TypeCorrect == Spec => []TypeOK
<1>1. Inv => TypeOK BY DEF Inv
<1> QED BY <1>1, Invariance, PTL

(* Unsealing returns what was sealed, and does not flag it, whatever the   *)
(* round function computes.                                                *)
THEOREM UnsealUndoes == Spec => UnsealUndoesSeal
<1>1. Inv /\ [Next]_vars =>
        [FinishUnseal /\ last = "sealed" => data' = data /\ ~mf']_vars
  BY FinishUnsealFacts
<1> QED BY <1>1, Invariance, PTL DEF Spec, UnsealUndoesSeal

(* What is unsealed without the flag is sealed to the same text.           *)
THEOREM AcceptedResealsCorrect == Spec => AcceptedReseals
<1>1. Inv /\ [Next]_vars => [FinishSeal /\ last = "unsealed" => text' = text]_vars
  BY FinishSealFacts
<1> QED BY <1>1, Invariance, PTL DEF Spec, AcceptedReseals
=============================================================================
