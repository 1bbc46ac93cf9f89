----------------------------- MODULE SlotCipher -----------------------------
(***************************************************************************)
(* What the keystream of a slot is made from (src/crypto/tetra_crypto.c):  *)
(* the IV of tea_build_iv, from the receiver's clock and the hyperframe    *)
(* number of the last SYSINFO that carried one; the encryption key of tb5  *)
(* (src/crypto/taa1.c), from the location of the cell; and the half of the *)
(* slot that a block is.  The base station numbers its slots and           *)
(* hyperframes; the receiver's clock has no hyperframe number of its own.  *)
(*                                                                         *)
(* Words are the sets of their bits: an or is a union, as in the code.     *)
(***************************************************************************)
EXTENDS TetraTdma, Integers

CONSTANTS
  Locations,    \* location area, carrier number and colour code of a cell
  FirstHyper,   \* hyperframe in which a behaviour begins
  MaxWraps      \* bound: hyperframes that begin in a behaviour

(* The numbers of so many bits.                                            *)
Word(width) == {n \in Nat : n < 2 ^ width}

ASSUME CipherAssumption ==
  /\ Locations \subseteq [la : Word(14), cn : Word(12), cc : Word(6)]
  /\ FirstHyper \in Word(16) /\ MaxWraps \in Nat

VARIABLES
  location,     \* of the cell; the receiver knows it
  slot, hyper,  \* the base station's slot in the hyperframe, and its number
  wraps,        \* bound: hyperframes that began
  hn,           \* tcs->hn, an int
  told          \* history: this hyperframe's number was received

cipherVars == <<time, location, slot, hyper, wraps, hn, told>>

Unknown == -1

-----------------------------------------------------------------------------
Bits(v) == {b \in 0..15 : (v \div 2 ^ b) % 2 = 1}
Shl(w, k) == {b + k : b \in w} \cap (0..31)
Shr(w, k) == {b - k : b \in {x \in w : x >= k}}

(* w is a greater number than v. *)
Above(w, v) == \E b \in w \ v : \A c \in v \ w : c < b

(* tea_build_iv for the downlink; hn becomes a uint16_t on the way in.     *)
TeaBuildIvNarrow(tm, h) ==
  Bits(tm.tn - 1) \cup Shl(Bits(tm.fn), 2) \cup Shl(Bits(tm.mn), 6)
    \cup Shl(Bits(h % 65536) \cap (0..14), 13)

TeaBuildIv(tm, h) ==
  Bits(tm.tn - 1) \cup Shl(Bits(tm.fn), 2) \cup Shl(Bits(tm.mn), 7)
    \cup Shl(Bits(h % 65536) \cap (0..14), 13)

(* tb5: three words, of which the first has 16 bits, are put in front of   *)
(* each other to 80 bits that change the key.                              *)
Concat(w0, w1, w2) == w2 \cup {b + 32 : b \in w1} \cup {b + 64 : b \in w0 \cap (0..15)}

Tb5MaskNoCarry(l) ==
  LET la == Bits(l.la)  cn == Bits(l.cn)  cc == Bits(l.cc)
  IN  Concat(Shl(la, 2) \cup Shr(cn, 10),
             Shl(cn, 22) \cup Shl(cc, 16) \cup Shl(cn, 4),
             Shl(cc, 30) \cup Shl(cn, 18) \cup Shl(cc, 12) \cup cn)

Tb5Mask(l) ==
  LET la == Bits(l.la)  cn == Bits(l.cn)  cc == Bits(l.cc)
  IN  Concat(Shl(la, 2) \cup Shr(cn, 10),
             Shl(cn, 22) \cup Shl(cc, 16) \cup Shl(cn, 4) \cup Shr(cc, 2),
             Shl(cc, 30) \cup Shl(cn, 18) \cup Shl(cc, 12) \cup cn)

(* The blocks that may hold an encrypted PDU, and the logical channel that *)
(* tp_sap_udata_ind gives them.                                            *)
Block(type, blk) == [type |-> type, blk |-> blk]
Blocks == {Block("SCH_F", 0), Block("NDB", 1), Block("NDB", 2), Block("SB2", 2)}

IsBnch(tm) == tm.fn = 18 /\ tm.tn = 4 - ((tm.mn + 3) % 4)

Lchan(c) ==
  CASE c.type = "SB2" /\ IsBnch(time) -> "BNCH"
    [] c.type = "SCH_F" -> "SCH_F"
    [] OTHER -> "UNKNOWN"

(* decrypt_mac_element, generate_keystream                                 *)
SkipBits(c) == IF c.blk = 2 /\ Lchan(c) \in {"SCH_HD", "UNKNOWN"} THEN 216 ELSE 0
Keystream(c) ==
  [iv |-> TeaBuildIv(time, hn), mask |-> Tb5Mask(location), from |-> SkipBits(c)]

-----------------------------------------------------------------------------
(* The base station's side, from its slot number.                          *)
AirIv ==
  LET tn == slot % 4  fn == 1 + ((slot \div 4) % 18)  mn == 1 + slot \div 72
      h == hyper % 32768
  IN  {b \in 0..27 : \/ b \in 0..1 /\ b \in Bits(tn)
                     \/ b \in 2..6 /\ b - 2 \in Bits(fn)
                     \/ b \in 7..12 /\ b - 7 \in Bits(mn)
                     \/ b \in 13..27 /\ b - 13 \in Bits(h)}

(* [la:14 cn:12 cc:6 cn:12 cc:6 cn:12 cc:6 cn:12], and the number of the   *)
(* lowest bit of each field.                                               *)
MaskLowest == <<66, 54, 48, 36, 30, 18, 12, 0>>
AirMask ==
  LET l == location
      fields == <<l.la, l.cn, l.cc, l.cn, l.cc, l.cn, l.cc, l.cn>>
  IN  UNION {{b + MaskLowest[i] : b \in Bits(fields[i])} : i \in 1..8}

(* A BNCH block is full of its SYSINFO, which is never encrypted.          *)
Encrypted(c) == ~(c.type = "SB2" /\ IsBnch(time))
AirKeystream(c) ==
  [iv |-> AirIv, mask |-> AirMask, from |-> IF c.blk = 2 THEN 216 ELSE 0]

-----------------------------------------------------------------------------
(* A burst: the base station's next slot and the receiver's tick.          *)
Burst ==
  /\ BurstTick
  /\ slot' = (slot + 1) % SlotsPerCycle
  /\ IF slot' = 0
       THEN /\ wraps < MaxWraps /\ wraps' = wraps + 1
            /\ hyper' = (hyper + 1) % 65536 /\ told' = FALSE
       ELSE UNCHANGED <<wraps, hyper, told>>
  /\ UNCHANGED <<location, hn>>

(* rx_bcast on a SYSINFO that carries the hyperframe number.               *)
RxSysinfoHn ==
  /\ hn' = hyper /\ told' = TRUE
  /\ UNCHANGED <<time, location, slot, hyper, wraps>>

CipherInit ==
  /\ Init
  /\ location \in Locations
  /\ slot = SlotIndex(time) /\ hyper = FirstHyper /\ wraps = 0
  /\ hn = Unknown /\ told = FALSE

CipherNext == Burst \/ RxSysinfoHn

CipherSpec == CipherInit /\ [][CipherNext]_cipherVars

-----------------------------------------------------------------------------
(* Once the number of the running hyperframe was received, the receiver    *)
(* has the base station's IV, key and place in the keystream for every     *)
(* block of every slot.  Neither an unknown number (-1, which generate_    *)
(* keystream takes for 0x7fff) nor that of the hyperframe before, which no *)
(* clock carries over, is covered by this: told is false until the next    *)
(* SYSINFO with a hyperframe number.                                       *)
KeystreamInStep ==
  told => \A c \in Blocks : Encrypted(c) => Keystream(c) = AirKeystream(c)

(* No two slots of a hyperframe have the same IV, whatever hyperframe      *)
(* number the receiver believes in: the IV grows with every slot.          *)
IvNamesSlot ==
  [][Burst /\ slot' # 0 => Above(TeaBuildIv(time', hn'), TeaBuildIv(time, hn))]_cipherVars
=============================================================================
