------------------------------- MODULE LlcPdu -------------------------------
(***************************************************************************)
(* PDUs of the LLC as bits: the parser of src/tetra_llc_pdu.c, and what    *)
(* rx_tm_sdu (src/tetra_llc.c) does with its result, down to what          *)
(* rx_tl_sdu (src/tetra_mle.c) reads of the PDUs of the upper layers, next *)
(* to the PDUs as the sending side forms them.  A frame check sequence is  *)
(* a polynomial, written as the set of its exponents.                      *)
(***************************************************************************)
EXTENDS Integers, Sequences, FiniteSets

(* bits_to_uint, on the bits of b from offset i on.  Behind its bits a     *)
(* message buffer holds zeros.                                             *)
BitAt(b, i) == IF i < Len(b) THEN b[i + 1] ELSE 0
Uint(b, i, n) ==
  LET v[k \in 0..n] == IF k = 0 THEN 0 ELSE 2 * v[k - 1] + BitAt(b, i + k - 1) IN v[n]
Slice(b, i, j) == [k \in 1..(j - i) |-> BitAt(b, i + k - 1)]

Bits(v, n) == [k \in 1..n |-> (v \div 2 ^ (n - k)) % 2]

-----------------------------------------------------------------------------
(* rx_tl_sdu: the protocol, the type of its PDU, and of an SN-PDU its      *)
(* header and fields of the IP packet behind it.  Fields behind the end of *)
(* a TL-SDU, which are read as well, come from its surroundings; the       *)
(* TL-SDUs below have all fields.                                          *)
TMLE_PDISC_MM == 1
TMLE_PDISC_CMCE == 2
TMLE_PDISC_SNDCP == 4
TMLE_PDISC_MLE == 5

PdutLen(pdisc) ==
  CASE pdisc \in {TMLE_PDISC_MM, TMLE_PDISC_SNDCP} -> 4
    [] pdisc = TMLE_PDISC_CMCE -> 5
    [] pdisc = TMLE_PDISC_MLE -> 3
    [] OTHER -> 0

NoPacket == [nsapi |-> 0, pcomp |-> 0, dcomp |-> 0, version |-> 0, ihl |-> 0, proto |-> 0]

Packet(tl) ==
  [nsapi |-> Uint(tl, 7, 4), pcomp |-> Uint(tl, 11, 4), dcomp |-> Uint(tl, 15, 4),
   version |-> Uint(tl, 19, 4), ihl |-> 4 * Uint(tl, 23, 4), proto |-> Uint(tl, 91, 8)]

NoMlePdu == [pdisc |-> 0, pdut |-> 0, packet |-> NoPacket]

RxTlSdu(tl) ==
  LET pdisc == Uint(tl, 0, 3)
  IN  [pdisc |-> pdisc, pdut |-> Uint(tl, 3, PdutLen(pdisc)),
       packet |-> IF pdisc = TMLE_PDISC_SNDCP THEN Packet(tl) ELSE NoPacket]

-----------------------------------------------------------------------------
GenPoly == {26, 23, 22, 16, 12, 11, 10, 8, 7, 5, 4, 2, 1, 0}
Plus(P, Q) == (P \ Q) \cup (Q \ P)

(* tetra_llc_compute_fcs: the register is the set of its bits that are 1.  *)
FcsStart(len) == IF len < 32 THEN (32 - len)..31 ELSE 0..31

ShiftIn(crc, bit) ==
  LET shifted == {e + 1 : e \in crc \ {31}}
  IN  IF (bit = 1) # (31 \in crc) THEN Plus(shifted, GenPoly) ELSE shifted

ComputeFcs(b) ==
  LET crc[k \in 0..Len(b)] == IF k = 0 THEN FcsStart(Len(b)) ELSE ShiftIn(crc[k - 1], b[k])
  IN  (0..31) \ crc[Len(b)]

FcsField(b, i) == {e \in 0..31 : BitAt(b, i + 31 - e) = 1}

(* tetra_llc_pdu_lengths                                                   *)
PduLengths == <<6, 5, 4, 5, 38, 37, 36, 37, 0, 13, 17, 1, 0, 0, 0, 0>>

-----------------------------------------------------------------------------
(* tetra_llc_pdu_parse.  A PDU without a TL-SDU, too short for its type or *)
(* of a type that is not implemented comes out the same: tl_sdu_len = 0.   *)
NoTlSdu == [type |-> "NONE", nr |-> 0, ns |-> 0, ss |-> 0, fcsOk |-> TRUE, tlSdu |-> <<>>,
            mle |-> NoMlePdu]

Basic(b, type, hdr, nr, ns) ==
  LET fcs == BitAt(b, 1) = 1
      tl  == Slice(b, hdr, IF fcs THEN Len(b) - 32 ELSE Len(b))
  IN  [type |-> type, nr |-> nr, ns |-> ns, ss |-> 0, tlSdu |-> tl, mle |-> NoMlePdu,
       fcsOk |-> tl = <<>> \/ ~fcs \/ FcsField(b, Len(b) - 32) = ComputeFcs(tl)]

Advanced(b, type, hdr, ns, ss) ==
  [type |-> type, nr |-> 0, ns |-> ns, ss |-> ss, fcsOk |-> TRUE,
   mle |-> NoMlePdu, tlSdu |-> IF Len(b) < hdr THEN <<>> ELSE Slice(b, hdr, Len(b))]

LlcPduParse(b) ==
  LET pduType == Uint(b, 0, 4)
  IN  IF Len(b) < PduLengths[pduType + 1] THEN NoTlSdu ELSE
      CASE pduType \in {0, 4} -> Basic(b, "BL_ADATA", 6, BitAt(b, 4), BitAt(b, 5))
        [] pduType \in {1, 5} -> Basic(b, "BL_DATA", 5, 0, BitAt(b, 4))
        [] pduType \in {2, 6} -> Basic(b, "BL_UDATA", 4, 0, 0)
        [] pduType \in {3, 7} -> Basic(b, "BL_ACK", 5, BitAt(b, 4), 0)
        [] pduType = 9 -> Advanced(b, IF BitAt(b, 4) = 1 THEN "AL_FINAL" ELSE "AL_DATA",
                                   17, Uint(b, 6, 3), Uint(b, 9, 8))
        [] pduType = 10 -> Advanced(b, IF BitAt(b, 4) = 1 THEN "AL_UFINAL" ELSE "AL_UDATA",
                                    21, Uint(b, 5, 8), Uint(b, 13, 8))
        [] OTHER -> NoTlSdu

(* What tllc_defrag_in copies of a segment, starting with its TL-SDU: as   *)
(* many bits as the whole PDU has, so junk from behind it as well.         *)
Copied(b, lpp) == [k \in DOMAIN b |-> IF k \in DOMAIN lpp.tlSdu THEN lpp.tlSdu[k] ELSE 0]

(* rx_tm_sdu: a TL-SDU goes on to the MLE, or into the defragmenter, which *)
(* passes it on behind its final segment; the final segments here are the  *)
(* only ones of their SDU.  A bad FCS is reported but changes nothing.     *)
RxTmSdu(b) ==
  LET lpp == IF Len(b) < 4 THEN NoTlSdu ELSE LlcPduParse(b)
  IN  CASE lpp.tlSdu = <<>> -> NoTlSdu
        [] lpp.tlSdu # <<>> /\ lpp.type \in {"AL_DATA", "AL_UDATA"} -> lpp
        [] lpp.tlSdu # <<>> /\ lpp.type \in {"AL_FINAL", "AL_UFINAL"} ->
             [lpp EXCEPT !.mle = RxTlSdu(Copied(b, lpp))]
        [] OTHER -> [lpp EXCEPT !.mle = RxTlSdu(lpp.tlSdu)]

-----------------------------------------------------------------------------
(* The sending MLE: a PDU with the bits that follow what rx_tl_sdu reads.  *)
MleBits(m, more) ==
  Bits(m.pdisc, 3) \o Bits(m.pdut, PdutLen(m.pdisc))
  \o (IF m.pdisc = TMLE_PDISC_SNDCP
        THEN Bits(m.packet.nsapi, 4) \o Bits(m.packet.pcomp, 4) \o Bits(m.packet.dcomp, 4)
             \o Bits(m.packet.version, 4) \o Bits(m.packet.ihl \div 4, 4)
             \o [k \in 1..64 |-> k % 2] \o Bits(m.packet.proto, 8)
        ELSE <<>>)
  \o more

(* The sending LLC.  The FCS is the complement of the remainder of the     *)
(* TL-SDU, its first 32 bits inverted, times x^32: the sum of the          *)
(* remainders of its terms.                                                *)
TimesX(P) ==
  IF 31 \in P THEN Plus({e + 1 : e \in P \ {31}}, GenPoly) ELSE {e + 1 : e \in P}

XPow[n \in Nat] == IF n = 0 THEN {0} ELSE TimesX(XPow[n - 1])

Terms(tl) == {Len(tl) - k + 32 : k \in {i \in DOMAIN tl : (tl[i] = 1) # (i <= 32)}}

FcsOf(tl) ==
  (0..31) \ {e \in 0..31 : Cardinality({n \in Terms(tl) : e \in XPow[n]}) % 2 = 1}

FcsBits(tl) == LET fcs == FcsOf(tl) IN [k \in 1..32 |-> IF 32 - k \in fcs THEN 1 ELSE 0]

BasicBits(p, fcs) ==
  Bits((CASE p.type = "BL_ADATA" -> 0 [] p.type = "BL_DATA" -> 1
          [] p.type = "BL_UDATA" -> 2 [] p.type = "BL_ACK" -> 3) + (IF fcs THEN 4 ELSE 0), 4)
  \o (IF p.type \in {"BL_ADATA", "BL_ACK"} THEN <<p.nr>> ELSE <<>>)
  \o (IF p.type \in {"BL_ADATA", "BL_DATA"} THEN <<p.ns>> ELSE <<>>)
  \o p.tlSdu \o (IF fcs THEN FcsBits(p.tlSdu) ELSE <<>>)

AdvancedBits(p) ==
  LET final == IF p.type \in {"AL_FINAL", "AL_UFINAL"} THEN 1 ELSE 0
  IN  (IF p.type \in {"AL_DATA", "AL_FINAL"}
         THEN Bits(9, 4) \o <<final, 1>> \o Bits(p.ns, 3)
         ELSE Bits(10, 4) \o <<final>> \o Bits(p.ns, 8))
      \o Bits(p.ss, 8) \o p.tlSdu

LlcBits(p, fcs) ==
  IF p.type \in {"BL_ADATA", "BL_DATA", "BL_UDATA", "BL_ACK"} THEN BasicBits(p, fcs)
  ELSE AdvancedBits(p)
=============================================================================
