------------------------------ MODULE MCMacPdu ------------------------------
EXTENDS MacPdu

NoAlloc == [pres |-> FALSE, ext |-> FALSE, f18 |-> FALSE, aug |-> FALSE, nap |-> FALSE,
            opt1 |-> FALSE, opt2 |-> FALSE]

MCAllocs ==
  {[pres |-> TRUE, ext |-> e, f18 |-> m, aug |-> FALSE, nap |-> FALSE,
    opt1 |-> FALSE, opt2 |-> FALSE] : e \in BOOLEAN, m \in BOOLEAN}
  \cup {[pres |-> TRUE, ext |-> FALSE, f18 |-> TRUE, aug |-> TRUE, nap |-> n,
         opt1 |-> o, opt2 |-> p] : n \in BOOLEAN, o \in BOOLEAN, p \in BOOLEAN}

(* Contents of n bits without a period.                                    *)
Content(n) == [k \in 1..n |-> IF (k * k) % 11 \in {1, 5, 9} THEN 1 ELSE 0]

(* PDUs of the upper layers; n bits follow what is read of them.  A segment*)
(* that is not final is Content, and nothing is read of it.                *)
MlePdu(pdisc, pdut) == [pdisc |-> pdisc, pdut |-> pdut, packet |-> NoPacket]
SnPdu == [pdisc |-> TMLE_PDISC_SNDCP, pdut |-> 5,
          packet |-> [nsapi |-> 9, pcomp |-> 2, dcomp |-> 1, version |-> 4, ihl |-> 20, proto |-> 17]]

Llc(type, nr, ns, mle, n) ==
  [type |-> type, nr |-> nr, ns |-> ns, ss |-> 0, fcsOk |-> TRUE,
   mle |-> mle, tlSdu |-> MleBits(mle, Content(n))]
Segment(ns, ss, n) ==
  [type |-> "AL_DATA", nr |-> 0, ns |-> ns, ss |-> ss, fcsOk |-> TRUE,
   mle |-> NoMlePdu, tlSdu |-> Content(n)]

Sdu(pdu, fcs) == [pdu |-> pdu, bits |-> LlcBits(pdu, fcs)]

NoSdu == [pdu |-> NoTlSdu, bits |-> <<>>]
Short == Sdu(Llc("BL_ADATA", 1, 0, MlePdu(TMLE_PDISC_CMCE, 21), 1), FALSE)
Long  == Sdu(Llc("AL_UFINAL", 0, 130, SnPdu, 111), FALSE)
Ack   == Sdu(Llc("BL_ACK", 1, 0, MlePdu(TMLE_PDISC_MLE, 6), 0), TRUE)
Unack == Sdu(Llc("BL_UDATA", 0, 0, MlePdu(TMLE_PDISC_MM, 9), 10), FALSE)
Hdr(addr, addressed, power, grant, alloc, enc) ==
  [addr |-> addr, ssi |-> addressed, power |-> power, grant |-> grant, alloc |-> alloc, enc |-> enc]
PlainHdr(enc) == Hdr(1, 11259375, FALSE, FALSE, NoAlloc, enc)

MCPlain ==
  {[hdr |-> PlainHdr(FALSE), sdu |-> Short],
   [hdr |-> PlainHdr(TRUE), sdu |-> Unack],
   [hdr |-> PlainHdr(TRUE), sdu |-> Long]}

OtherSdus ==
  {NoSdu, Long, Ack, Sdu(Segment(5, 200, 12), FALSE),
   Sdu(Llc("BL_DATA", 0, 1, MlePdu(3, 0), 67), TRUE)}

(* Each address type; each channel allocation, clear and encrypted, with   *)
(* the other elements or without them.                                     *)
Addressed == {Hdr(t, 5592405, TRUE, TRUE, NoAlloc, FALSE) : t \in 2..7}
Allocating(e) == {Hdr(6, 15, e, ~e, a, e) : a \in MCAllocs}
Some == {h \in Allocating(TRUE) : h.alloc.aug => h.alloc.nap /\ h.alloc.opt1 /\ ~h.alloc.opt2}

MCResources ==
  MCPlain \cup {[hdr |-> PlainHdr(e), sdu |-> s] : e \in BOOLEAN, s \in OtherSdus}
  \cup {[hdr |-> h, sdu |-> Short] : h \in Addressed \cup Allocating(FALSE) \cup Allocating(TRUE)}
  \cup {[hdr |-> h, sdu |-> s] : h \in Some, s \in {NoSdu, Long}}

MCSysInfos ==
  {[mainCarrier |-> 3601, freqBand |-> 4, freqOffset |-> 1, duplexSpacing |-> 5,
    reverseOperation |-> 1, cck |-> c, number |-> 40961, la |-> 9999,
    serviceDetails |-> 2741] : c \in BOOLEAN}
=============================================================================
