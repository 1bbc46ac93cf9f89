------------------------------- MODULE MacPdu -------------------------------
(***************************************************************************)
(* The PDUs in a block, bit by bit: where the base station puts them and   *)
(* where the upper MAC (src/tetra_upper_mac.c, src/tetra_mac_pdu.c) and    *)
(* the loop of tp_sap_udata_ind (src/lower_mac/tetra_lower_mac.c) find     *)
(* them.  All lengths are the real ones.  The receiver follows cursors,    *)
(* length fields, fill bits and flags through bits that are encrypted in   *)
(* part; the sending side puts fields one behind the other.                *)
(*                                                                         *)
(* One timeslot, and every block is received: what losses do to            *)
(* reassembly is in FragSlots.  A keystream of ones stands for the cipher. *)
(***************************************************************************)
EXTENDS LlcPdu

CONSTANTS
  BlockSizes,  \* type-1 bits of the blocks that are used
  Resources,   \* what MAC-RESOURCEs say: a header and an LLC PDU with its bits
  Plain,       \* those of them that may be sent any number of times
  Fills,       \* numbers of fill bits a fragment that fills its block may have
  SysInfos,    \* contents of a SYSINFO
  MaxPdus,     \* bound: MAC-RESOURCEs and SYSINFOs
  MaxFancy     \* bound: those of them, and MAC-ENDs, that are not plain

ASSUME MacPduAssumption ==
  /\ BlockSizes \subseteq {124, 268} /\ Plain \subseteq Resources
  /\ Fills \subseteq Nat
  /\ {MaxPdus, MaxFancy} \subseteq Nat

VARIABLES
  haveKey,   \* the keystore has the key of the cell
  size,      \* type-1 bits of the block
  block,     \* msg, its bits; decryption changes them in place
  sending,   \* the base station is still putting PDUs into the block
  pdus,      \* the PDUs of the block: at which bit, and what should come of them
  rest,      \* the SDU that the base station has sent in part
  offset,    \* offset in the loop over the PDUs, Done behind it
  ssi,       \* tms->ssi
  frag,      \* fragslots[tn]
  handed,    \* what the PDUs of the block were taken for
  count      \* bounds: PDUs sent, and unusual ones of them

vars == <<haveKey, size, block, sending, pdus, rest, offset, ssi, frag, handed, count>>

Done == -1
Nothing == [pdu |-> NoTlSdu, ssi |-> 0]
NoRest == [active |-> FALSE, enc |-> FALSE, bits |-> <<>>, sdu |-> NoTlSdu, ssi |-> 0]
NoFrag == [active |-> FALSE, enc |-> FALSE, bits |-> <<>>]

-----------------------------------------------------------------------------
(* The base station.  Unread(n): a field of n bits that nobody looks at.      *)
Unread(n) == [k \in 1..n |-> 1 - (k % 2)]
Opt(p, bits) == IF p THEN <<1>> \o bits ELSE <<0>>
Flag(p) == IF p THEN 1 ELSE 0
Octets(n) == (n + 7) \div 8
FillBits(n) == [k \in 1..n |-> IF k = 1 THEN 1 ELSE 0]
Encrypted(enc, bits) == IF enc THEN [k \in DOMAIN bits |-> 1 - bits[k]] ELSE bits

(* Channel allocation element, with its augmented part.                    *)
AllocElement(a) ==
  Unread(6) \o Bits(IF a.aug THEN 0 ELSE 1, 2) \o Unread(14)
  \o Opt(a.ext, Unread(10))
  \o (IF a.f18 THEN Bits(0, 2) \o Unread(2) ELSE Bits(1, 2))
  \o (IF a.aug
        THEN Unread(26) \o (IF a.nap THEN Bits(1, 2) \o Unread(11) ELSE Bits(2, 2))
             \o Unread(4) \o Opt(a.opt1, Unread(16)) \o Opt(a.opt2, Unread(16)) \o Unread(1)
        ELSE <<>>)

AllocBits(a) == IF a.pres THEN AllocElement(a) ELSE <<>>

Address(h) ==
  Bits(h.addr, 3) \o
  CASE h.addr \in {1, 3, 4} -> Bits(h.ssi, 24)
    [] h.addr = 2           -> Unread(10)
    [] h.addr \in {5, 7}    -> Bits(h.ssi, 24) \o Unread(10)
    [] h.addr = 6           -> Bits(h.ssi, 24) \o Unread(6)

(* MAC-RESOURCE: the part that is never encrypted, with length field len;  *)
(* its size does not depend on fill and len.                               *)
ResourceHeader(h, fill, len) ==
  <<0, 0, Flag(fill), 0>> \o Bits(Flag(h.enc), 2) \o <<0>> \o Bits(len, 6) \o Address(h)
  \o Opt(h.power, Unread(4)) \o Opt(h.grant, Unread(8)) \o <<Flag(h.alloc.pres)>>

EndHeader(e, fill, len) ==
  <<0, 1, 1, Flag(fill), 0>> \o Bits(len, 6) \o Opt(e.grant, Unread(8)) \o <<Flag(e.alloc.pres)>>

(* How an address is known to the upper layers: by event label, as 0.      *)
SsiOf(h) == IF h.addr = 2 THEN 0 ELSE h.ssi

(* What a PDU puts in the block: the bits of a header, a body that may be  *)
(* encrypted, and fill bits up to the octet its length field counts.       *)
Filled(bits) == bits \o FillBits(8 * Octets(Len(bits)) - Len(bits))
NeedsFill(n) == n % 8 # 0

NullPdu == <<0, 0, 0, 0>> \o Bits(0, 2) \o <<0>> \o Bits(2, 6) \o Bits(0, 3)

Room == size - Len(block)

(* A PDU is put at the end of the block; due is what the receiver should   *)
(* take from it.                                                           *)
Put(bits, due) ==
  /\ block' = block \o bits
  /\ pdus' = Append(pdus, [at |-> Len(block), due |-> due])
  /\ UNCHANGED <<haveKey, size, sending, offset, ssi, frag, handed>>

Fancy(r) == IF r \in Plain THEN 0 ELSE 1

(* What a MAC-END may have: a slot grant and a channel allocation.         *)
EndsOf(S) == {[grant |-> r.hdr.grant, alloc |-> r.hdr.alloc] : r \in S}
Ends == EndsOf(Resources)
PlainEnds == EndsOf(Plain)

Count(pdu, fancy) ==
  /\ count.pdus + pdu <= MaxPdus /\ count.fancy + fancy <= MaxFancy
  /\ count' = [pdus |-> count.pdus + pdu, fancy |-> count.fancy + fancy]

Readable(enc) == haveKey \/ ~enc

(* A whole SDU.  Its PDU may end behind the block only with its fill bits. *)
PutResource(h, s) ==
  LET body == Encrypted(h.enc, AllocBits(h.alloc) \o s.bits)
      n    == Len(ResourceHeader(h, FALSE, 0)) + Len(body)
      bits == Filled(ResourceHeader(h, NeedsFill(n), Octets(n)) \o body)
  IN  /\ rest = NoRest /\ n <= Room
      /\ Len(bits) <= Room \/ n < Room
      /\ Put(SubSeq(bits, 1, IF Len(bits) <= Room THEN Len(bits) ELSE Room),
             [pdu |-> IF Readable(h.enc) THEN s.pdu ELSE NoTlSdu, ssi |-> SsiOf(h)])
      /\ UNCHANGED rest

(* A whole SDU in the first half of a stolen slot, where the second half   *)
(* is stolen as well: the PDU fills the block.                             *)
PutStolen(h, s) ==
  LET n    == Len(ResourceHeader(h, FALSE, 0)) + Len(AllocBits(h.alloc) \o s.bits)
      body == Encrypted(h.enc, AllocBits(h.alloc) \o s.bits)
  IN  /\ rest = NoRest /\ size = 124 /\ n <= Room
      /\ Put(ResourceHeader(h, n < Room, 62) \o body \o FillBits(Room - n),
             [pdu |-> IF Readable(h.enc) THEN s.pdu ELSE NoTlSdu, ssi |-> SsiOf(h)])
      /\ UNCHANGED rest

(* The first fragment fills the block; the SDU does not fit into it.       *)
PutStart(h, s, f) ==
  LET head == ResourceHeader(h, f > 0, 63) \o Encrypted(h.enc, AllocBits(h.alloc))
      n    == Room - Len(head) - f
  IN  /\ rest = NoRest /\ 0 < n /\ n < Len(s.bits)
      /\ Put(head \o Encrypted(h.enc, SubSeq(s.bits, 1, n)) \o FillBits(f),
             [pdu |-> NoTlSdu, ssi |-> SsiOf(h)])
      /\ rest' = [active |-> TRUE, enc |-> h.enc, sdu |-> s.pdu, ssi |-> SsiOf(h),
                  bits |-> SubSeq(s.bits, n + 1, Len(s.bits))]

PutFrag(f) ==
  LET n == Room - 4 - f
  IN  /\ rest.active /\ Len(block) = 0 /\ n < Len(rest.bits)
      /\ Put(<<0, 1, 0, Flag(f > 0)>> \o Encrypted(rest.enc, SubSeq(rest.bits, 1, n))
               \o FillBits(f),
             [pdu |-> NoTlSdu, ssi |-> rest.ssi])
      /\ rest' = [rest EXCEPT !.bits = SubSeq(@, n + 1, Len(@))]

(* MAC-END, which may change the channel as well.                          *)
PutEnd(e) ==
  LET body == Encrypted(rest.enc, AllocBits(e.alloc) \o rest.bits)
      n    == Len(EndHeader(e, FALSE, 0)) + Len(body)
      bits == Filled(EndHeader(e, NeedsFill(n), Octets(n)) \o body)
  IN  /\ rest.active /\ Len(block) = 0 /\ Len(bits) <= Room
      /\ Put(bits, [pdu |-> IF Readable(rest.enc) THEN rest.sdu ELSE NoTlSdu, ssi |-> rest.ssi])
      /\ rest' = NoRest

(* MAC broadcast: SYSINFO fills a half slot.                               *)
SysInfoBits(si) ==
  Bits(2, 2) \o Bits(0, 2)
  \o Bits(si.mainCarrier, 12) \o Bits(si.freqBand, 4) \o Bits(si.freqOffset, 2)
  \o Bits(si.duplexSpacing, 3) \o <<si.reverseOperation>>
  \o Unread(2) \o Unread(3) \o Unread(4) \o Unread(4) \o Unread(4)
  \o <<Flag(si.cck)>> \o Bits(si.number, 16) \o Unread(2) \o Unread(20)
  \o Bits(si.la, 14) \o Unread(16) \o Bits(si.serviceDetails, 12)

PutSysInfo(si) ==
  /\ Len(block) = 0 /\ size = 124 /\ rest = NoRest
  /\ Put(SysInfoBits(si), [pdu |-> si, ssi |-> 0])
  /\ UNCHANGED rest

(* The rest of the block: a Null PDU, if there is room for one, and fill   *)
(* bits.                                                                   *)
Transmit ==
  /\ pdus # <<>> /\ sending' = FALSE
  /\ block' = block \o (IF Room >= 16 THEN NullPdu \o FillBits(Room - 16) ELSE FillBits(Room))
  /\ pdus' = IF Room >= 16 THEN Append(pdus, [at |-> Len(block), due |-> Nothing])
                           ELSE pdus
  /\ offset' = 0
  /\ UNCHANGED <<haveKey, size, rest, ssi, frag, handed, count>>

NextBlock(sz) ==
  /\ ~sending /\ offset = Done
  /\ sending' = TRUE /\ size' = sz /\ block' = <<>>
  /\ pdus' = <<>> /\ handed' = <<>>
  /\ UNCHANGED <<haveKey, rest, offset, ssi, frag, count>>

-----------------------------------------------------------------------------
(* The receiver.                                                           *)
IsMacResource == Uint(block, offset, 2) = 0
IsMacFrag == Uint(block, offset, 2) = 1 /\ BitAt(block, offset + 2) = 0
IsMacEnd == Uint(block, offset, 2) = 1 /\ BitAt(block, offset + 2) = 1
IsBroadcast == Uint(block, offset, 2) = 2

AddrType == Uint(block, offset + 13, 3)

SecondStolen == -2
StartFrag == -1
Invalid == -22

(* decode_length                                                           *)
DecodeLength(ind) ==
  CASE ind \in 1..58       -> ind
    [] ind = 62             -> SecondStolen
    [] ind = 63             -> StartFrag
    [] OTHER                -> Invalid

FillsBlock(len) == len \in {SecondStolen, StartFrag}

AddrLen == <<24, 10, 24, 24, 34, 30, 34>>

(* macpdu_decode_chan_alloc: the length of the element at bit i of b.      *)
AfterFlag(b, i, n) == i + 1 + (IF BitAt(b, i) = 1 THEN n ELSE 0)

AfterMonit(b, i) == i + 2 + (IF Uint(b, i, 2) = 0 THEN 2 ELSE 0)

AfterAugmented(b, i) ==
  LET reserved == i + 28 + (IF Uint(b, i + 26, 2) = 1 THEN 11 ELSE 0)
  IN  AfterFlag(b, AfterFlag(b, reserved + 4, 16), 16) + 1

ChanAllocLenBasic(b, i) == AfterMonit(b, AfterFlag(b, i + 22, 10)) - i

ChanAllocLen(b, i) ==
  LET next == AfterMonit(b, AfterFlag(b, i + 22, 10))
  IN  (IF Uint(b, i + 6, 2) = 0 THEN AfterAugmented(b, next) ELSE next) - i

(* macpdu_decode_resource: tmpdu_offset is behind the channel allocation   *)
(* only if that can be read.                                               *)
DecodeResource(b, i) ==
  LET addr   == Uint(b, i + 13, 3)
      power  == i + 16 + (IF addr = 0 THEN 0 ELSE AddrLen[addr])
      grant  == AfterFlag(b, power, 4)
      alloc  == AfterFlag(b, grant, 8)
      isEnc  == Uint(b, i + 4, 2) > 0
  IN  [fill |-> BitAt(b, i + 2) = 1, enc |-> isEnc, len |-> DecodeLength(Uint(b, i + 7, 6)),
       addr |-> addr, ssi |-> IF addr = 2 THEN 0 ELSE Uint(b, i + 16, 24),
       alloc |-> BitAt(b, alloc) = 1,
       tmpdu |-> alloc + 1 + (IF BitAt(b, alloc) = 1 /\ ~isEnc
                                THEN ChanAllocLen(b, alloc + 1) ELSE 0)]

(* get_num_fill_bits, on the PDU from bit i to bit j: back to the last 1.  *)
NumFillBits(b, i, j) ==
  LET ones == {k \in 1..(j - i - 1) : BitAt(b, j - k) = 1}
  IN  IF ones = {} THEN 0 ELSE CHOOSE k \in ones : \A l \in ones : k <= l

Stripped(b, i, j, fill) == j - (IF fill THEN NumFillBits(b, i, j) ELSE 0)

(* decrypt_mac_element                                                     *)
Decrypted(b, i, j) == [k \in DOMAIN b |-> IF k - 1 \in i..(j - 1) THEN 1 - b[k] ELSE b[k]]

(* rx_resrc up to the point where length and start of the TM-SDU are known.*)
Resrc ==
  LET rsd   == DecodeResource(block, offset)
      last  == IF FillsBlock(rsd.len) THEN size ELSE offset + 8 * rsd.len
      end   == Stripped(block, offset, last, rsd.fill)
      key   == rsd.enc /\ haveKey
      done  == key /\ rsd.tmpdu < end
      bits  == IF done THEN Decrypted(block, rsd.tmpdu, end) ELSE block
  IN  [rsd |-> rsd, bits |-> bits, end |-> end, enc |-> rsd.enc /\ ~done,
       l2h |-> rsd.tmpdu + (IF key /\ rsd.alloc THEN ChanAllocLen(bits, rsd.tmpdu) ELSE 0)]

(* The loop over the PDUs: go on behind a PDU of n bits, or stop.          *)
AdvanceBy(n) == offset' = IF n >= 0 /\ offset + n < size - 16 THEN offset + n ELSE Done

Parsing == ~sending /\ offset # Done

Hand(pdu) == handed' = Append(handed, [pdu |-> pdu, ssi |-> ssi'])

RxNullPdu ==
  /\ Parsing /\ IsMacResource /\ AddrType = 0
  /\ offset' = Done
  /\ handed' = Append(handed, Nothing)
  /\ UNCHANGED <<block, ssi, frag>>

AfterResrcStripped(r) == AdvanceBy(IF FillsBlock(r.rsd.len) THEN -1 ELSE r.end - offset)
AfterResrc(r) == AdvanceBy(IF FillsBlock(r.rsd.len) THEN -1 ELSE 8 * r.rsd.len)

RxResrc ==
  /\ Parsing /\ IsMacResource /\ AddrType # 0
  /\ LET r == Resrc
         sdu == Slice(r.bits, r.l2h, r.end)
         unread == r.enc \/ r.l2h = r.end
         starts == ~unread /\ r.rsd.len = StartFrag
     IN  /\ block' = r.bits
         /\ ssi' = r.rsd.ssi
         /\ AfterResrc(r)
         /\ frag' = IF starts THEN [active |-> TRUE, enc |-> r.rsd.enc, bits |-> sdu] ELSE frag
         /\ Hand(IF unread \/ starts THEN NoTlSdu ELSE RxTmSdu(sdu))

RxMacFrag ==
  /\ Parsing /\ IsMacFrag
  /\ LET end  == Stripped(block, offset, size, BitAt(block, offset + 3) = 1)
         bits == IF frag.enc THEN Decrypted(block, offset + 4, end) ELSE block
     IN  IF frag.active
           THEN /\ block' = bits
                /\ frag' = [frag EXCEPT !.bits = @ \o Slice(bits, offset + 4, end)]
           ELSE UNCHANGED <<block, frag>>
  /\ offset' = Done
  /\ UNCHANGED ssi
  /\ Hand(NoTlSdu)

RxMacEnd ==
  /\ Parsing /\ IsMacEnd
  /\ LET len   == 8 * Uint(block, offset + 5, 6)
         alloc == AfterFlag(block, offset + 11, 8)
         n     == alloc + 1
         end   == Stripped(block, offset, offset + len, BitAt(block, offset + 3) = 1)
         bits  == IF frag.enc THEN Decrypted(block, n, end) ELSE block
         l2h   == n + (IF BitAt(block, alloc) = 1 THEN ChanAllocLen(bits, n) ELSE 0)
     IN  /\ AdvanceBy(len)
         /\ UNCHANGED ssi
         /\ IF frag.active
              THEN block' = bits /\ Hand(RxTmSdu(frag.bits \o Slice(bits, l2h, end)))
              ELSE UNCHANGED block /\ Hand(NoTlSdu)
  /\ frag' = NoFrag

(* macpdu_decode_sysinfo, as far as rx_bcast uses it.                      *)
DecodeSysinfo(b, i) ==
  LET mle == i + 124 - 42
  IN  [mainCarrier |-> Uint(b, i + 4, 12), freqBand |-> Uint(b, i + 16, 4),
       freqOffset |-> Uint(b, i + 20, 2), duplexSpacing |-> Uint(b, i + 22, 3),
       reverseOperation |-> BitAt(b, i + 25), cck |-> BitAt(b, i + 43) = 1,
       number |-> Uint(b, i + 44, 16), la |-> Uint(b, mle, 14),
       serviceDetails |-> Uint(b, mle + 30, 12)]

RxBcast ==
  /\ Parsing /\ IsBroadcast
  /\ handed' = Append(handed, [pdu |-> DecodeSysinfo(block, offset), ssi |-> 0])
  /\ offset' = Done
  /\ UNCHANGED <<block, ssi, frag>>

Init ==
  /\ haveKey \in BOOLEAN
  /\ size = 0 /\ block = <<>> /\ sending = FALSE /\ pdus = <<>> /\ rest = NoRest
  /\ offset = Done /\ ssi = 0 /\ frag = NoFrag /\ handed = <<>>
  /\ count = [pdus |-> 0, fancy |-> 0]

PutPdu ==
  \/ \E r \in Resources :
       /\ Count(1, Fancy(r))
       /\ \/ PutResource(r.hdr, r.sdu) \/ PutStolen(r.hdr, r.sdu)
          \/ \E f \in Fills : PutStart(r.hdr, r.sdu, f)
  \/ \E f \in Fills : PutFrag(f) /\ UNCHANGED count
  \/ \E e \in Ends : Count(0, IF e \in PlainEnds THEN 0 ELSE 1) /\ PutEnd(e)
  \/ \E si \in SysInfos : Count(1, 0) /\ PutSysInfo(si)

BaseStation ==
  \/ \E sz \in BlockSizes : NextBlock(sz)
  \/ sending /\ (PutPdu \/ Transmit)

Receiver == /\ RxNullPdu \/ RxResrc \/ RxMacFrag \/ RxMacEnd \/ RxBcast
            /\ UNCHANGED <<haveKey, size, sending, pdus, rest, count>>

Next == BaseStation \/ Receiver

Spec == Init /\ [][Next]_vars

-----------------------------------------------------------------------------
(* Every PDU is taken for what it is: the TM-SDUs go to the LLC bit by bit *)
(* as they were sent, with their address, whatever flags, elements, fill   *)
(* bits and encryption are around them and in however many fragments they  *)
(* came; what cannot be decrypted is not taken for anything, and a SYSINFO *)
(* is read where its fields are.                                           *)
SdusAsSent ==
  \A k \in DOMAIN handed : k \in DOMAIN pdus /\ handed[k] = pdus[k].due

(* The loop over the PDUs of a block is always at the beginning of the     *)
(* next one, and it does not stop before the last, except that a Null PDU  *)
(* in the last 16 bits is not looked at.                                   *)
CursorOnPdu ==
  ~sending =>
    IF offset = Done
      THEN \A k \in DOMAIN pdus : k > Len(handed) => pdus[k].due = Nothing
      ELSE Len(handed) < Len(pdus) /\ offset = pdus[Len(handed) + 1].at
=============================================================================
