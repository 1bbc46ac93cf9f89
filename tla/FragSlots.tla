----------------------------- MODULE FragSlots -----------------------------
(***************************************************************************)
(* Reassembly of fragmented TM-SDUs, src/tetra_upper_mac.c: one fragment   *)
(* slot per timeslot collects the pieces of a MAC-RESOURCE that starts a   *)
(* fragmented message, of the MAC-FRAGs after it and of the MAC-END, which *)
(* hands the message to the LLC.  Slots that hear nothing are aged out.    *)
(*                                                                         *)
(* The fragments carry no message number: what keeps messages apart is     *)
(* only the order of the PDUs.  The other half of the module is therefore  *)
(* the base station, which sends one message after the other in every      *)
(* timeslot, and the radio, which loses PDUs (the CRC fails).              *)
(***************************************************************************)
EXTENDS Naturals, Sequences

CONSTANTS
  Slots,       \* timeslots in use, 1..4
  N203,        \* N203, the age at which a slot is given up
  Capacity,    \* FRAGSLOT_MSGB_SIZE, in pieces
  MaxMsgs,     \* bound: messages sent in a timeslot
  MaxPieces    \* bound: pieces of a message

ASSUME FragAssumption ==
  /\ Slots \subseteq 1..4
  /\ {N203, Capacity, MaxMsgs, MaxPieces} \subseteq Nat \ {0}

VARIABLES
  fragslots,   \* fragslots[], by tn
  sending,     \* the message the base station sends in a timeslot
  sent,        \* history: the pieces sent in a timeslot
  missed,      \* history: those of them that did not get into a buffer
  sdu          \* the message that the last call passed to rx_tm_sdu

vars == <<fragslots, sending, sent, missed, sdu>>

(* A message is sent in the clear, or encrypted under a key the receiver   *)
(* has or has not.                                                         *)
Kinds == {"clear", "keyed", "keyless"}
PieceTypes == {"START", "FRAG", "END"}
Piece == [msg : 1..MaxMsgs, idx : 0..(MaxPieces - 1), type : PieceTypes]

NoSdu == [slot |-> 0, pieces |-> <<>>]

FragSlot == [active : BOOLEAN, age : 0..N203, encryption : BOOLEAN,
             key : BOOLEAN, msgb : Seq(Piece)]

(* cleanup_fragslot: all zero, no message buffer.                          *)
Cleared == [active |-> FALSE, age |-> 0, encryption |-> FALSE, key |-> FALSE,
            msgb |-> <<>>]

-----------------------------------------------------------------------------
(* append_frag_bits: a piece that does not fit is dropped with a warning,  *)
(* and the slot goes on without it.                                        *)
FitsOneMore(f) == Len(f.msgb) <= Capacity

Fits(f) == Len(f.msgb) < Capacity

Appended(f, p) ==
  IF Fits(f) THEN [f EXCEPT !.msgb = Append(@, p), !.age = 0] ELSE f

(* age_fragslots                                                           *)
AgedForEver(f) ==
  CASE ~f.active                -> f
    [] f.active /\ f.age < N203 -> [f EXCEPT !.age = @ + 1]
    [] OTHER                    -> f

Aged(f) ==
  CASE ~f.active                -> f
    [] f.active /\ f.age < N203 -> [f EXCEPT !.age = @ + 1]
    [] OTHER                    -> Cleared

Miss(s, p) == missed' = [missed EXCEPT ![s] = @ \cup {p}]
Put(s, f)  == fragslots' = [fragslots EXCEPT ![s] = f]

(* rx_resrc with MACPDU_LEN_START_FRAG.  A message that stays encrypted (or *)
(* is empty, or for nobody) is left alone, and so is the slot.  A slot that *)
(* is still active is cleaned up first.                                    *)
StartFragUndecrypted(s, p, kind) ==
  /\ Put(s, [active |-> TRUE, age |-> 0, encryption |-> kind # "clear",
             key |-> kind = "keyed", msgb |-> <<p>>])
  /\ sdu' = NoSdu /\ UNCHANGED missed

StartFragAppend(s, p, kind) ==
  /\ IF kind = "keyless"
       THEN UNCHANGED fragslots /\ Miss(s, p)
       ELSE /\ Put(s, [active |-> TRUE, age |-> 0, encryption |-> kind = "keyed",
                       key |-> kind = "keyed",
                       msgb |-> Append(fragslots[s].msgb, p)])
            /\ UNCHANGED missed
  /\ sdu' = NoSdu

StartFrag(s, p, kind) ==
  /\ IF kind = "keyless"
       THEN UNCHANGED fragslots /\ Miss(s, p)
       ELSE /\ Put(s, [active |-> TRUE, age |-> 0, encryption |-> kind = "keyed",
                       key |-> kind = "keyed", msgb |-> <<p>>])
            /\ UNCHANGED missed
  /\ sdu' = NoSdu

(* Whether the piece p gets into the buffer of slot s.                     *)
Account(s, p) ==
  IF fragslots[s].active /\ Fits(fragslots[s]) THEN UNCHANGED missed ELSE Miss(s, p)

(* rx_macfrag *)
RxMacFrag(s, p) ==
  /\ IF fragslots[s].active
       THEN Put(s, Appended(fragslots[s], p))
       ELSE UNCHANGED fragslots
  /\ Account(s, p)
  /\ sdu' = NoSdu

(* rx_macend *)
RxMacEndTooEarly(s, p) ==
  /\ LET f == fragslots[s] IN
       sdu' = IF f.active /\ (~f.encryption \/ f.key)
                THEN [slot |-> s, pieces |-> f.msgb]
                ELSE NoSdu
  /\ Put(s, Cleared)
  /\ Account(s, p)

RxMacEnd(s, p) ==
  /\ LET f == fragslots[s] IN
       sdu' = IF f.active /\ (~f.encryption \/ f.key)
                THEN [slot |-> s, pieces |-> Appended(f, p).msgb]
                ELSE NoSdu
  /\ Put(s, Cleared)
  /\ Account(s, p)

-----------------------------------------------------------------------------
(* The base station and the radio: the next PDU of timeslot s is sent; it  *)
(* is received, or it is lost.                                             *)
Idle == [msg |-> 0, idx |-> 0, kind |-> "none"]
Busy(s) == sending[s].kind # "none"

Send(s, p) == sent' = [sent EXCEPT ![s] = Append(@, p)]

Lose(s, p) == UNCHANGED fragslots /\ Miss(s, p) /\ sdu' = NoSdu

NextPiece(s, type) ==
  IF type = "START"
    THEN [msg |-> sending[s].msg + 1, idx |-> 0, type |-> type]
    ELSE [msg |-> sending[s].msg, idx |-> sending[s].idx + 1, type |-> type]

StartSent(s, kind) ==
  /\ ~Busy(s) /\ sending[s].msg < MaxMsgs
  /\ Send(s, NextPiece(s, "START"))
  /\ sending' = [sending EXCEPT ![s] = [msg |-> @.msg + 1, idx |-> 0, kind |-> kind]]

FragSent(s) ==
  /\ Busy(s) /\ sending[s].idx + 2 < MaxPieces
  /\ Send(s, NextPiece(s, "FRAG"))
  /\ sending' = [sending EXCEPT ![s].idx = @ + 1]

EndSent(s) ==
  /\ Busy(s) /\ sending[s].idx + 1 < MaxPieces
  /\ Send(s, NextPiece(s, "END"))
  /\ sending' = [sending EXCEPT ![s].idx = 0, ![s].kind = "none"]

SendStart(s, kind) ==
  LET p == NextPiece(s, "START")
  IN  StartSent(s, kind) /\ (StartFrag(s, p, kind) \/ Lose(s, p))

SendFrag(s) ==
  LET p == NextPiece(s, "FRAG")
  IN  FragSent(s) /\ (RxMacFrag(s, p) \/ Lose(s, p))

SendEnd(s) ==
  LET p == NextPiece(s, "END")
  IN  EndSent(s) /\ (RxMacEnd(s, p) \/ Lose(s, p))

(* A primitive of frame 18 reaches rx_tmv_unitdata_ind.                    *)
AgeFragslots ==
  /\ fragslots' = [s \in Slots |-> Aged(fragslots[s])]
  /\ sdu' = NoSdu
  /\ UNCHANGED <<sending, sent, missed>>

Init ==
  /\ fragslots = [s \in Slots |-> Cleared]
  /\ sending = [s \in Slots |-> Idle]
  /\ sent = [s \in Slots |-> <<>>]
  /\ missed = [s \in Slots |-> {}]
  /\ sdu = NoSdu

Next ==
  \/ \E s \in Slots : (\E kind \in Kinds : SendStart(s, kind)) \/ SendFrag(s) \/ SendEnd(s)
  \/ AgeFragslots

Spec == Init /\ [][Next]_vars

(* As long as a carrier is received, frames 18 come round.                 *)
FairSpec == Spec /\ WF_vars(AgeFragslots)

-----------------------------------------------------------------------------
TypeOK ==
  /\ fragslots \in [Slots -> FragSlot]
  /\ \A s \in Slots : Len(fragslots[s].msgb) <= Capacity
  /\ sending \in [Slots -> [msg : 0..MaxMsgs, idx : 0..(MaxPieces - 1),
                            kind : Kinds \cup {"none"}]]
  /\ sent \in [Slots -> Seq(Piece)]
  /\ missed \in [Slots -> SUBSET Piece]
  /\ sdu \in [slot : Slots \cup {0}, pieces : Seq(Piece)]
  /\ Len(sdu.pieces) <= Capacity

Pieces(q) == {q[i] : i \in 1..Len(q)}

(* The pieces of q from piece p on.                                        *)
Since(q, p) == {q[n] : n \in {k \in 1..Len(q) : \E m \in 1..k : q[m] = p}}

(* The pieces of r are some of q's, in the order they have there.          *)
InOrderOf(q, r) ==
  \A i, j \in 1..Len(r) : i < j =>
    \E m, n \in 1..Len(q) : m < n /\ q[m] = r[i] /\ q[n] = r[j]

(* A reassembled message is exactly what was sent in its timeslot since    *)
(* its MAC-RESOURCE, in that order, less the PDUs that were lost, could    *)
(* not be decrypted or did not fit: aging, other slots and left-overs of   *)
(* an earlier message never add, drop, repeat or swap a piece (no piece is *)
(* sent twice, so that the order also excludes repetitions).               *)
Heard(s, q) ==
  /\ Pieces(q) = Since(sent[s], Head(q)) \ missed[s]
  /\ InOrderOf(sent[s], q)

SduIsWhatWasHeard == sdu # NoSdu => Heard(sdu.slot, sdu.pieces)

(* A reassembled message has one beginning and nothing behind its end, so  *)
(* two messages are only ever spliced when both the end of the first and   *)
(* the start of the second were missed.                                    *)
NoSplice ==
  /\ sdu # NoSdu => Head(sdu.pieces).type = "START"
  /\ \A i, j \in 1..Len(sdu.pieces) :
       i < j => sdu.pieces[j].type # "START" /\ sdu.pieces[i].type # "END"

(* What remains of a message whose end was missed does not stay: it is     *)
(* aged out unless pieces keep arriving.                                   *)
LeftoversGo ==
  \A s \in Slots :
    (fragslots[s].active /\ fragslots[s].age > 0)
       ~> (~fragslots[s].active \/ fragslots[s].age = 0)
=============================================================================
