-------------------------- MODULE FragSlots_proofs --------------------------
(***************************************************************************)
(* Proofs about FragSlots, for any timeslots, N203, size of the message    *)
(* buffers and number of messages and pieces.                              *)
(*                                                                         *)
(* The invariant FragInv says of each timeslot what its fragment slot has  *)
(* collected (Collected), and that the piece that is sent next is one that *)
(* was not sent before (Numbered).                                         *)
(***************************************************************************)
EXTENDS FragSlots, TLAPS

(* The numbering of the pieces, where g is the message being sent, q what  *)
(* was sent and m what was missed of it: the next piece is new.            *)
Numbers(g, q, m) ==
  /\ g.kind # "none" => g.msg \in 1..MaxMsgs
  /\ \A x \in Pieces(q) : /\ x.msg <= g.msg
                          /\ g.kind # "none" /\ x.msg = g.msg => x.idx <= g.idx
  /\ m \subseteq Pieces(q)

Numbered(s) == Numbers(sending[s], sent[s], missed[s])

(* One message without its end, or several of which ends and starts were   *)
(* missed.                                                                 *)
Open(r) ==
  /\ r # <<>> /\ r[1].type = "START"
  /\ \A i \in 1..Len(r) : r[i].type # "END" /\ (i > 1 => r[i].type # "START")

(* r is what was heard of q, of which m was missed, since r's first piece. *)
HeardOf(q, m, r) == Pieces(r) = Since(q, Head(r)) \ m /\ InOrderOf(q, r)

Collects(f, q, m) == f.active => Open(f.msgb) /\ HeardOf(q, m, f.msgb)

Collected(s) == Collects(fragslots[s], sent[s], missed[s])

FragInv ==
  /\ TypeOK /\ SduIsWhatWasHeard /\ NoSplice
  /\ \A s \in Slots : Numbered(s) /\ Collected(s)

-----------------------------------------------------------------------------
(* What an append leaves of a sequence and adds to it.                     *)
LEMMA Appending ==
  ASSUME NEW S, NEW q \in Seq(S), NEW p \in S
  PROVE  /\ Append(q, p) \in Seq(S) /\ Len(Append(q, p)) = Len(q) + 1 /\ Len(q) \in Nat
         /\ Append(q, p)[Len(q) + 1] = p
         /\ \A i \in 1..Len(q) : Append(q, p)[i] = q[i]
         /\ 1..(Len(q) + 1) = 1..Len(q) \cup {Len(q) + 1}
         /\ Append(q, p) # <<>>
         /\ q # <<>> => Head(q) = q[1] /\ Len(q) > 0 /\ Head(Append(q, p)) = q[1]
         /\ Append(q, p)[1] = Head(Append(q, p))
<1>1. /\ Append(q, p) \in Seq(S) /\ Len(Append(q, p)) = Len(q) + 1 /\ Len(q) \in Nat
      /\ Append(q, p)[Len(q) + 1] = p
      /\ \A i \in 1..Len(q) : Append(q, p)[i] = q[i]
      /\ 1..(Len(q) + 1) = 1..Len(q) \cup {Len(q) + 1}
  OBVIOUS
<1>2. Append(q, p) # <<>> BY <1>1
<1>3. q # <<>> => Head(q) = q[1] /\ Len(q) > 0 OBVIOUS
<1>4. Append(q, p)[1] = Head(Append(q, p)) BY <1>1, <1>2
<1> QED BY <1>1, <1>2, <1>3, <1>4

(* An append adds one piece.                                               *)
LEMMA PiecesOfAppend ==
  ASSUME NEW S, NEW q \in Seq(S), NEW p \in S
  PROVE  Pieces(Append(q, p)) = Pieces(q) \cup {p}
<1>1. \A x : x \in Pieces(Append(q, p)) <=> \E i \in 1..(Len(q) + 1) : x = Append(q, p)[i]
  BY Appending DEF Pieces
<1>2. \A x : x \in Pieces(q) <=> \E i \in 1..Len(q) : x = q[i] BY DEF Pieces
<1> QED BY <1>1, <1>2, Appending

(* A piece that is new is the last of what was sent since any other one.   *)
LEMMA SinceOfAppend ==
  ASSUME NEW S, NEW q \in Seq(S), NEW p \in S, p \notin Pieces(q)
  PROVE  /\ \A f \in Pieces(q) : Since(Append(q, p), f) = Since(q, f) \cup {p}
         /\ Since(Append(q, p), p) = {p}
<1>1. \A i \in 1..Len(q) : q[i] # p BY DEF Pieces
<1>2. \A f, x : x \in Since(q, f) <=>
        \E n \in 1..Len(q) : x = q[n] /\ \E m \in 1..n : q[m] = f
  BY DEF Since
<1>3. \A f, x : x \in Since(Append(q, p), f) <=>
        \E n \in 1..(Len(q) + 1) : x = Append(q, p)[n] /\ \E m \in 1..n : Append(q, p)[m] = f
  BY Appending DEF Since
<1>4. ASSUME NEW f \in Pieces(q), NEW x
      PROVE  x \in Since(Append(q, p), f) <=> x \in Since(q, f) \cup {p}
  <2>1. PICK k \in 1..Len(q) : q[k] = f BY DEF Pieces
  <2>2. \A n \in 1..Len(q) : \A m \in 1..n : m \in 1..Len(q) BY Appending
  <2>3. p \in Since(Append(q, p), f)
    <3>1. k \in 1..(Len(q) + 1) /\ Append(q, p)[k] = f BY <2>1, Appending
    <3>2. Len(q) + 1 \in 1..(Len(q) + 1) BY Appending
    <3> QED BY <1>3, <3>1, <3>2, Appending
  <2>4. x \in Since(q, f) => x \in Since(Append(q, p), f)
    BY <1>2, <1>3, <2>2, Appending
  <2>5. x \in Since(Append(q, p), f) /\ x # p => x \in Since(q, f)
    <3> SUFFICES ASSUME x \in Since(Append(q, p), f), x # p PROVE x \in Since(q, f) OBVIOUS
    <3>1. PICK n \in 1..(Len(q) + 1) :
            x = Append(q, p)[n] /\ \E m \in 1..n : Append(q, p)[m] = f
      BY <1>3
    <3>2. n \in 1..Len(q) BY <3>1, Appending
    <3> QED BY <1>2, <2>2, <3>1, <3>2, Appending
  <2> QED BY <2>3, <2>4, <2>5
<1>5. ASSUME NEW x PROVE x \in Since(Append(q, p), p) <=> x = p
  <2>1. \A n \in 1..Len(q) : \A m \in 1..n : m \in 1..Len(q) BY Appending
  <2>2. \A n \in 1..(Len(q) + 1) : (\E m \in 1..n : Append(q, p)[m] = p) => n = Len(q) + 1
    BY <1>1, <2>1, Appending
  <2>3. Len(q) + 1 \in 1..(Len(q) + 1) BY Appending
  <2> QED BY <1>3, <2>2, <2>3, Appending
<1> QED BY <1>4, <1>5

(* More that is sent does not change the order, and what is sent last may  *)
(* be collected last.                                                      *)
LEMMA InOrderOfAppend ==
  ASSUME NEW S, NEW q \in Seq(S), NEW r \in Seq(S), NEW p \in S, InOrderOf(q, r)
  PROVE  /\ InOrderOf(Append(q, p), r)
         /\ Pieces(r) \subseteq Pieces(q) => InOrderOf(Append(q, p), Append(r, p))
<1>0. Len(Append(q, p)) = Len(q) + 1 /\ Len(Append(r, p)) = Len(r) + 1
      /\ Len(q) \in Nat /\ Len(r) \in Nat
  BY Appending
<1>1. \A m \in 1..Len(q) : m \in 1..Len(Append(q, p)) /\ Append(q, p)[m] = q[m]
  BY <1>0, Appending
<1>2. \A i, j \in 1..Len(r) : i < j =>
        \E m, n \in 1..Len(Append(q, p)) :
          m < n /\ Append(q, p)[m] = r[i] /\ Append(q, p)[n] = r[j]
  <2> SUFFICES ASSUME NEW i \in 1..Len(r), NEW j \in 1..Len(r), i < j
               PROVE  \E m, n \in 1..Len(Append(q, p)) :
                        m < n /\ Append(q, p)[m] = r[i] /\ Append(q, p)[n] = r[j]
    OBVIOUS
  <2>1. PICK m \in 1..Len(q), n \in 1..Len(q) : m < n /\ q[m] = r[i] /\ q[n] = r[j]
    BY DEF InOrderOf
  <2>2. m \in 1..Len(Append(q, p)) /\ Append(q, p)[m] = r[i] BY <1>1, <2>1
  <2>3. n \in 1..Len(Append(q, p)) /\ Append(q, p)[n] = r[j] BY <1>1, <2>1
  <2> QED BY <2>1, <2>2, <2>3
<1>3. ASSUME Pieces(r) \subseteq Pieces(q) PROVE InOrderOf(Append(q, p), Append(r, p))
  <2> SUFFICES ASSUME NEW i \in 1..Len(Append(r, p)), NEW j \in 1..Len(Append(r, p)), i < j
               PROVE  \E m, n \in 1..Len(Append(q, p)) :
                        m < n /\ Append(q, p)[m] = Append(r, p)[i]
                              /\ Append(q, p)[n] = Append(r, p)[j]
    BY DEF InOrderOf
  <2>1. i \in 1..Len(r) /\ Append(r, p)[i] = r[i] /\ (j \in 1..Len(r) \/ j = Len(r) + 1)
    BY <1>0, Appending
  <2>2. CASE j \in 1..Len(r)
    <3>1. Append(r, p)[j] = r[j] BY <2>2, Appending
    <3>2. PICK m \in 1..Len(Append(q, p)), n \in 1..Len(Append(q, p)) :
            m < n /\ Append(q, p)[m] = r[i] /\ Append(q, p)[n] = r[j]
      BY <1>2, <2>1, <2>2
    <3> QED BY <2>1, <3>1, <3>2
  <2>3. CASE j = Len(r) + 1
    <3>1. r[i] \in Pieces(q) BY <1>3, <2>1 DEF Pieces
    <3>2. PICK m \in 1..Len(q) : q[m] = r[i] BY <3>1 DEF Pieces
    <3>3. /\ Len(q) + 1 \in 1..Len(Append(q, p)) /\ m < Len(q) + 1
          /\ Append(q, p)[Len(q) + 1] = p /\ Append(r, p)[j] = p
      BY <1>0, <2>3, <3>2, Appending
    <3> QED BY <1>1, <2>1, <3>2, <3>3
  <2> QED BY <2>1, <2>2, <2>3
<1>4. InOrderOf(Append(q, p), r) BY <1>2 DEF InOrderOf
<1> QED BY <1>3, <1>4

-----------------------------------------------------------------------------
(* What happens to what a slot has collected when one more piece is sent:  *)
(* it is missed, or it is appended, or a new collection starts with it.    *)
LEMMA MissedPiece ==
  ASSUME NEW S, NEW q \in Seq(S), NEW r \in Seq(S), NEW p \in S, NEW m \in SUBSET S,
         p \notin Pieces(q), r # <<>>, HeardOf(q, m, r)
  PROVE  HeardOf(Append(q, p), m \cup {p}, r)
<1>1. Head(r) \in Pieces(r) BY DEF Pieces
<1>2. Pieces(r) = Since(q, Head(r)) \ m /\ InOrderOf(q, r) BY DEF HeardOf
<1>3. \A x : x \in Since(q, Head(r)) => x \in Pieces(q) BY DEF Since, Pieces
<1>4. Since(Append(q, p), Head(r)) = Since(q, Head(r)) \cup {p}
  BY <1>1, <1>2, <1>3, SinceOfAppend
<1>5. p \notin Pieces(r) BY <1>2, <1>3
<1>6. Pieces(r) = Since(Append(q, p), Head(r)) \ (m \cup {p}) BY <1>2, <1>4, <1>5
<1> QED BY <1>2, <1>6, InOrderOfAppend DEF HeardOf

(* A piece that is sent and heard keeps a message what was heard of its    *)
(* slot.                                                                   *)
LEMMA AppendedPiece ==
  ASSUME NEW S, NEW q \in Seq(S), NEW r \in Seq(S), NEW p \in S, NEW m \in SUBSET Pieces(q),
         p \notin Pieces(q), r # <<>>, HeardOf(q, m, r)
  PROVE  HeardOf(Append(q, p), m, Append(r, p))
<1>1. Head(r) \in Pieces(r) BY DEF Pieces
<1>2. Pieces(r) = Since(q, Head(r)) \ m /\ InOrderOf(q, r) BY DEF HeardOf
<1>3. \A x : x \in Since(q, Head(r)) => x \in Pieces(q) BY DEF Since, Pieces
<1>4. Since(Append(q, p), Head(r)) = Since(q, Head(r)) \cup {p}
  BY <1>1, <1>2, <1>3, SinceOfAppend
<1>5. Head(Append(r, p)) = Head(r) BY Appending
<1>6. Pieces(Append(r, p)) = Pieces(r) \cup {p} BY PiecesOfAppend
<1>7. Pieces(Append(r, p)) = Since(Append(q, p), Head(Append(r, p))) \ m
  BY <1>2, <1>4, <1>5, <1>6
<1>8. Pieces(r) \subseteq Pieces(q) BY <1>2, <1>3
<1>9. InOrderOf(Append(q, p), Append(r, p)) BY <1>2, <1>8, InOrderOfAppend
<1> QED BY <1>7, <1>9 DEF HeardOf

(* A message that begins is what was heard since its first piece.          *)
LEMMA FirstPiece ==
  ASSUME NEW S, NEW q \in Seq(S), NEW p \in S, NEW m \in SUBSET Pieces(q), p \notin Pieces(q)
  PROVE  HeardOf(Append(q, p), m, <<p>>)
<1>1. Head(<<p>>) = p /\ Len(<<p>>) = 1 /\ <<p>>[1] = p OBVIOUS
<1>2. Pieces(<<p>>) = {p} BY <1>1 DEF Pieces
<1>3. Since(Append(q, p), p) = {p} BY SinceOfAppend
<1>4. InOrderOf(Append(q, p), <<p>>) BY <1>1 DEF InOrderOf
<1> QED BY <1>1, <1>2, <1>3, <1>4 DEF HeardOf

(* The next piece that is sent is one that was not sent before.            *)
LEMMA NextPieceIsNew ==
  ASSUME FragInv, NEW s \in Slots, NEW type \in PieceTypes,
         type = "START" => ~Busy(s) /\ sending[s].msg < MaxMsgs,
         type # "START" => Busy(s) /\ sending[s].idx + 1 < MaxPieces
  PROVE  /\ NextPiece(s, type) \in Piece \ Pieces(sent[s])
         /\ NextPiece(s, type).type = type
<1> DEFINE g == sending[s]
           p == NextPiece(s, type)
<1>1. /\ g \in [msg : 0..MaxMsgs, idx : 0..(MaxPieces - 1), kind : Kinds \cup {"none"}]
      /\ sent[s] \in Seq(Piece)
      /\ Numbers(g, sent[s], missed[s])
  BY DEF FragInv, TypeOK, Numbered
<1>2. MaxMsgs \in Nat /\ MaxPieces \in Nat /\ MaxPieces > 0 BY FragAssumption
<1>3. p = IF type = "START" THEN [msg |-> g.msg + 1, idx |-> 0, type |-> type]
                            ELSE [msg |-> g.msg, idx |-> g.idx + 1, type |-> type]
  BY DEF NextPiece
<1>4. g.kind # "none" => g.msg \in 1..MaxMsgs BY <1>1 DEF Numbers
<1>5. g.kind = "none" <=> type = "START" BY DEF Busy
<1>6. g.msg \in Nat /\ g.idx \in Nat /\ g.msg <= MaxMsgs BY <1>1, <1>2
<1>7. p \in Piece BY <1>2, <1>3, <1>4, <1>5, <1>6 DEF Piece
<1>8. p \notin Pieces(sent[s])
  <2> SUFFICES ASSUME p \in Pieces(sent[s]) PROVE FALSE OBVIOUS
  <2>1. p.msg <= g.msg /\ (g.kind # "none" /\ p.msg = g.msg => p.idx <= g.idx)
    BY <1>1 DEF Numbers
  <2> QED BY <1>3, <1>5, <1>6, <2>1
<1> QED BY <1>3, <1>7, <1>8

-----------------------------------------------------------------------------
SendingType == [msg : 0..MaxMsgs, idx : 0..(MaxPieces - 1), kind : Kinds \cup {"none"}]

SlotType(f) == f \in FragSlot /\ Len(f.msgb) <= Capacity

(* A message that may be handed to the LLC.                                *)
Spliceless(r) ==
  /\ r # <<>> /\ Head(r).type = "START"
  /\ \A i, j \in 1..Len(r) : i < j => r[j].type # "START" /\ r[i].type # "END"

SduFits(u, s, q, m) ==
  \/ u = NoSdu
  \/ \E r \in Seq(Piece) : /\ u = [slot |-> s, pieces |-> r]
                           /\ Len(r) <= Capacity /\ Spliceless(r) /\ HeardOf(q, m, r)

(* What must be shown of a PDU of timeslot s: what it makes of the slot    *)
(* and of the message being sent, f and g, and what is missed after it, m. *)
LEMMA SlotStep ==
  ASSUME FragInv, NEW s \in Slots, NEW p \in Piece, NEW f, NEW g, NEW m,
         SlotType(f), g \in SendingType, m \in SUBSET Piece,
         fragslots' = [fragslots EXCEPT ![s] = f],
         sending' = [sending EXCEPT ![s] = g],
         sent' = [sent EXCEPT ![s] = Append(@, p)],
         missed' = [missed EXCEPT ![s] = m],
         Numbers(g, Append(sent[s], p), m),
         Collects(f, Append(sent[s], p), m),
         SduFits(sdu', s, Append(sent[s], p), m)
  PROVE  FragInv'
<1>0. TypeOK BY DEF FragInv
<1>1. /\ fragslots \in [Slots -> FragSlot] /\ \A t \in Slots : Len(fragslots[t].msgb) <= Capacity
      /\ sending \in [Slots -> SendingType] /\ sent \in [Slots -> Seq(Piece)]
      /\ missed \in [Slots -> SUBSET Piece]
  BY <1>0 DEF TypeOK, SendingType
<1>2. Append(sent[s], p) \in Seq(Piece) BY <1>1, Appending
<1>3. /\ fragslots'[s] = f /\ sending'[s] = g /\ missed'[s] = m
      /\ sent'[s] = Append(sent[s], p)
  BY <1>1
<1>4. \A t \in Slots \ {s} : /\ fragslots'[t] = fragslots[t] /\ sending'[t] = sending[t]
                             /\ missed'[t] = missed[t] /\ sent'[t] = sent[t]
  BY <1>1
<1>5. /\ fragslots' \in [Slots -> FragSlot] /\ sending' \in [Slots -> SendingType]
      /\ sent' \in [Slots -> Seq(Piece)] /\ missed' \in [Slots -> SUBSET Piece]
  BY <1>1, <1>2 DEF SlotType
<1>6. \A t \in Slots : Len(fragslots'[t].msgb) <= Capacity BY <1>1, <1>3, <1>4 DEF SlotType
<1>7. Slots \subseteq 1..4 /\ Capacity \in Nat BY FragAssumption
<1>8. /\ sdu' \in [slot : Slots \cup {0}, pieces : Seq(Piece)] /\ Len(sdu'.pieces) <= Capacity
      /\ SduIsWhatWasHeard' /\ NoSplice'
  <2>1. CASE sdu' = NoSdu
    <3>1. sdu'.slot = 0 /\ sdu'.pieces = <<>> /\ Len(sdu'.pieces) = 0 BY <2>1 DEF NoSdu
    <3>2. sdu' \in [slot : Slots \cup {0}, pieces : Seq(Piece)] BY <2>1 DEF NoSdu
    <3>3. SduIsWhatWasHeard' /\ NoSplice' BY <2>1, <3>1 DEF SduIsWhatWasHeard, NoSplice
    <3>4. Len(sdu'.pieces) <= Capacity BY <1>7, <3>1
    <3> QED BY <3>2, <3>3, <3>4
  <2>2. CASE sdu' # NoSdu
    <3>1. PICK r \in Seq(Piece) : /\ sdu' = [slot |-> s, pieces |-> r]
                                  /\ Len(r) <= Capacity /\ Spliceless(r)
                                  /\ HeardOf(sent'[s], missed'[s], r)
      BY <1>3, <2>2 DEF SduFits
    <3>2. sdu'.slot = s /\ sdu'.pieces = r BY <3>1
    <3>3. sdu' \in [slot : Slots \cup {0}, pieces : Seq(Piece)] BY <3>1
    <3>4. NoSplice' BY <3>1, <3>2 DEF NoSplice, Spliceless
    <3>5. SduIsWhatWasHeard' BY <3>1, <3>2 DEF SduIsWhatWasHeard, Heard, HeardOf
    <3> QED BY <3>1, <3>2, <3>3, <3>4, <3>5
  <2> QED BY <2>1, <2>2
<1>9. TypeOK' BY <1>5, <1>6, <1>8 DEF TypeOK, SendingType
<1>10. ASSUME NEW t \in Slots PROVE Numbered(t)' /\ Collected(t)'
  <2>1. CASE t = s BY <1>3, <2>1 DEF Numbered, Collected
  <2>2. CASE t # s BY <1>4, <2>2 DEF FragInv, Numbered, Collected
  <2> QED BY <2>1, <2>2
<1> QED BY <1>8, <1>9, <1>10 DEF FragInv

(* The numbering goes on with the piece p.                                 *)
LEMMA NumbersGoOn ==
  ASSUME FragInv, NEW s \in Slots, NEW p \in Piece, NEW g \in SendingType,
         NEW m \in SUBSET (Pieces(sent[s]) \cup {p}),
         g.kind # "none" => g.msg > 0 /\ p.idx <= g.idx,
         p.msg <= g.msg,
         \A x \in Pieces(sent[s]) : /\ x.msg <= g.msg
                                    /\ g.kind # "none" /\ x.msg = g.msg => x.idx <= g.idx
  PROVE  Numbers(g, Append(sent[s], p), m)
<1>1. sent[s] \in Seq(Piece) BY DEF FragInv, TypeOK
<1>2. Pieces(Append(sent[s], p)) = Pieces(sent[s]) \cup {p} BY <1>1, PiecesOfAppend
<1>3. g.kind # "none" => g.msg \in 1..MaxMsgs BY FragAssumption DEF SendingType
<1> QED BY <1>2, <1>3 DEF Numbers

(* A piece that does not get into a buffer.                                *)
LEMMA MissedStep ==
  ASSUME FragInv, NEW s \in Slots, NEW p \in Piece \ Pieces(sent[s]), NEW g \in SendingType,
         Send(s, p), sending' = [sending EXCEPT ![s] = g],
         Numbers(g, Append(sent[s], p), missed[s] \cup {p}),
         Miss(s, p), UNCHANGED fragslots, sdu' = NoSdu
  PROVE  FragInv'
<1> DEFINE f == fragslots[s]
           q == sent[s]
           m == missed[s]
<1>1. /\ fragslots \in [Slots -> FragSlot] /\ Len(f.msgb) <= Capacity
      /\ q \in Seq(Piece) /\ m \in SUBSET Piece
  BY DEF FragInv, TypeOK
<1>2. fragslots' = [fragslots EXCEPT ![s] = f] BY <1>1
<1>3. SlotType(f) BY <1>1 DEF SlotType
<1>4. sent' = [sent EXCEPT ![s] = Append(@, p)] BY DEF Send
<1>5. missed' = [missed EXCEPT ![s] = m \cup {p}] BY DEF Miss
<1>6. Collects(f, Append(q, p), m \cup {p})
  <2>1. f.active => f.msgb # <<>> /\ HeardOf(q, m, f.msgb) /\ Open(f.msgb)
    BY DEF FragInv, Collected, Collects, Open
  <2>2. f.msgb \in Seq(Piece) BY <1>1 DEF FragSlot
  <2> QED BY <1>1, <2>1, <2>2, MissedPiece DEF Collects
<1>7. SduFits(sdu', s, Append(q, p), m \cup {p}) BY DEF SduFits
<1>8. m \cup {p} \in SUBSET Piece BY <1>1
<1> HIDE DEF f, q, m
<1> QED BY <1>2, <1>3, <1>4, <1>5, <1>6, <1>7, <1>8, SlotStep DEF q, m

(* The start of a message, heard or lost, with or without a key for it.    *)
LEMMA StartStep ==
  ASSUME FragInv, NEW s \in Slots, NEW kind \in Kinds, SendStart(s, kind)
  PROVE  FragInv'
<1> DEFINE p == NextPiece(s, "START")
           g == [msg |-> sending[s].msg + 1, idx |-> 0, kind |-> kind]
           f == [active |-> TRUE, age |-> 0, encryption |-> kind = "keyed",
                 key |-> kind = "keyed", msgb |-> <<p>>]
           q == sent[s]
           m == missed[s]
<1>1. /\ ~Busy(s) /\ sending[s].msg < MaxMsgs /\ Send(s, p)
      /\ sending' = [sending EXCEPT ![s] = [msg |-> @.msg + 1, idx |-> 0, kind |-> kind]]
      /\ StartFrag(s, p, kind) \/ Lose(s, p)
  BY DEF SendStart, StartSent
<1>2. /\ sending \in [Slots -> SendingType] /\ sending[s] \in SendingType
      /\ q \in Seq(Piece) /\ missed \in [Slots -> SUBSET Piece]
      /\ Numbers(sending[s], q, m)
  BY DEF FragInv, TypeOK, SendingType, Numbered
<1>3. p \in Piece \ Pieces(q) /\ p.type = "START"
  BY <1>1, NextPieceIsNew DEF PieceTypes
<1>4. p.msg = sending[s].msg + 1 /\ p.idx = 0 BY DEF NextPiece
<1>5. MaxMsgs \in Nat /\ MaxPieces \in Nat \ {0} /\ N203 \in Nat /\ Capacity \in Nat \ {0}
  BY FragAssumption
<1>6. sending[s].msg \in Nat BY <1>2, <1>5 DEF SendingType
<1>7. g \in SendingType BY <1>1, <1>5, <1>6 DEF SendingType
<1>8. sending' = [sending EXCEPT ![s] = g] BY <1>1, <1>2
<1>9. \A x \in Pieces(q) : x.msg <= sending[s].msg /\ x \in Piece
  BY <1>2 DEF Numbers, Pieces
<1>10. \A x \in Pieces(q) : x.msg <= g.msg /\ x.msg # g.msg
  <2>1. \A x \in Pieces(q) : x.msg \in Nat BY <1>5, <1>9 DEF Piece
  <2> QED BY <1>6, <1>9, <2>1
<1>11. m \subseteq Pieces(q) BY <1>2 DEF Numbers
<1>12. \A k \in SUBSET (Pieces(q) \cup {p}) : Numbers(g, Append(q, p), k)
  <2>1. g.msg > 0 /\ p.idx <= g.idx /\ p.msg <= g.msg BY <1>4, <1>6
  <2> HIDE DEF p, g, q
  <2> QED BY <1>3, <1>7, <1>10, <2>1, NumbersGoOn DEF q
<1>13. CASE Miss(s, p) /\ UNCHANGED fragslots /\ sdu' = NoSdu
  <2>1. Numbers(g, Append(q, p), m \cup {p}) BY <1>11, <1>12
  <2> HIDE DEF p, g
  <2> QED BY <1>1, <1>3, <1>7, <1>8, <1>13, <2>1, MissedStep
<1>14. CASE Put(s, f) /\ UNCHANGED missed /\ sdu' = NoSdu
  <2>1. SlotType(f)
    <3>1. <<p>> \in Seq(Piece) /\ Len(<<p>>) = 1 BY <1>3
    <3> HIDE DEF p
    <3>2. f \in FragSlot BY <1>5, <3>1 DEF FragSlot
    <3> QED BY <1>5, <3>1, <3>2 DEF SlotType
  <2>2. Collects(f, Append(q, p), m)
    <3>1. Open(<<p>>) BY <1>3 DEF Open
    <3>2. HeardOf(Append(q, p), m, <<p>>) BY <1>2, <1>3, <1>11, FirstPiece
    <3> QED BY <3>1, <3>2 DEF Collects
  <2>3. Numbers(g, Append(q, p), m) BY <1>11, <1>12
  <2>4. SduFits(sdu', s, Append(q, p), m) BY <1>14 DEF SduFits
  <2>5. missed' = [missed EXCEPT ![s] = m] /\ m \in SUBSET Piece BY <1>2, <1>14
  <2>6. fragslots' = [fragslots EXCEPT ![s] = f] /\ sent' = [sent EXCEPT ![s] = Append(@, p)]
    BY <1>1, <1>14 DEF Put, Send
  <2> HIDE DEF p, g, f, q, m
  <2> QED BY <1>3, <1>7, <1>8, <2>1, <2>2, <2>3, <2>4, <2>5, <2>6, SlotStep DEF q
<1> QED BY <1>1, <1>13, <1>14 DEF StartFrag, Lose

(* What a MAC-FRAG or a MAC-END has in common: the message goes on with    *)
(* the piece p, which a slot that is active and has room appends.          *)
LEMMA MessageGoesOn ==
  ASSUME FragInv, NEW s \in Slots, NEW type \in {"FRAG", "END"}, Busy(s),
         sending[s].idx + 1 < MaxPieces,
         NEW g \in SendingType, g.msg = sending[s].msg,
         g.kind # "none" => g.idx = sending[s].idx + 1
  PROVE  LET p == NextPiece(s, type)
             f == fragslots[s]
             m == missed[s]
         IN  /\ p \in Piece \ Pieces(sent[s]) /\ p.type = type
             /\ Numbers(g, Append(sent[s], p), m)
             /\ Numbers(g, Append(sent[s], p), m \cup {p})
             /\ f.active => /\ Open(f.msgb)
                            /\ HeardOf(Append(sent[s], p), m, Append(f.msgb, p))
                            /\ HeardOf(Append(sent[s], p), m \cup {p}, f.msgb)
<1> DEFINE p == NextPiece(s, type)
           f == fragslots[s]
           q == sent[s]
           m == missed[s]
<1>1. /\ f \in FragSlot /\ sending[s] \in SendingType /\ q \in Seq(Piece)
      /\ m \in SUBSET Piece
      /\ Numbers(sending[s], q, m) /\ Collects(f, q, m)
  BY DEF FragInv, TypeOK, SendingType, Numbered, Collected
<1>2. p \in Piece \ Pieces(q) /\ p.type = type BY NextPieceIsNew DEF PieceTypes
<1>3. p.msg = sending[s].msg /\ p.idx = sending[s].idx + 1 BY DEF NextPiece
<1>4. sending[s].msg \in Nat /\ sending[s].idx \in Nat /\ sending[s].msg > 0
  BY <1>1, FragAssumption DEF SendingType, Numbers, Busy
<1>5. m \subseteq Pieces(q) BY <1>1 DEF Numbers
<1>6. \A x \in Pieces(q) : /\ x.msg <= g.msg
                           /\ g.kind # "none" /\ x.msg = g.msg => x.idx <= g.idx
  <2>1. \A x \in Pieces(q) : x.msg <= g.msg /\ (x.msg = g.msg => x.idx <= sending[s].idx)
    BY <1>1 DEF Numbers, Busy
  <2>2. \A x \in Pieces(q) : x \in Piece BY <1>1 DEF Pieces
  <2>3. \A x \in Pieces(q) : x.idx \in Nat BY <2>2 DEF Piece
  <2> QED BY <1>4, <2>1, <2>3
<1>7. g.kind # "none" => g.msg > 0 /\ p.idx <= g.idx BY <1>3, <1>4
<1>8. p.msg <= g.msg BY <1>3, <1>4
<1>9. \A k \in SUBSET (Pieces(q) \cup {p}) : Numbers(g, Append(q, p), k)
  <2> SUFFICES ASSUME NEW k \in SUBSET (Pieces(q) \cup {p}) PROVE Numbers(g, Append(q, p), k)
    OBVIOUS
  <2> HIDE DEF p, q
  <2> QED BY <1>2, <1>6, <1>7, <1>8, NumbersGoOn DEF q
<1>10. Numbers(g, Append(q, p), m) /\ Numbers(g, Append(q, p), m \cup {p})
  BY <1>5, <1>9
<1>11. ASSUME f.active
       PROVE  /\ Open(f.msgb) /\ HeardOf(Append(q, p), m, Append(f.msgb, p))
              /\ HeardOf(Append(q, p), m \cup {p}, f.msgb)
  <2>1. Open(f.msgb) /\ f.msgb # <<>> /\ HeardOf(q, m, f.msgb) /\ f.msgb \in Seq(Piece)
    BY <1>1, <1>11 DEF Collects, Open, FragSlot
  <2> HIDE DEF p, f, q, m
  <2> QED BY <1>1, <1>2, <1>5, <2>1, AppendedPiece, MissedPiece
<1> QED BY <1>2, <1>10, <1>11

(* What updates of a slot and of the sending side leave of the other       *)
(* fields.                                                                 *)
LEMMA RecordFields ==
  /\ \A f \in FragSlot : \A r \in Seq(Piece) :
       LET h == [f EXCEPT !.msgb = r, !.age = 0]
       IN  h \in FragSlot /\ h.msgb = r /\ h.active = f.active
  /\ \A f \in FragSlot : \A a \in 0..N203 :
       LET h == [f EXCEPT !.age = a]
       IN  h \in FragSlot /\ h.msgb = f.msgb /\ h.active = f.active
  /\ \A g \in SendingType : \A i \in 0..(MaxPieces - 1) :
       LET h == [g EXCEPT !.idx = i]
       IN  h \in SendingType /\ h.msg = g.msg /\ h.idx = i
<1>1. 0 \in 0..N203 BY FragAssumption
<1>2. ASSUME NEW f \in FragSlot, NEW r \in Seq(Piece)
      PROVE  LET h == [f EXCEPT !.msgb = r, !.age = 0]
             IN  h \in FragSlot /\ h.msgb = r /\ h.active = f.active
  BY <1>1 DEF FragSlot
<1>3. ASSUME NEW f \in FragSlot, NEW a \in 0..N203
      PROVE  LET h == [f EXCEPT !.age = a]
             IN  h \in FragSlot /\ h.msgb = f.msgb /\ h.active = f.active
  BY DEF FragSlot
<1>4. ASSUME NEW g \in SendingType, NEW i \in 0..(MaxPieces - 1)
      PROVE  LET h == [g EXCEPT !.idx = i]
             IN  h \in SendingType /\ h.msg = g.msg /\ h.idx = i
  BY DEF SendingType
<1> QED BY <1>2, <1>3, <1>4

(* A MAC-FRAG in the middle of a message.                                  *)
LEMMA FragStep ==
  ASSUME FragInv, NEW s \in Slots, SendFrag(s)
  PROVE  FragInv'
<1> DEFINE p == NextPiece(s, "FRAG")
           g == [sending[s] EXCEPT !.idx = @ + 1]
           f == fragslots[s]
           h == [f EXCEPT !.msgb = Append(@, p), !.age = 0]
           q == sent[s]
           m == missed[s]
<1>1. /\ Busy(s) /\ sending[s].idx + 2 < MaxPieces /\ Send(s, p)
      /\ sending' = [sending EXCEPT ![s].idx = @ + 1]
      /\ RxMacFrag(s, p) \/ Lose(s, p)
  BY DEF SendFrag, FragSent
<1>2. /\ sending \in [Slots -> SendingType] /\ sending[s] \in SendingType
      /\ fragslots \in [Slots -> FragSlot] /\ f \in FragSlot /\ q \in Seq(Piece)
      /\ missed \in [Slots -> SUBSET Piece]
  BY DEF FragInv, TypeOK, SendingType
<1>3. MaxPieces \in Nat /\ N203 \in Nat /\ Capacity \in Nat BY FragAssumption
<1>4. sending[s].idx \in Nat /\ sending[s].idx + 1 < MaxPieces
  BY <1>1, <1>2, <1>3 DEF SendingType
<1>5. /\ g \in SendingType /\ g.msg = sending[s].msg /\ g.idx = sending[s].idx + 1
      /\ sending' = [sending EXCEPT ![s] = g]
  <2>1. sending[s].idx + 1 \in 0..(MaxPieces - 1) BY <1>3, <1>4
  <2>2. g \in SendingType /\ g.msg = sending[s].msg /\ g.idx = sending[s].idx + 1
    BY <1>2, <2>1, RecordFields
  <2>3. sending' = [sending EXCEPT ![s] = g] BY <1>1, <1>2
  <2> QED BY <2>2, <2>3
<1>6. /\ p \in Piece \ Pieces(q) /\ p.type = "FRAG"
      /\ Numbers(g, Append(q, p), m) /\ Numbers(g, Append(q, p), m \cup {p})
      /\ f.active => /\ Open(f.msgb) /\ HeardOf(Append(q, p), m, Append(f.msgb, p))
                     /\ HeardOf(Append(q, p), m \cup {p}, f.msgb)
  <2> HIDE DEF g
  <2> QED BY <1>1, <1>4, <1>5, MessageGoesOn
<1>7. CASE Miss(s, p) /\ UNCHANGED fragslots /\ sdu' = NoSdu
  <2> HIDE DEF p, g
  <2> QED BY <1>1, <1>5, <1>6, <1>7, MissedStep
<1>8. CASE f.active /\ Fits(f) /\ Put(s, h) /\ UNCHANGED missed /\ sdu' = NoSdu
  <2>1. f.msgb \in Seq(Piece) /\ Len(f.msgb) < Capacity BY <1>2, <1>8 DEF FragSlot, Fits
  <2>2. Append(f.msgb, p) \in Seq(Piece) /\ Len(Append(f.msgb, p)) <= Capacity
    BY <1>3, <1>6, <2>1, Appending
  <2>3. /\ h.msgb = Append(f.msgb, p) /\ h \in FragSlot
    BY <1>2, <2>2, RecordFields
  <2>4. SlotType(h) BY <2>2, <2>3 DEF SlotType
  <2>5. Open(Append(f.msgb, p))
    <3> HIDE DEF p, f
    <3> QED BY <1>6, <1>8, <2>1, Appending DEF Open
  <2>6. Collects(h, Append(q, p), m) BY <1>6, <1>8, <2>3, <2>5 DEF Collects
  <2>7. SduFits(sdu', s, Append(q, p), m) BY <1>8 DEF SduFits
  <2>8. missed' = [missed EXCEPT ![s] = m] /\ m \in SUBSET Piece BY <1>2, <1>8
  <2>9. fragslots' = [fragslots EXCEPT ![s] = h] /\ sent' = [sent EXCEPT ![s] = Append(@, p)]
    BY <1>1, <1>8 DEF Put, Send
  <2> HIDE DEF p, g, f, q, m, h
  <2> QED BY <1>5, <1>6, <2>4, <2>6, <2>7, <2>8, <2>9, SlotStep DEF q
<1>9. \/ Miss(s, p) /\ UNCHANGED fragslots /\ sdu' = NoSdu
      \/ f.active /\ Fits(f) /\ Put(s, h) /\ UNCHANGED missed /\ sdu' = NoSdu
  <2>1. CASE Lose(s, p) BY <2>1 DEF Lose
  <2>2. CASE RxMacFrag(s, p) /\ f.active /\ Fits(f)
    BY <2>2 DEF RxMacFrag, Account, Appended
  <2>3. CASE RxMacFrag(s, p) /\ f.active /\ ~Fits(f)
    <3>1. Put(s, f) /\ Miss(s, p) /\ sdu' = NoSdu BY <2>3 DEF RxMacFrag, Account, Appended
    <3> QED BY <1>2, <3>1 DEF Put
  <2>4. CASE RxMacFrag(s, p) /\ ~f.active BY <2>4 DEF RxMacFrag, Account
  <2> QED BY <1>1, <2>1, <2>2, <2>3, <2>4
<1> QED BY <1>7, <1>8, <1>9

(* A MAC-END, which hands the message on if its slot collects one.         *)
LEMMA EndStep ==
  ASSUME FragInv, NEW s \in Slots, SendEnd(s)
  PROVE  FragInv'
<1> DEFINE p == NextPiece(s, "END")
           g == [sending[s] EXCEPT !.idx = 0, !.kind = "none"]
           f == fragslots[s]
           r == Appended(f, p).msgb
           q == sent[s]
           m == missed[s]
           sound == f.active /\ (~f.encryption \/ f.key)
<1>1. /\ Busy(s) /\ sending[s].idx + 1 < MaxPieces /\ Send(s, p)
      /\ sending' = [sending EXCEPT ![s].idx = 0, ![s].kind = "none"]
      /\ RxMacEnd(s, p) \/ Lose(s, p)
  BY DEF SendEnd, EndSent
<1>2. /\ sending \in [Slots -> SendingType] /\ sending[s] \in SendingType
      /\ fragslots \in [Slots -> FragSlot] /\ f \in FragSlot /\ q \in Seq(Piece)
      /\ missed \in [Slots -> SUBSET Piece] /\ Len(f.msgb) <= Capacity
  BY DEF FragInv, TypeOK, SendingType
<1>3. MaxPieces \in Nat \ {0} /\ N203 \in Nat /\ Capacity \in Nat BY FragAssumption
<1>4. /\ g \in SendingType /\ g.msg = sending[s].msg /\ g.kind = "none"
      /\ sending' = [sending EXCEPT ![s] = g]
  <2>1. 0 \in 0..(MaxPieces - 1) BY <1>3
  <2>2. g \in SendingType /\ g.msg = sending[s].msg /\ g.kind = "none"
    BY <1>2, <2>1 DEF SendingType
  <2>3. sending' = [sending EXCEPT ![s] = g] BY <1>1, <1>2
  <2> QED BY <2>2, <2>3
<1>5. /\ p \in Piece \ Pieces(q) /\ p.type = "END"
      /\ Numbers(g, Append(q, p), m) /\ Numbers(g, Append(q, p), m \cup {p})
      /\ f.active => /\ Open(f.msgb) /\ HeardOf(Append(q, p), m, Append(f.msgb, p))
                     /\ HeardOf(Append(q, p), m \cup {p}, f.msgb)
  <2> HIDE DEF g
  <2> QED BY <1>1, <1>4, MessageGoesOn
<1>6. CASE Lose(s, p)
  <2>1. Miss(s, p) /\ UNCHANGED fragslots /\ sdu' = NoSdu BY <1>6 DEF Lose
  <2> HIDE DEF p, g
  <2> QED BY <1>1, <1>4, <1>5, <2>1, MissedStep
<1>7. CASE RxMacEnd(s, p)
  <2>1. /\ sdu' = IF sound THEN [slot |-> s, pieces |-> r] ELSE NoSdu
        /\ Put(s, Cleared)
        /\ IF f.active /\ Fits(f) THEN UNCHANGED missed ELSE Miss(s, p)
    BY <1>7 DEF RxMacEnd, Account
  <2> DEFINE k == IF f.active /\ Fits(f) THEN m ELSE m \cup {p}
  <2>2. /\ missed' = [missed EXCEPT ![s] = k] /\ k \in SUBSET Piece
        /\ Numbers(g, Append(q, p), k)
    <3>1. m \in SUBSET Piece BY <1>2
    <3> HIDE DEF p, f, g, q
    <3>2. CASE f.active /\ Fits(f) BY <1>2, <1>5, <2>1, <3>1, <3>2
    <3>3. CASE ~(f.active /\ Fits(f)) BY <1>2, <1>5, <2>1, <3>1, <3>3 DEF Miss
    <3> QED BY <3>2, <3>3
  <2>3. SlotType(Cleared) BY <1>3 DEF SlotType, FragSlot, Cleared
  <2>4. Collects(Cleared, Append(q, p), k) BY DEF Collects, Cleared
  <2>5. f.msgb \in Seq(Piece) BY <1>2 DEF FragSlot
  <2>6. f.active =>
          /\ r \in Seq(Piece) /\ Len(r) <= Capacity /\ Spliceless(r)
          /\ HeardOf(Append(q, p), k, r)
    <3>1. CASE f.active /\ Fits(f)
      <4>1. Appended(f, p) = [f EXCEPT !.msgb = Append(@, p), !.age = 0]
        BY <3>1 DEF Appended
      <4>2. Append(f.msgb, p) \in Seq(Piece) BY <1>5, <2>5, Appending
      <4> DEFINE h == [f EXCEPT !.msgb = Append(@, p), !.age = 0]
      <4>3. r = Append(f.msgb, p)
        <5>1. h.msgb = Append(f.msgb, p) BY <1>2, <4>2, RecordFields
        <5>2. r = h.msgb BY <4>1
        <5> QED BY <5>1, <5>2
      <4>4. Len(r) <= Capacity BY <1>3, <1>5, <2>5, <3>1, <4>3, Appending DEF Fits
      <4>5. Spliceless(Append(f.msgb, p))
        <5> HIDE DEF p, f
        <5> QED BY <1>5, <2>5, <3>1, Appending DEF Open, Spliceless
      <4>6. k = m BY <3>1
      <4> HIDE DEF r, k, p, f, h
      <4> QED BY <1>5, <3>1, <4>2, <4>3, <4>4, <4>5, <4>6
    <3>2. CASE f.active /\ ~Fits(f)
      <4>1. r = f.msgb BY <3>2 DEF Appended
      <4>2. Spliceless(f.msgb)
        <5> HIDE DEF p, f
        <5> QED BY <1>5, <2>5, <3>2, Appending DEF Open, Spliceless
      <4>3. k = m \cup {p} BY <3>2
      <4> HIDE DEF r, k, p, f
      <4> QED BY <1>2, <1>5, <2>5, <3>2, <4>1, <4>2, <4>3
    <3> QED BY <3>1, <3>2
  <2>7. SduFits(sdu', s, Append(q, p), k)
    <3> HIDE DEF r, k, p, f
    <3>1. CASE sound BY <2>1, <2>6, <3>1 DEF SduFits
    <3>2. CASE ~sound BY <2>1, <3>2 DEF SduFits
    <3> QED BY <3>1, <3>2
  <2>8. fragslots' = [fragslots EXCEPT ![s] = Cleared]
        /\ sent' = [sent EXCEPT ![s] = Append(@, p)]
    BY <1>1, <2>1 DEF Put, Send
  <2> HIDE DEF p, g, f, q, m, r, k
  <2> QED BY <1>4, <1>5, <2>2, <2>3, <2>4, <2>7, <2>8, SlotStep DEF q
<1> QED BY <1>1, <1>6, <1>7

(* Frame 18: slots grow older, and the oldest are emptied.                 *)
LEMMA AgeStep ==
  ASSUME FragInv, AgeFragslots
  PROVE  FragInv'
<1>1. /\ fragslots' = [s \in Slots |-> Aged(fragslots[s])] /\ sdu' = NoSdu
      /\ sending' = sending /\ sent' = sent /\ missed' = missed
  BY DEF AgeFragslots
<1>2. Slots \subseteq 1..4 /\ Capacity \in Nat /\ N203 \in Nat BY FragAssumption
<1>3. ASSUME NEW s \in Slots
      PROVE  /\ fragslots'[s] \in FragSlot /\ Len(fragslots'[s].msgb) <= Capacity
             /\ fragslots'[s].active =>
                  fragslots[s].active /\ fragslots'[s].msgb = fragslots[s].msgb
  <2> DEFINE f == fragslots[s]
  <2>1. f \in FragSlot /\ Len(f.msgb) <= Capacity /\ f.age \in 0..N203
    BY DEF FragInv, TypeOK, FragSlot
  <2>2. fragslots'[s] = Aged(f) BY <1>1
  <2>3. CASE ~f.active
    <3>1. Aged(f) = f BY <2>3 DEF Aged
    <3> QED BY <2>1, <2>2, <3>1
  <2>4. CASE f.active /\ f.age < N203
    <3>1. Aged(f) = [f EXCEPT !.age = @ + 1] BY <2>4 DEF Aged
    <3>2. f.age + 1 \in 0..N203 BY <1>2, <2>1, <2>4
    <3> DEFINE h == [f EXCEPT !.age = @ + 1]
    <3>3. h \in FragSlot /\ h.msgb = f.msgb /\ h.active = f.active
      BY <2>1, <3>2, RecordFields
    <3>4. fragslots'[s] = h BY <2>2, <3>1
    <3> HIDE DEF h
    <3> QED BY <2>1, <3>3, <3>4
  <2>5. CASE f.active /\ ~(f.age < N203)
    <3>1. Aged(f) = Cleared BY <2>5 DEF Aged
    <3>2. Cleared \in FragSlot /\ Cleared.msgb = <<>> /\ ~Cleared.active
      BY <1>2 DEF Cleared, FragSlot
    <3> QED BY <1>2, <2>2, <3>1, <3>2
  <2> QED BY <2>3, <2>4, <2>5
<1>4. sdu'.slot = 0 /\ sdu'.pieces = <<>> /\ Len(sdu'.pieces) = 0 BY <1>1 DEF NoSdu
<1>5. sdu' \in [slot : Slots \cup {0}, pieces : Seq(Piece)] BY <1>1 DEF NoSdu
<1>6. fragslots' \in [Slots -> FragSlot] BY <1>1, <1>3
<1>7. TypeOK' BY <1>1, <1>2, <1>3, <1>4, <1>5, <1>6 DEF FragInv, TypeOK
<1>8. SduIsWhatWasHeard' /\ NoSplice' BY <1>1, <1>4 DEF SduIsWhatWasHeard, NoSplice
<1>9. ASSUME NEW s \in Slots PROVE Numbered(s)' /\ Collected(s)'
  BY <1>1, <1>3 DEF FragInv, Numbered, Collected, Collects
<1> QED BY <1>7, <1>8, <1>9 DEF FragInv

LEMMA FragInvHolds == Spec => []FragInv
<1>1. Init => FragInv
  <2> SUFFICES ASSUME Init PROVE FragInv OBVIOUS
  <2>1. Slots \subseteq 1..4 /\ Capacity \in Nat /\ N203 \in Nat
        /\ MaxMsgs \in Nat \ {0} /\ MaxPieces \in Nat \ {0}
    BY FragAssumption
  <2>2. Cleared \in FragSlot /\ Cleared.msgb = <<>> /\ ~Cleared.active
    BY <2>1 DEF Cleared, FragSlot
  <2>3. Idle \in SendingType /\ Idle.kind = "none" BY <2>1 DEF Idle, SendingType
  <2>4. TypeOK BY <2>1, <2>2, <2>3 DEF Init, TypeOK, SendingType, NoSdu
  <2>5. SduIsWhatWasHeard /\ NoSplice BY DEF Init, SduIsWhatWasHeard, NoSplice, NoSdu
  <2>6. ASSUME NEW s \in Slots PROVE Numbered(s) /\ Collected(s)
    <3>1. /\ fragslots[s] = Cleared /\ sending[s] = Idle /\ sent[s] = <<>>
          /\ missed[s] = {}
      BY DEF Init
    <3>2. Pieces(<<>>) = {} BY DEF Pieces
    <3> QED BY <2>2, <2>3, <3>1, <3>2 DEF Numbered, Numbers, Collected, Collects
  <2> QED BY <2>4, <2>5, <2>6 DEF FragInv
<1>2. FragInv /\ [Next]_vars => FragInv'
  <2> SUFFICES ASSUME FragInv, [Next]_vars PROVE FragInv' OBVIOUS
  <2>1. ASSUME NEW s \in Slots, NEW kind \in Kinds, SendStart(s, kind) PROVE FragInv'
    BY <2>1, StartStep
  <2>2. ASSUME NEW s \in Slots, SendFrag(s) PROVE FragInv' BY <2>2, FragStep
  <2>3. ASSUME NEW s \in Slots, SendEnd(s) PROVE FragInv' BY <2>3, EndStep
  <2>4. CASE AgeFragslots BY <2>4, AgeStep
  <2>5. CASE UNCHANGED vars
    BY <2>5 DEF vars, FragInv, TypeOK, SduIsWhatWasHeard, Heard, NoSplice, Numbered, Collected
  <2> QED BY <2>1, <2>2, <2>3, <2>4, <2>5 DEF Next
<1> QED BY <1>1, <1>2, PTL DEF Spec

(* The slots, the buffers and the message passed on stay within their      *)
(* types: no buffer ever holds more than Capacity (append_frag_bits).      *)
THEOREM FragSlotTypes == Spec => []TypeOK
<1>1. FragInv => TypeOK BY DEF FragInv
<1> QED BY <1>1, FragInvHolds, PTL

(* What rx_macend passes to rx_tm_sdu is what was heard in its timeslot    *)
(* since the MAC-RESOURCE it starts with, in the order it was sent.        *)
THEOREM SdusAreWhatWasHeard == Spec => []SduIsWhatWasHeard
<1>1. FragInv => SduIsWhatWasHeard BY DEF FragInv
<1> QED BY <1>1, FragInvHolds, PTL

(* What rx_macend passes on starts with a MAC-RESOURCE and has no other    *)
(* start and no end inside it.                                             *)
THEOREM NothingSpliced == Spec => []NoSplice
<1>1. FragInv => NoSplice BY DEF FragInv
<1> QED BY <1>1, FragInvHolds, PTL
=============================================================================
