-------------------------- MODULE LlcDefrag_proofs --------------------------
(***************************************************************************)
(* Proofs about LlcDefrag, for any links, N(S) values, size of the message *)
(* buffers and number of SDUs, segments and repetitions.                   *)
(*                                                                         *)
(* The invariant DefragInv relates what an entry of the list holds to the  *)
(* number of its last segment (EntryOK), and what was heard with an N(S)   *)
(* to what is collected of it (HeardOK).                                   *)
(***************************************************************************)
EXTENDS LlcDefrag, TLAPS

(* The entry e of N(S) ns: last_ss is the number of its last segment.      *)
EntryOK(e, ns) ==
  /\ e.segs = <<>> => e.lastSs = 0
  /\ e.segs # <<>> => e.lastSs = e.segs[Len(e.segs)].ss
  /\ \A i \in 1..Len(e.segs) : NsOf(e.segs[i]) = ns
  /\ NoGapBehind(e.segs) /\ NoneFinal(e.segs)

(* What was heard with an N(S) is what its entry holds, unless segments    *)
(* are missing, repeated or of several SDUs.                               *)
HeardOK(e, q) == Undisturbed(q) => e.segs = q

DefragInv ==
  /\ TypeOK /\ NoLateGap
  /\ \A ns \in Nss : EntryOK(defragList[ns], ns) /\ HeardOK(defragList[ns], heard[ns])

EntryType == [queued : BOOLEAN, lastSs : 0..(MaxSegs - 1), segs : Seq(Seg)]

-----------------------------------------------------------------------------
(* A segment is appended to a sequence of segments.                        *)
LEMMA Appending ==
  ASSUME NEW S, NEW q \in Seq(S), NEW p \in S
  PROVE  /\ Append(q, p) \in Seq(S) /\ Len(Append(q, p)) = Len(q) + 1 /\ Len(q) \in Nat
         /\ Append(q, p)[Len(q) + 1] = p
         /\ \A i \in 1..Len(q) : Append(q, p)[i] = q[i] /\ i \in 1..Len(Append(q, p))
         /\ 1..(Len(q) + 1) = 1..Len(q) \cup {Len(q) + 1}
         /\ Append(q, p) # <<>>
         /\ q \o <<p>> = Append(q, p)
         /\ q # <<>> => Len(q) > 0 /\ Len(q) \in 1..Len(q)
<1>1. /\ Append(q, p) \in Seq(S) /\ Len(Append(q, p)) = Len(q) + 1 /\ Len(q) \in Nat
      /\ Append(q, p)[Len(q) + 1] = p
      /\ \A i \in 1..Len(q) : Append(q, p)[i] = q[i]
      /\ 1..(Len(q) + 1) = 1..Len(q) \cup {Len(q) + 1}
  OBVIOUS
<1>2. Append(q, p) # <<>> BY <1>1
<1>3. q # <<>> => Len(q) > 0 OBVIOUS
<1>4. q \o <<p>> = Append(q, p) OBVIOUS
<1> QED BY <1>1, <1>2, <1>3, <1>4

(* A segment that is not behind a gap is appended without making one.      *)
LEMMA NoGapAppended ==
  ASSUME NEW q \in Seq(Seg), NEW p \in Seg, NoGapBehind(q), NoneFinal(q),
         q # <<>> => q[Len(q)].ss = 0 \/ q[Len(q)].ss + 1 = p.ss
  PROVE  NoGapBehind(Append(q, p)) /\ (~p.final => NoneFinal(Append(q, p)))
<1> DEFINE r == Append(q, p)
<1>1. /\ Len(r) = Len(q) + 1 /\ Len(q) \in Nat /\ r[Len(q) + 1] = p
      /\ \A i \in 1..Len(q) : r[i] = q[i]
  BY Appending
<1> HIDE DEF r
<1>2. NoGapBehind(r)
  <2> SUFFICES ASSUME NEW i \in 1..(Len(r) - 1)
               PROVE  ~r[i].final /\ (r[i].ss # 0 => r[i + 1].ss = r[i].ss + 1)
    BY DEF NoGapBehind
  <2>1. i \in 1..Len(q) /\ r[i] = q[i] /\ q # <<>> BY <1>1
  <2>2. ~r[i].final BY <2>1 DEF NoneFinal
  <2>3. CASE i = Len(q) BY <1>1, <2>1, <2>2, <2>3
  <2>4. CASE i # Len(q)
    <3>1. i \in 1..(Len(q) - 1) /\ i + 1 \in 1..Len(q) BY <1>1, <2>1, <2>4
    <3> QED BY <1>1, <2>1, <2>2, <3>1 DEF NoGapBehind
  <2> QED BY <2>3, <2>4
<1>3. ~p.final => NoneFinal(r) BY <1>1 DEF NoneFinal
<1> QED BY <1>2, <1>3 DEF r

(* What was undisturbed with its last segment was so without it.           *)
LEMMA UndisturbedPrefix ==
  ASSUME NEW q \in Seq(Seg), NEW p \in Seg, Undisturbed(Append(q, p))
  PROVE  Undisturbed(q) /\ p.ss = Len(q)
<1> DEFINE r == Append(q, p)
<1>1. /\ Len(r) = Len(q) + 1 /\ Len(q) \in Nat /\ r[Len(q) + 1] = p
      /\ \A i \in 1..Len(q) : r[i] = q[i] /\ i \in 1..Len(r)
  BY Appending
<1>2. Undisturbed(r) BY DEF r
<1> HIDE DEF r
<1>3. p.ss = Len(q) BY <1>1, <1>2 DEF Undisturbed
<1>4. Undisturbed(q)
  <2> SUFFICES ASSUME NEW i \in 1..Len(q)
               PROVE  q[i].ss = i - 1 /\ q[i].link = q[1].link /\ q[i].sdu = q[1].sdu
    BY DEF Undisturbed
  <2>1. 1 \in 1..Len(q) BY <1>1
  <2>2. r[i] = q[i] /\ r[1] = q[1] /\ i \in 1..Len(r) BY <1>1, <2>1
  <2> QED BY <1>2, <2>2 DEF Undisturbed
<1> QED BY <1>3, <1>4

(* tllc_defrag_in: what an entry is after the segment p of its N(S).       *)
LEMMA SegmentIn ==
  ASSUME NEW ns \in Nss, NEW e \in EntryType, NEW q \in Seq(Seg), NEW p \in Seg,
         NsOf(p) = ns, EntryOK(e, ns), HeardOK(e, q)
  PROVE  LET h == DefragIn(e, p)
         IN  /\ h \in EntryType /\ NoGapBehind(h.segs)
             /\ \A i \in 1..Len(h.segs) : NsOf(h.segs[i]) = ns
             /\ Len(h.segs) = IF NextExpected(e, p) THEN Len(e.segs) + 1 ELSE Len(e.segs)
             /\ ~p.final => EntryOK(h, ns)
             /\ HeardOK(h, Append(q, p))
             /\ h.segs # <<>> /\ h.segs[Len(h.segs)].final => h.segs[Len(h.segs)] = p
<1> DEFINE h == DefragIn(e, p)
           r == Append(e.segs, p)
<1>1. /\ e.segs \in Seq(Seg) /\ e.queued \in BOOLEAN /\ e.lastSs \in 0..(MaxSegs - 1)
      /\ p.ss \in 0..(MaxSegs - 1) /\ p.final \in BOOLEAN
  BY DEF EntryType, Seg
<1>2. /\ r \in Seq(Seg) /\ Len(r) = Len(e.segs) + 1 /\ r # <<>> /\ r[Len(r)] = p
      /\ \A i \in 1..Len(e.segs) : r[i] = e.segs[i]
      /\ 1..Len(r) = 1..Len(e.segs) \cup {Len(r)}
  BY <1>1, Appending
<1>3. MaxSegs \in Nat BY LlcAssumption
<1>4. CASE NextExpected(e, p)
  <2>1. h = [queued |-> TRUE, lastSs |-> p.ss, segs |-> r] BY <1>4 DEF DefragIn
  <2>2. h.segs = r /\ h.lastSs = p.ss BY <2>1
  <2>3. h \in EntryType
    <3> HIDE DEF h, r
    <3> QED BY <1>1, <1>2, <2>1 DEF EntryType
  <2>4. NoGapBehind(r) /\ (~p.final => NoneFinal(r))
    <3>1. e.segs # <<>> => e.segs[Len(e.segs)].ss = 0 \/ e.segs[Len(e.segs)].ss + 1 = p.ss
      BY <1>4 DEF EntryOK, NextExpected
    <3> QED BY <1>1, <3>1, NoGapAppended DEF EntryOK
  <2>5. \A i \in 1..Len(r) : NsOf(r[i]) = ns
    <3> HIDE DEF r, h
    <3> QED BY <1>2 DEF EntryOK
  <2>6. HeardOK(h, Append(q, p))
    <3> SUFFICES ASSUME Undisturbed(Append(q, p)) PROVE h.segs = Append(q, p)
      BY DEF HeardOK
    <3>1. Undisturbed(q) BY UndisturbedPrefix
    <3> QED BY <2>2, <3>1 DEF HeardOK
  <2> HIDE DEF h, r
  <2>7. ~p.final => EntryOK(h, ns) BY <1>2, <2>2, <2>4, <2>5 DEF EntryOK
  <2> QED BY <1>2, <1>4, <2>2, <2>3, <2>4, <2>5, <2>6, <2>7 DEF h
<1>5. CASE ~NextExpected(e, p)
  <2>1. h = [e EXCEPT !.queued = TRUE] BY <1>5 DEF DefragIn
  <2>2. h \in EntryType /\ h.segs = e.segs /\ h.lastSs = e.lastSs
    BY <2>1 DEF EntryType
  <2> HIDE DEF h
  <2>3. EntryOK(h, ns) BY <2>2 DEF EntryOK
  <2>4. HeardOK(h, Append(q, p))
    <3> SUFFICES ASSUME Undisturbed(Append(q, p)) PROVE FALSE BY DEF HeardOK
    <3>1. Undisturbed(q) /\ p.ss = Len(q) /\ Len(q) \in Nat BY Appending, UndisturbedPrefix
    <3>2. e.segs = q BY <3>1 DEF HeardOK
    <3>3. e.lastSs # 0 BY <1>5 DEF NextExpected
    <3>4. q # <<>> /\ Len(q) \in 1..Len(q) BY <3>2, <3>3, Appending DEF EntryOK
    <3>5. q[Len(q)].ss = Len(q) - 1 BY <3>1, <3>4 DEF Undisturbed
    <3>6. e.lastSs + 1 = p.ss BY <3>1, <3>2, <3>4, <3>5 DEF EntryOK
    <3> QED BY <1>5, <3>6 DEF NextExpected
  <2>5. h.segs # <<>> => ~h.segs[Len(h.segs)].final
    BY <1>1, <2>2, Appending DEF EntryOK, NoneFinal
  <2> QED BY <1>5, <2>2, <2>3, <2>4, <2>5 DEF h, EntryOK
<1> QED BY <1>4, <1>5

-----------------------------------------------------------------------------
(* rx_tm_sdu on a segment.                                                 *)
LEMMA Received ==
  ASSUME DefragInv, NEW p \in Seg, RxSegment(p)
  PROVE  /\ defragList' \in [Nss -> EntryType]
         /\ \A ns \in Nss : Len(defragList'[ns].segs) <= BufSegs
         /\ tlSdu' \in Seq(Seg) /\ panicked' \in BOOLEAN /\ heard' \in [Nss -> Seq(Seg)]
         /\ NoGapBehind(tlSdu')
         /\ \A ns \in Nss : EntryOK(defragList'[ns], ns) /\ HeardOK(defragList'[ns], heard'[ns])
         /\ ExactStep
<1> DEFINE ns == NsOf(p)
           d == defragList[ns]
           e == DefragIn(d, p)
<1>1. /\ defragList \in [Nss -> EntryType] /\ heard \in [Nss -> Seq(Seg)]
      /\ \A n \in Nss : Len(defragList[n].segs) <= BufSegs
      /\ \A n \in Nss : EntryOK(defragList[n], n) /\ HeardOK(defragList[n], heard[n])
  BY DEF DefragInv, TypeOK, EntryType
<1>2. ns \in Nss /\ BufSegs \in Nat /\ MaxSegs \in Nat \ {0}
  <2>1. NsSize \in Nat \ {0} /\ p.sdu \in Nat BY LlcAssumption DEF Seg
  <2> QED BY <2>1, LlcAssumption DEF NsOf, Nss
<1>3. ns = NsOf(p) /\ d \in EntryType /\ heard[ns] \in Seq(Seg) /\ EntryOK(d, ns) /\ HeardOK(d, heard[ns])
      /\ Len(d.segs) <= BufSegs
  BY <1>1, <1>2
<1>4. /\ e \in EntryType /\ NoGapBehind(e.segs)
      /\ \A i \in 1..Len(e.segs) : NsOf(e.segs[i]) = ns
      /\ Len(e.segs) = IF NextExpected(d, p) THEN Len(d.segs) + 1 ELSE Len(d.segs)
      /\ ~p.final => EntryOK(e, ns)
      /\ HeardOK(e, Append(heard[ns], p))
      /\ e.segs # <<>> /\ e.segs[Len(e.segs)].final => e.segs[Len(e.segs)] = p
  <2> HIDE DEF d, ns
  <2> QED BY <1>2, <1>3, SegmentIn
<1>5. e.segs \in Seq(Seg) /\ d.segs \in Seq(Seg) /\ Len(d.segs) \in Nat BY <1>3, <1>4 DEF EntryType
<1>6. /\ EntryOK(NoEntry, ns) /\ NoEntry \in EntryType /\ HeardOK(NoEntry, <<>>)
      /\ Len(NoEntry.segs) = 0 /\ NoGapBehind(<<>>) /\ <<>> \in Seq(Seg)
  BY <1>2 DEF EntryOK, NoEntry, EntryType, NoGapBehind, NoneFinal, HeardOK
<1>7. CASE Overflows(d, p)
  <2>1. panicked' = TRUE /\ tlSdu' = <<>> /\ UNCHANGED <<defragList, heard>>
    BY <1>7 DEF RxSegment
  <2>2. ExactStep BY <2>1 DEF ExactStep
  <2> QED BY <1>1, <1>6, <2>1, <2>2
<1>8. CASE ~Overflows(d, p)
  <2> DEFINE h == IF p.final THEN NoEntry ELSE e
             r == IF p.final THEN <<>> ELSE Append(heard[ns], p)
  <2>1. /\ panicked' = panicked /\ tlSdu' = IF p.final THEN e.segs ELSE <<>>
        /\ defragList' = [defragList EXCEPT ![ns] = h]
        /\ heard' = [heard EXCEPT ![ns] = r]
    <3>1. heard' = [heard EXCEPT ![ns] = IF p.final THEN <<>> ELSE Append(@, p)]
          /\ defragList' = [defragList EXCEPT ![ns] = IF p.final THEN DefragOut(e) ELSE e]
          /\ panicked' = panicked /\ tlSdu' = IF p.final THEN e.segs ELSE <<>>
      BY <1>8 DEF RxSegment
    <3>2. DefragOut(e) = NoEntry BY DEF DefragOut
    <3> HIDE DEF e, ns
    <3> QED BY <1>1, <1>2, <3>1, <3>2
  <2>2. /\ h \in EntryType /\ Len(h.segs) <= BufSegs /\ EntryOK(h, ns) /\ HeardOK(h, r)
        /\ r \in Seq(Seg)
    <3>1. Len(e.segs) <= BufSegs BY <1>2, <1>3, <1>4, <1>5, <1>8 DEF Overflows
    <3>2. Append(heard[ns], p) \in Seq(Seg) BY <1>3, Appending
    <3> HIDE DEF e, d, ns
    <3>3. CASE p.final BY <1>2, <1>6, <3>3
    <3>4. CASE ~p.final BY <1>4, <3>1, <3>2, <3>4
    <3> QED BY <3>3, <3>4
  <2>3. \A n \in Nss \ {ns} : defragList'[n] = defragList[n] /\ heard'[n] = heard[n]
    BY <1>1, <2>1
  <2>4. defragList'[ns] = h /\ heard'[ns] = r BY <1>1, <1>2, <2>1
  <2>5. tlSdu' \in Seq(Seg) /\ NoGapBehind(tlSdu') BY <1>4, <1>5, <1>6, <2>1
  <2>6. panicked' \in BOOLEAN BY <2>1 DEF DefragInv, TypeOK
  <2>7. ExactStep
    <3> SUFFICES ASSUME NEW n \in Nss, tlSdu' # <<>>, NsOf(tlSdu'[1]) = n,
                        tlSdu'[Len(tlSdu')].final,
                        Undisturbed(heard[n] \o <<tlSdu'[Len(tlSdu')]>>)
                 PROVE  tlSdu' = heard[n] \o <<tlSdu'[Len(tlSdu')]>>
      BY DEF ExactStep
    <3>1. tlSdu' = e.segs /\ e.segs # <<>> BY <2>1
    <3> HIDE DEF e
    <3>2. 1 \in 1..Len(e.segs) BY <1>5, <3>1
    <3>3. n = ns BY <1>4, <3>1, <3>2
    <3>4. tlSdu'[Len(tlSdu')] = p BY <1>4, <3>1
    <3>5. heard[n] \o <<p>> = Append(heard[ns], p) BY <1>3, <3>3, Appending
    <3> QED BY <1>4, <3>1, <3>4, <3>5 DEF HeardOK
  <2> HIDE DEF h, r, e, d, ns
  <2>8. defragList' \in [Nss -> EntryType] /\ heard' \in [Nss -> Seq(Seg)]
    BY <1>1, <2>1, <2>2
  <2>9. ASSUME NEW n \in Nss
        PROVE  /\ Len(defragList'[n].segs) <= BufSegs
               /\ EntryOK(defragList'[n], n) /\ HeardOK(defragList'[n], heard'[n])
    <3>1. CASE n = ns BY <2>2, <2>4, <3>1
    <3>2. CASE n # ns BY <1>1, <2>3, <3>2
    <3> QED BY <3>1, <3>2
  <2> QED BY <2>5, <2>6, <2>7, <2>8, <2>9
<1> QED BY <1>7, <1>8

(* A segment on the air, received or lost, first sent or repeated.         *)
LEMMA TransmitStep ==
  ASSUME DefragInv, NEW p \in Seg, Transmit(p),
         lastPdu' \in [Links -> Seg \cup {NotSent(l) : l \in Links}],
         repeats' \in 0..MaxRepeats
  PROVE  DefragInv' /\ ExactStep
<1>1. /\ defragList \in [Nss -> EntryType] /\ panicked \in BOOLEAN
      /\ heard \in [Nss -> Seq(Seg)]
      /\ \A n \in Nss : Len(defragList[n].segs) <= BufSegs
      /\ \A n \in Nss : EntryOK(defragList[n], n) /\ HeardOK(defragList[n], heard[n])
  BY DEF DefragInv, TypeOK, EntryType
<1>2. /\ defragList' \in [Nss -> EntryType]
      /\ \A ns \in Nss : Len(defragList'[ns].segs) <= BufSegs
      /\ tlSdu' \in Seq(Seg) /\ panicked' \in BOOLEAN /\ heard' \in [Nss -> Seq(Seg)]
      /\ NoGapBehind(tlSdu')
      /\ \A ns \in Nss : EntryOK(defragList'[ns], ns) /\ HeardOK(defragList'[ns], heard'[ns])
      /\ ExactStep
  <2>1. CASE RxSegment(p) BY <2>1, Received
  <2>2. CASE Lose(p)
    <3>1. tlSdu' = <<>> /\ UNCHANGED <<defragList, panicked, heard>> BY <2>2 DEF Lose
    <3>2. tlSdu' \in Seq(Seg) /\ NoGapBehind(tlSdu') BY <3>1 DEF NoGapBehind
    <3>3. ExactStep BY <3>1 DEF ExactStep
    <3> QED BY <1>1, <3>1, <3>2, <3>3
  <2> QED BY <2>1, <2>2 DEF Transmit
<1>3. TypeOK' BY <1>2 DEF TypeOK, EntryType
<1>4. NoLateGap' BY <1>2 DEF NoLateGap, EntryOK
<1> QED BY <1>2, <1>3, <1>4 DEF DefragInv

(* Every action sends one segment, a new one or the one before.            *)
LEMMA DefragStep ==
  ASSUME DefragInv, Next
  PROVE  DefragInv' /\ ExactStep
<1>1. /\ lastPdu \in [Links -> Seg \cup {NotSent(l) : l \in Links}]
      /\ repeats \in 0..MaxRepeats /\ MaxRepeats \in Nat
  BY LlcAssumption DEF DefragInv, TypeOK
<1>2. ASSUME NEW l \in Links, RepeatPdu(l) PROVE DefragInv' /\ ExactStep
  <2>1. lastPdu[l] \in Seg /\ Transmit(lastPdu[l]) /\ lastPdu' = lastPdu
        /\ repeats < MaxRepeats /\ repeats' = repeats + 1
    BY <1>2 DEF RepeatPdu
  <2>2. repeats' \in 0..MaxRepeats BY <1>1, <2>1
  <2> QED BY <1>1, <2>1, <2>2, TransmitStep
<1>3. ASSUME NEW l \in Links, NEW final \in BOOLEAN, SendPdu(l, final)
      PROVE  DefragInv' /\ ExactStep
  <2> DEFINE p == NextPdu(l, final)
  <2>1. /\ p \in Seg /\ Transmit(p) /\ lastPdu' = [lastPdu EXCEPT ![l] = p]
        /\ repeats' = repeats
    BY <1>3 DEF SendPdu
  <2> HIDE DEF p
  <2>2. lastPdu' \in [Links -> Seg \cup {NotSent(k) : k \in Links}] BY <1>1, <2>1
  <2> QED BY <1>1, <2>1, <2>2, TransmitStep
<1> QED BY <1>2, <1>3 DEF Next

LEMMA DefragInvHolds == Spec => [](DefragInv)
<1>1. Init => DefragInv
  <2> SUFFICES ASSUME Init PROVE DefragInv OBVIOUS
  <2>1. BufSegs \in Nat /\ MaxSegs \in Nat \ {0} /\ MaxRepeats \in Nat BY LlcAssumption
  <2>2. NoEntry \in EntryType /\ NoEntry.segs = <<>> /\ NoEntry.lastSs = 0
    BY <2>1 DEF NoEntry, EntryType
  <2>3. defragList \in [Nss -> EntryType] /\ \A ns \in Nss : defragList[ns] = NoEntry
    BY <2>2 DEF Init
  <2>4. lastPdu \in [Links -> Seg \cup {NotSent(l) : l \in Links}] BY DEF Init
  <2>5. TypeOK
    <3>1. <<>> \in Seq(Seg) /\ Len(<<>>) = 0 OBVIOUS
    <3>2. \A ns \in Nss : Len(defragList[ns].segs) <= BufSegs BY <2>1, <2>2, <2>3, <3>1
    <3>3. heard \in [Nss -> Seq(Seg)] /\ tlSdu \in Seq(Seg) /\ panicked \in BOOLEAN
      BY <3>1 DEF Init
    <3>4. repeats \in 0..MaxRepeats BY <2>1 DEF Init
    <3> QED BY <2>3, <2>4, <3>2, <3>3, <3>4 DEF TypeOK, EntryType
  <2>6. \A ns \in Nss : EntryOK(defragList[ns], ns) /\ HeardOK(defragList[ns], heard[ns])
    BY <2>2, <2>3 DEF Init, EntryOK, NoGapBehind, NoneFinal, HeardOK
  <2>7. NoLateGap BY <2>6 DEF Init, NoLateGap, EntryOK, NoGapBehind
  <2> QED BY <2>5, <2>6, <2>7 DEF DefragInv
<1>2. DefragInv /\ [Next]_vars => DefragInv'
  <2>1. DefragInv /\ UNCHANGED vars => DefragInv'
    BY DEF vars, DefragInv, TypeOK, NoLateGap
  <2> QED BY <2>1, DefragStep
<1> QED BY <1>1, <1>2, PTL DEF Spec

(* The list, its message buffers and what is passed on stay within their   *)
(* types: no entry ever holds more segments than BufSegs.                  *)
THEOREM DefragTypes == Spec => []TypeOK
<1>1. DefragInv => TypeOK BY DEF DefragInv
<1> QED BY <1>1, DefragInvHolds, PTL

(* Whatever was lost or repeated, and whoever sent it, tllc_defrag_in      *)
(* leaves a gap or a repetition only behind a segment 0, and appends       *)
(* nothing behind a final segment.                                         *)
THEOREM NoLateGaps == Spec => []NoLateGap
<1>1. DefragInv => NoLateGap BY DEF DefragInv
<1> QED BY <1>1, DefragInvHolds, PTL

(* An SDU whose segments are heard once each, with no others of their N(S) *)
(* in between, is passed to the MLE exactly as it was sent.                *)
THEOREM UndisturbedIsExact == Spec => ExactWhenUndisturbed
<1>1. DefragInv /\ [Next]_vars => [ExactStep]_vars BY DefragStep
<1> QED BY <1>1, DefragInvHolds, PTL DEF Spec, ExactWhenUndisturbed
=============================================================================
