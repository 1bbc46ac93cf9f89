----------------------------- MODULE LlcDefrag -----------------------------
(***************************************************************************)
(* The segmented TL-SDUs of the LLC's advanced links, src/tetra_llc.c: one *)
(* entry per N(S) collects the segments that rx_tm_sdu hands to            *)
(* tllc_defrag_in; a final segment also takes the entry off the list and   *)
(* passes what is in it to the MLE (tllc_defrag_out).                      *)
(*                                                                         *)
(* The list is global: the links of all subscribers in the cell, and the   *)
(* acknowledged and unacknowledged ones, number their SDUs independently   *)
(* but share it.  The other half of the module are those links, a radio    *)
(* that loses PDUs, and senders that repeat a segment.                     *)
(***************************************************************************)
EXTENDS Naturals, Sequences

CONSTANTS
  Links,       \* links of the cell
  NsSize,      \* number of N(S) values (8, or 256 on unacknowledged links)
  BufSegs,     \* size of an entry's message buffer, in segments
  MaxSdus,     \* bound: SDUs sent on a link
  MaxSegs,     \* bound: segments of an SDU
  MaxRepeats   \* bound: repeated segments

ASSUME LlcAssumption ==
  /\ {NsSize, BufSegs, MaxSdus, MaxSegs} \subseteq Nat \ {0}
  /\ MaxSegs <= 256 /\ MaxRepeats \in Nat

VARIABLES
  defragList,  \* g_llcs.rx.defrag_list, by N(S)
  tlSdu,       \* what the last call passed to rx_tl_sdu
  panicked,    \* msgb_put found no room: the process aborted
  lastPdu,     \* the PDU sent last on a link
  repeats,     \* segments that were repeated
  heard        \* history: PDUs received with an N(S) since its last final one

vars == <<defragList, tlSdu, panicked, lastPdu, repeats, heard>>

Nss == 0..(NsSize - 1)
Seg == [link : Links, sdu : 1..MaxSdus, ss : 0..(MaxSegs - 1), final : BOOLEAN]

NoEntry == [queued |-> FALSE, lastSs |-> 0, segs |-> <<>>]
NotSent(l) == [link |-> l, sdu |-> 0, ss |-> 0, final |-> TRUE]

(* N(S) of an SDU                                                          *)
NsOf(p) == p.sdu % NsSize

-----------------------------------------------------------------------------
(* tllc_defrag_in on entry e: get_dqe_for_ns makes one if there is none;   *)
(* the segment is appended if it is the next one, or if no segment but     *)
(* number 0 was.  What is copied is as long as the whole PDU, so behind    *)
(* each segment as many bits of its buffer as the PDU's header has; they   *)
(* are part of the segment here.                                           *)
NextExpectedOrRepeated(e, p) == e.lastSs = 0 \/ e.lastSs + 1 = p.ss \/ e.lastSs = p.ss
NextExpected(e, p) == e.lastSs = 0 \/ e.lastSs + 1 = p.ss

DefragIn(e, p) ==
  IF NextExpected(e, p)
    THEN [queued |-> TRUE, lastSs |-> p.ss, segs |-> Append(e.segs, p)]
    ELSE [e EXCEPT !.queued = TRUE]

(* msgb_put on a full buffer                                               *)
OverflowsLate(e, p) == NextExpected(e, p) /\ Len(e.segs) > BufSegs
Overflows(e, p) == NextExpected(e, p) /\ Len(e.segs) >= BufSegs

(* tllc_defrag_out: the entry goes off the list, complete or not.          *)
DefragOutKeeps(e) == [e EXCEPT !.queued = TRUE]
DefragOut(e) == NoEntry

(* rx_tm_sdu on the PDU p of an advanced link.                             *)
RxSegment(p) ==
  LET ns == NsOf(p)
      e  == DefragIn(defragList[ns], p)
  IN  /\ ~panicked
      /\ IF Overflows(defragList[ns], p)
           THEN panicked' = TRUE /\ tlSdu' = <<>> /\ UNCHANGED <<defragList, heard>>
           ELSE /\ UNCHANGED panicked
                /\ tlSdu' = IF p.final THEN e.segs ELSE <<>>
                /\ defragList' = [defragList EXCEPT ![ns] = IF p.final THEN DefragOut(e) ELSE e]
                /\ heard' = [heard EXCEPT ![ns] = IF p.final THEN <<>> ELSE Append(@, p)]

Lose(p) == ~panicked /\ tlSdu' = <<>> /\ UNCHANGED <<defragList, panicked, heard>>

-----------------------------------------------------------------------------
(* A link sends the next segment of its SDU, or the first one of the next  *)
(* SDU; it may be the last one.                                            *)
NextPdu(l, final) ==
  LET p == lastPdu[l]
  IN  IF p.final THEN [link |-> l, sdu |-> p.sdu + 1, ss |-> 0, final |-> final]
                 ELSE [link |-> l, sdu |-> p.sdu, ss |-> p.ss + 1, final |-> final]

Transmit(p) == RxSegment(p) \/ Lose(p)

SendPdu(l, final) ==
  LET p == NextPdu(l, final)
  IN  /\ p \in Seg /\ (p.ss = MaxSegs - 1 => final)
      /\ lastPdu' = [lastPdu EXCEPT ![l] = p]
      /\ Transmit(p)
      /\ UNCHANGED repeats

RepeatPdu(l) ==
  /\ lastPdu[l] \in Seg
  /\ repeats < MaxRepeats /\ repeats' = repeats + 1
  /\ Transmit(lastPdu[l])
  /\ UNCHANGED lastPdu

Init ==
  /\ defragList = [ns \in Nss |-> NoEntry]
  /\ tlSdu = <<>> /\ panicked = FALSE
  /\ lastPdu = [l \in Links |-> NotSent(l)]
  /\ repeats = 0
  /\ heard = [ns \in Nss |-> <<>>]

Next == \E l \in Links : RepeatPdu(l) \/ \E final \in BOOLEAN : SendPdu(l, final)

Spec == Init /\ [][Next]_vars

-----------------------------------------------------------------------------
TypeOK ==
  /\ defragList \in [Nss -> [queued : BOOLEAN, lastSs : 0..(MaxSegs - 1), segs : Seq(Seg)]]
  /\ \A ns \in Nss : Len(defragList[ns].segs) <= BufSegs
  /\ tlSdu \in Seq(Seg) /\ panicked \in BOOLEAN
  /\ lastPdu \in [Links -> Seg \cup {NotSent(l) : l \in Links}]
  /\ repeats \in 0..MaxRepeats
  /\ heard \in [Nss -> Seq(Seg)]

(* The segments of one SDU, each once, from the first one on.              *)
Undisturbed(q) ==
  \A i \in 1..Len(q) : q[i].ss = i - 1 /\ q[i].link = q[1].link /\ q[i].sdu = q[1].sdu

(* An SDU whose segments are all heard, once and with no others in between *)
(* that have its N(S), is passed to the MLE as it was sent: what is left   *)
(* of earlier SDUs with the same N(S), of any link, is gone by then.       *)
ExactStep ==
  \A ns \in Nss :
    LET q == heard[ns] \o <<tlSdu'[Len(tlSdu')]>>
    IN  /\ tlSdu' # <<>> /\ NsOf(tlSdu'[1]) = ns /\ tlSdu'[Len(tlSdu')].final
        /\ Undisturbed(q)
        => tlSdu' = q

(* So of every step: nothing undisturbed comes out in another form.      *)
ExactWhenUndisturbed == [][ExactStep]_vars

(* Behind a segment other than number 0 comes the next one, whatever was   *)
(* lost or repeated, and whoever sent it: a gap or a repetition can only   *)
(* be behind a segment 0.  And nothing comes behind a final segment, which *)
(* is passed on at once: two SDUs are spliced only if the final segment of *)
(* the first was lost, or they are of two links.                           *)
NoGapBehind(q) ==
  \A i \in 1..(Len(q) - 1) : ~q[i].final /\ (q[i].ss # 0 => q[i + 1].ss = q[i].ss + 1)

NoneFinal(q) == \A i \in 1..Len(q) : ~q[i].final

NoLateGap ==
  /\ NoGapBehind(tlSdu)
  /\ \A ns \in Nss : NoGapBehind(defragList[ns].segs) /\ NoneFinal(defragList[ns].segs)
=============================================================================
