----------------------------- MODULE BurstSync -----------------------------
(***************************************************************************)
(* The burst synchroniser, src/phy/tetra_burst_sync.c: bits read from the  *)
(* demodulator are collected in a buffer; a SYNC training sequence tells   *)
(* where the next burst starts; from then on one burst of BitsPerTS bits   *)
(* is cut off the head of the buffer per call, as long as its training     *)
(* sequence is where it should be.                                         *)
(*                                                                         *)
(* The contents of the buffer are abstracted to the training sequences     *)
(* that are in it, with their offsets: nothing else of the bits is looked  *)
(* at.  "NORM" stands for TETRA_TRAIN_NORM_1 and TETRA_TRAIN_NORM_2, which *)
(* are handled by the same cases.  Each action is one whole call of        *)
(* tetra_burst_sync_in by the read loop of main.                           *)
(***************************************************************************)
EXTENDS Integers, FiniteSets

CONSTANTS
  BitsPerTS,    \* bits of a burst (TETRA_BITS_PER_TS, 510)
  BitbufSize,   \* sizeof(trs->bitbuf) (4096)
  ReadSize,     \* the longest read of main (64)
  SyncOffset,   \* where a SYNC burst has its training sequence (214)
  NormOffset,   \* where a normal burst has its training sequence (244)
  NextOffset,   \* from a SYNC training sequence to the next burst (296)
  SyncLen,      \* length of the SYNC training sequence (38)
  NormLen,      \* length of a normal training sequence (22)
  SeenFrom,     \* where a training sequence may first be seen ({19, 21})
  BitnumSize,   \* number of values of an unsigned int (2^32)
  StreamBits,   \* bound: bits in the whole input
  MaxSeqs       \* bound: training sequences in the buffer

ASSUME GeometryAssumption ==
  /\ {BitsPerTS, BitbufSize, ReadSize, SyncOffset, NormOffset, NextOffset,
      SyncLen, NormLen, BitnumSize} \subseteq Nat \ {0}
  /\ StreamBits \in Nat /\ MaxSeqs \in Nat
  /\ SeenFrom \subseteq 0..SyncOffset /\ SeenFrom \subseteq 0..NormOffset
  /\ SyncOffset + SyncLen <= BitsPerTS
  /\ NormOffset + NormLen <= BitsPerTS
  /\ NextOffset <= BitsPerTS
  /\ 2 * ReadSize + SyncLen <= NextOffset
  /\ 2 * BitsPerTS + ReadSize <= BitbufSize

VARIABLES
  state,        \* trs->state, or "WILD" after a memmove of a negative length
  bitsInBuf,    \* trs->bits_in_buf
  startBit,     \* trs->bitbuf_start_bitnum
  nextFrame,    \* trs->next_frame_start_bitnum
  trains,       \* trs->bitbuf: the training sequences in it
  burst,        \* the burst that the last call handed to tetra_burst_rx_cb
  ticked,       \* whether the last call advanced the TDMA time
  received      \* bits read from the demodulator so far

vars == <<state, bitsInBuf, startBit, nextFrame, trains, burst, ticked, received>>

Types == {"SYNC", "NORM"}
Train == [off : Nat, type : Types, from : SeenFrom]
LenOf(type) == IF type = "SYNC" THEN SyncLen ELSE NormLen
PlaceOf(type) == IF type = "SYNC" THEN SyncOffset ELSE NormOffset
NoBurst == [type |-> "NONE", start |-> 0]

-----------------------------------------------------------------------------
(* memmove(bitbuf, bitbuf + n, ...): the first n bits are gone, and with   *)
(* them every training sequence that was not wholly behind them.           *)
MoveNoShift(q, n) == {t \in q : t.off >= n}
Move(q, n) == {[t EXCEPT !.off = @ - n] : t \in {u \in q : u.off >= n}}

(* make_bitbuf_space and the memcpy after it: the buffer after len bits    *)
(* were appended, which complete the training sequences new.               *)
DropNothing(len) == 0
Drop(len) == IF BitbufSize - bitsInBuf < len THEN len - (BitbufSize - bitsInBuf) ELSE 0

StartNotMoved(len) == startBit

Bits(len)       == bitsInBuf - Drop(len) + len
Start(len)      == (startBit + Drop(len)) % BitnumSize
Seqs(len, new)  == Move(trains, Drop(len)) \cup new

(* Training sequences that end within the appended bits.                   *)
Completed(len) ==
  {t \in [off : 0..(Bits(len) - 1), type : Types, from : SeenFrom] :
     /\ t.off + LenOf(t.type) <= Bits(len)
     /\ t.off + LenOf(t.type) > Bits(len) - len}

(* tetra_find_train_seq: the first sequence of the wanted types.  Its      *)
(* filter is filled from bits 0..19 and 21 (bit 20 is never shifted in),   *)
(* so it does not match at offsets below 21; at 19 and 20 it may, if the   *)
(* bit before the sequence is the sequence's first one.                    *)
Seen(q, types) == {t \in q : t.type \in types /\ t.off >= t.from}
IsFirst(t, q, types) ==
  t \in Seen(q, types) /\ \A u \in Seen(q, types) : t.off <= u.off

Input(len) == received + len <= StreamBits /\ received' = received + len
Keep(b, st, q) == bitsInBuf' = b /\ startBit' = st /\ trains' = q
Quiet == burst' = NoBurst /\ ticked' = FALSE

-----------------------------------------------------------------------------
(* RX_S_UNLOCKED: look for a SYNC training sequence in two bursts' bits.   *)
StayUnlockedAtLimit(len, new) ==
  /\ state = "UNLOCKED"
  /\ Bits(len) <= 2 * BitsPerTS \/ Seen(Seqs(len, new), {"SYNC"}) = {}
  /\ Input(len) /\ Keep(Bits(len), Start(len), Seqs(len, new)) /\ Quiet
  /\ UNCHANGED <<state, nextFrame>>

StayUnlocked(len, new) ==
  /\ state = "UNLOCKED"
  /\ Bits(len) < 2 * BitsPerTS \/ Seen(Seqs(len, new), {"SYNC"}) = {}
  /\ Input(len) /\ Keep(Bits(len), Start(len), Seqs(len, new)) /\ Quiet
  /\ UNCHANGED <<state, nextFrame>>

FindBurstAfterNext(len, new) ==
  /\ state = "UNLOCKED"
  /\ Bits(len) >= 2 * BitsPerTS
  /\ \E t \in Seqs(len, new) :
       /\ IsFirst(t, Seqs(len, new), {"SYNC"})
       /\ nextFrame' = (Start(len) + t.off + NextOffset + BitsPerTS) % BitnumSize
  /\ state' = "KNOW_FSTART"
  /\ Input(len) /\ Keep(Bits(len), Start(len), Seqs(len, new)) /\ Quiet

FindFrameStart(len, new) ==
  /\ state = "UNLOCKED"
  /\ Bits(len) >= 2 * BitsPerTS
  /\ \E t \in Seqs(len, new) :
       /\ IsFirst(t, Seqs(len, new), {"SYNC"})
       /\ nextFrame' = (Start(len) + t.off + NextOffset) % BitnumSize
  /\ state' = "KNOW_FSTART"
  /\ Input(len) /\ Keep(Bits(len), Start(len), Seqs(len, new)) /\ Quiet

(* One round of RX_S_LOCKED on the buffer (b, st, q) with the frame start  *)
(* nx: too few bits, a good burst, a normal training sequence in the wrong *)
(* place (reported, nothing else), or the lock is lost.                    *)
AnyType == Types

TakeFrameStaleNext(b, st, q, nx) ==
  /\ ticked' = TRUE
  /\ Keep(b - BitsPerTS, (st + BitsPerTS) % BitnumSize, Move(q, BitsPerTS))
  /\ nextFrame' = nx

TakeFrame(b, st, q, nx) ==
  /\ ticked' = TRUE
  /\ Keep(b - BitsPerTS, (st + BitsPerTS) % BitnumSize, Move(q, BitsPerTS))
  /\ nextFrame' = (nx + BitsPerTS) % BitnumSize

WaitForFrame(b, st, q, nx) ==
  /\ b < BitsPerTS
  /\ state' = "LOCKED" /\ Keep(b, st, q) /\ nextFrame' = nx /\ Quiet

GoodFrame(b, st, q, nx) ==
  /\ b >= BitsPerTS
  /\ \E t \in q :
       /\ IsFirst(t, q, AnyType)
       /\ t.off = PlaceOf(t.type)
       /\ burst' = [type |-> t.type, start |-> st]
  /\ state' = "LOCKED" /\ TakeFrame(b, st, q, nx)

MisplacedNormFrame(b, st, q, nx) ==
  /\ b >= BitsPerTS
  /\ \E t \in q : IsFirst(t, q, AnyType) /\ t.type = "NORM" /\ t.off # NormOffset
  /\ state' = "LOCKED" /\ burst' = NoBurst /\ TakeFrame(b, st, q, nx)

LoseLockOnAnySync(b, st, q, nx) ==
  /\ b >= BitsPerTS
  /\ \/ Seen(q, AnyType) = {}
     \/ \E t \in q : IsFirst(t, q, AnyType) /\ t.type = "SYNC"
  /\ state' = "UNLOCKED" /\ burst' = NoBurst /\ TakeFrame(b, st, q, nx)

LoseLock(b, st, q, nx) ==
  /\ b >= BitsPerTS
  /\ \/ Seen(q, AnyType) = {}
     \/ \E t \in q : IsFirst(t, q, AnyType) /\ t.type = "SYNC" /\ t.off # SyncOffset
  /\ state' = "UNLOCKED" /\ burst' = NoBurst /\ TakeFrame(b, st, q, nx)

LockedRound(b, st, q, nx) ==
  \/ WaitForFrame(b, st, q, nx)
  \/ GoodFrame(b, st, q, nx)
  \/ MisplacedNormFrame(b, st, q, nx)
  \/ LoseLock(b, st, q, nx)

(* RX_S_KNOW_FSTART: wait for the first bit of the frame, then move it to  *)
(* the head of the buffer and fall through to RX_S_LOCKED.                 *)
FrameAlmostStarted(len) == (Start(len) + Bits(len) + 1) % BitnumSize >= nextFrame
FrameStartedInBuffer(len) == Bits(len) >= nextFrame
FrameStarted(len) == (Start(len) + Bits(len)) % BitnumSize >= nextFrame

AwaitFrameStart(len, new) ==
  /\ state = "KNOW_FSTART"
  /\ ~FrameStarted(len)
  /\ Input(len) /\ Keep(Bits(len), Start(len), Seqs(len, new)) /\ Quiet
  /\ UNCHANGED <<state, nextFrame>>

(* int offset, bits_remaining: the difference of two unsigned ints.        *)
FrameShift(len) == (nextFrame - Start(len)) % BitnumSize

AlignToFrame(len, new) ==
  /\ state = "KNOW_FSTART"
  /\ FrameStarted(len)
  /\ FrameShift(len) <= Bits(len)
  /\ Input(len)
  /\ LockedRound(Bits(len) - FrameShift(len),
                 (Start(len) + FrameShift(len)) % BitnumSize,
                 Move(Seqs(len, new), FrameShift(len)),
                 (nextFrame + BitsPerTS) % BitnumSize)

(* The same shift when the frame start is not in the buffer: memmove gets  *)
(* a negative length, and the process does not survive it.                 *)
AlignBeyondBuffer(len, new) ==
  /\ state = "KNOW_FSTART"
  /\ FrameStarted(len)
  /\ FrameShift(len) > Bits(len)
  /\ state' = "WILD"
  /\ Input(len) /\ Keep(Bits(len), Start(len), Seqs(len, new)) /\ Quiet
  /\ UNCHANGED nextFrame

ReceiveLocked(len, new) ==
  /\ state = "LOCKED"
  /\ Input(len)
  /\ LockedRound(Bits(len), Start(len), Seqs(len, new), nextFrame)

SyncIn(len, new) ==
  \/ StayUnlocked(len, new)
  \/ FindFrameStart(len, new)
  \/ AwaitFrameStart(len, new)
  \/ AlignToFrame(len, new)
  \/ AlignBeyondBuffer(len, new)
  \/ ReceiveLocked(len, new)

-----------------------------------------------------------------------------
Init ==
  /\ state = "UNLOCKED"
  /\ bitsInBuf = 0 /\ startBit = 0 /\ nextFrame = 0
  /\ trains = {}
  /\ burst = NoBurst /\ ticked = FALSE
  /\ received = 0

(* The demodulator may deliver any bits, so any set of training sequences  *)
(* may be completed; two of them cannot start at the same bit.             *)
Next ==
  \E len \in 1..ReadSize : \E new \in SUBSET Completed(len) :
    /\ Cardinality(Seqs(len, new)) <= MaxSeqs
    /\ \A t, u \in Seqs(len, new) : t.off = u.off => t = u
    /\ SyncIn(len, new)

Spec == Init /\ [][Next]_vars

-----------------------------------------------------------------------------
(* Every training sequence the search can find lies wholly within the      *)
(* buffer, so the offset computed from it is a place in the stream.        *)
TrainsInBuffer == \A t \in trains : t.off + LenOf(t.type) <= bitsInBuf

(* Types: every number stays in its C type, and the buffer in its array.   *)
TypeOK ==
  /\ state \in {"UNLOCKED", "KNOW_FSTART", "LOCKED", "WILD"}
  /\ bitsInBuf \in 0..BitbufSize
  /\ startBit \in 0..(BitnumSize - 1)
  /\ nextFrame \in 0..(BitnumSize - 1)
  /\ trains \subseteq Train /\ TrainsInBuffer
  /\ burst \in [type : Types \cup {"NONE"}, start : 0..(BitnumSize - 1)]
  /\ ticked \in BOOLEAN
  /\ received \in 0..StreamBits

(* The bit numbers of the next two bursts are below the size of an unsigned *)
(* int: true for the first 33 hours of a carrier.                          *)
Unwrapped == received + 2 * BitsPerTS < BitnumSize

(* Aligning to the frame start never moves a negative number of bits: the  *)
(* frame start is in the buffer whenever the comparison of bit numbers     *)
(* says it was received (tetra_burst_sync.c, RX_S_KNOW_FSTART), until the  *)
(* bit numbers wrap.                                                       *)
FrameStartInBuffer == Unwrapped => state # "WILD"

(* The bit number of the buffer's head is the number of bits that left the *)
(* buffer, through every path that removes some: no bit is counted twice   *)
(* or lost, so next_frame_start_bitnum means what it meant when it was set.*)
BitnumsFollowStream ==
  state # "WILD" => (startBit + bitsInBuf) % BitnumSize = received % BitnumSize

(* A locked receiver keeps up: between calls it holds less than one burst, *)
(* although each call takes at most one burst off the buffer.  Hence the   *)
(* buffer is never shrunk under a lock, which would cut bits out of the    *)
(* middle of the frames; and the frame after this one starts one burst     *)
(* after the head.                                                         *)
LockedKeepsUp ==
  Unwrapped /\ state = "LOCKED" =>
    bitsInBuf < BitsPerTS /\ nextFrame = startBit + BitsPerTS

(* A buffer that was searched holds no SYNC training sequence that another *)
(* search can see: an unlocked receiver locks on the first one that        *)
(* arrives, and never on one that has been in the buffer for long.         *)
SearchedHasNoSync ==
  Unwrapped /\ state = "UNLOCKED" /\ bitsInBuf >= 2 * BitsPerTS => Seen(trains, {"SYNC"}) = {}

(* What tetra_burst.h says, "find a TETRA training sequence in the burst   *)
(* buffer indicated", without the limit SeenFrom sets.                     *)
FindsTrainSeq ==
  state = "UNLOCKED" /\ bitsInBuf >= 2 * BitsPerTS => {t \in trains : t.type = "SYNC"} = {}

(* A known frame start is ahead of the buffer's head, at most one burst    *)
(* ahead of the received bits, and less than two bursts behind them: when  *)
(* it is moved to the head, one round of RX_S_LOCKED catches up.           *)
FrameStartAhead ==
  Unwrapped /\ state = "KNOW_FSTART" =>
    /\ startBit <= nextFrame
    /\ nextFrame < received + BitsPerTS
    /\ received + ReadSize < nextFrame + 2 * BitsPerTS

(* A call that advances the TDMA time consumes exactly one burst from the  *)
(* stream, and only such a call hands a burst up: the slot count cannot    *)
(* drift from the bits (tetra_tdma_time_add_tn next to bits_in_buf -= ..). *)
OneTickPerBurst ==
  [][ Unwrapped' =>
        /\ burst'.type # "NONE" => ticked' /\ burst'.start + BitsPerTS = startBit'
        /\ (state = "LOCKED" /\ ticked') => startBit' = startBit + BitsPerTS
        /\ (state = "LOCKED" /\ ~ticked') => startBit' = startBit ]_received
=============================================================================
