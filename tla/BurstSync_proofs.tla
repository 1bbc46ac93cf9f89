-------------------------- MODULE BurstSync_proofs --------------------------
(***************************************************************************)
(* The safety of the burst synchroniser for every size of burst, buffer    *)
(* and read, and any bits on the input: until the bit numbers wrap.        *)
(***************************************************************************)
EXTENDS AirLink, TLAPS

(* The type part of the inductive invariant, in the form the arithmetic    *)
(* needs.                                                                  *)
Numbers ==
  /\ state \in {"UNLOCKED", "KNOW_FSTART", "LOCKED"}
  /\ bitsInBuf \in Nat /\ bitsInBuf <= BitbufSize
  /\ startBit \in Nat /\ nextFrame \in Nat /\ received \in Nat
  /\ nextFrame < BitnumSize
  /\ startBit + bitsInBuf = received
  /\ trains \subseteq Train

Fits(bits) == bits + 2 * BitsPerTS < BitnumSize

IInv ==
  /\ Unwrapped
  /\ Numbers
  /\ TrainsInBuffer
  /\ SearchedHasNoSync
  /\ LockedKeepsUp
  /\ FrameStartAhead

-----------------------------------------------------------------------------
LEMMA Geometry ==
  /\ BitsPerTS \in Nat /\ BitbufSize \in Nat /\ ReadSize \in Nat /\ NextOffset \in Nat
  /\ SyncLen \in Nat /\ NormLen \in Nat /\ BitnumSize \in Nat 
  /\ SyncOffset \in Nat /\ NormOffset \in Nat
  /\ BitsPerTS > 0 /\ ReadSize > 0 /\ SyncLen > 0 /\ NormLen > 0 /\ BitnumSize > 0
  /\ SyncOffset + SyncLen <= BitsPerTS
  /\ NormOffset + NormLen <= BitsPerTS
  /\ NextOffset <= BitsPerTS
  /\ 2 * ReadSize + SyncLen <= NextOffset
  /\ 2 * BitsPerTS + ReadSize <= BitbufSize
  BY GeometryAssumption

LEMMA SeenFromNat == SeenFrom \subseteq Nat
  BY GeometryAssumption

LEMMA ModSmall ==
  ASSUME NEW c \in Nat, NEW x \in Nat, x < c
  PROVE  x % c = x
  OBVIOUS

(* A memmove keeps the training sequences behind its source offset, at     *)
(* places that are still inside the shortened buffer.                      *)
LEMMA MoveKeeps ==
  ASSUME NEW q, q \subseteq Train, NEW n \in Nat, NEW b \in Nat,
         \A t \in q : t.off + LenOf(t.type) <= b
  PROVE  /\ Move(q, n) \subseteq Train
         /\ \A t \in Move(q, n) : t.off + LenOf(t.type) <= b - n
         /\ \A t \in Move(q, n) :
              \E u \in q : u.type = t.type /\ u.from = t.from /\ u.off >= t.off
<1> SUFFICES ASSUME NEW t \in Move(q, n)
             PROVE  /\ t \in Train
                    /\ t.off + LenOf(t.type) <= b - n
                    /\ \E u \in q : u.type = t.type /\ u.from = t.from /\ u.off >= t.off
  OBVIOUS
<1>1. PICK u \in q : u.off >= n /\ t = [u EXCEPT !.off = @ - n]
  BY DEF Move
<1>2. u \in Train /\ u.off \in Nat /\ u.type \in Types /\ u.from \in SeenFrom
  BY DEF Train
<1>3. LenOf(u.type) \in Nat
  BY <1>2, Geometry DEF LenOf
<1>4. t \in Train /\ t.off = u.off - n /\ t.type = u.type /\ t.from = u.from
  BY <1>1, <1>2 DEF Train
<1>5. QED
  BY <1>1, <1>2, <1>3, <1>4

(* The buffer after make_bitbuf_space and the append.                      *)
LEMMA Appended ==
  ASSUME Numbers, TrainsInBuffer,
         NEW len \in 1..ReadSize, Fits(received + len),
         NEW new, new \subseteq Completed(len)
  PROVE  /\ Drop(len) \in Nat /\ Drop(len) <= len /\ Drop(len) <= bitsInBuf
         /\ Bits(len) \in Nat /\ Bits(len) <= BitbufSize
         /\ Bits(len) = bitsInBuf - Drop(len) + len
         /\ bitsInBuf + len <= BitbufSize => Drop(len) = 0
         /\ bitsInBuf + len > BitbufSize => Bits(len) = BitbufSize
         /\ Start(len) = startBit + Drop(len)
         /\ Start(len) + Bits(len) = received + len
         /\ Seqs(len, new) \subseteq Train
         /\ \A t \in Seqs(len, new) : t.off + LenOf(t.type) <= Bits(len)
<1> USE Geometry
<1>1. /\ Drop(len) \in Nat /\ Drop(len) <= len /\ Drop(len) <= bitsInBuf
      /\ bitsInBuf + len <= BitbufSize => Drop(len) = 0
      /\ bitsInBuf + len > BitbufSize => Drop(len) = bitsInBuf + len - BitbufSize
  BY DEF Drop, Numbers
<1>2. /\ Bits(len) \in Nat /\ Bits(len) <= BitbufSize
      /\ Bits(len) = bitsInBuf - Drop(len) + len
      /\ bitsInBuf + len > BitbufSize => Bits(len) = BitbufSize
  BY <1>1 DEF Bits, Numbers
<1>3. Start(len) = startBit + Drop(len)
  <2>1. startBit + Drop(len) \in Nat /\ startBit + Drop(len) < BitnumSize
    BY <1>1 DEF Numbers, Fits
  <2>2. QED
    BY <2>1, ModSmall DEF Start
<1>4. Start(len) + Bits(len) = received + len
  BY <1>1, <1>2, <1>3 DEF Numbers
<1>5. /\ Move(trains, Drop(len)) \subseteq Train
      /\ \A t \in Move(trains, Drop(len)) : t.off + LenOf(t.type) <= bitsInBuf - Drop(len)
  BY <1>1, MoveKeeps DEF Numbers, TrainsInBuffer
<1>6. \A t \in Move(trains, Drop(len)) : t.off + LenOf(t.type) <= Bits(len)
  <2> SUFFICES ASSUME NEW t \in Move(trains, Drop(len))
               PROVE  t.off + LenOf(t.type) <= Bits(len)
    OBVIOUS
  <2>1. t.off \in Nat /\ LenOf(t.type) \in Nat
    BY <1>5 DEF Train, LenOf
  <2>2. QED
    BY <1>1, <1>2, <1>5, <2>1 DEF Numbers
<1>7. new \subseteq Train /\ \A t \in new : t.off + LenOf(t.type) <= Bits(len)
  BY <1>2 DEF Completed, Train
<1>8. QED
  BY <1>1, <1>2, <1>3, <1>4, <1>5, <1>6, <1>7 DEF Seqs

-----------------------------------------------------------------------------
(* One round of RX_S_LOCKED on an aligned buffer of less than two bursts   *)
(* re-establishes the invariant, whatever it finds.                        *)
LEMMA RoundKeepsInv ==
  ASSUME NEW b \in Nat, NEW st \in Nat, NEW q, NEW nx \in Nat,
         b < 2 * BitsPerTS, nx = st + BitsPerTS,
         q \subseteq Train, \A t \in q : t.off + LenOf(t.type) <= b,
         received' \in Nat, st + b = received', Fits(st + b),
         LockedRound(b, st, q, nx)
  PROVE  IInv'
<1> USE Geometry
<1>0. Unwrapped' BY DEF Unwrapped, Fits
<1>1. CASE WaitForFrame(b, st, q, nx)
  <2>1. /\ state' = "LOCKED" /\ bitsInBuf' = b /\ startBit' = st /\ trains' = q
        /\ nextFrame' = nx /\ b < BitsPerTS
    BY <1>1 DEF WaitForFrame, Keep
  <2>2. Numbers'
    BY <2>1 DEF Numbers, Fits
  <2>3. TrainsInBuffer'
    BY <2>1 DEF TrainsInBuffer
  <2>4. LockedKeepsUp' /\ SearchedHasNoSync' /\ FrameStartAhead'
    BY <2>1 DEF SearchedHasNoSync, LockedKeepsUp, FrameStartAhead
  <2>5. QED
    BY <1>0, <2>2, <2>3, <2>4 DEF IInv
<1>2. CASE TakeFrame(b, st, q, nx) /\ b >= BitsPerTS /\ state' \in {"LOCKED", "UNLOCKED"}
  <2>1. st + BitsPerTS < BitnumSize /\ nx + BitsPerTS < BitnumSize
    BY <1>2 DEF Fits
  <2>2. (st + BitsPerTS) % BitnumSize = st + BitsPerTS /\ (nx + BitsPerTS) % BitnumSize = nx + BitsPerTS
    BY <2>1, ModSmall
  <2>3. /\ bitsInBuf' = b - BitsPerTS /\ startBit' = st + BitsPerTS
        /\ trains' = Move(q, BitsPerTS) /\ nextFrame' = nx + BitsPerTS
    BY <1>2, <2>2 DEF TakeFrame, Keep
  <2>4. trains' \subseteq Train /\ \A t \in trains' : t.off + LenOf(t.type) <= bitsInBuf'
    BY <2>3, MoveKeeps
  <2>5. Numbers'
    BY <1>2, <2>1, <2>3, <2>4 DEF Numbers
  <2>6. TrainsInBuffer'
    BY <2>4 DEF TrainsInBuffer
  <2>7. LockedKeepsUp' /\ SearchedHasNoSync' /\ FrameStartAhead'
    <3>1. /\ bitsInBuf' < BitsPerTS /\ ~(bitsInBuf' >= 2 * BitsPerTS)
          /\ nextFrame' = startBit' + BitsPerTS
      BY <1>2, <2>3
    <3>2. state' # "KNOW_FSTART"
      BY <1>2
    <3>3. QED
      BY <3>1, <3>2 DEF SearchedHasNoSync, LockedKeepsUp, FrameStartAhead
  <2>8. QED
    BY <1>0, <2>5, <2>6, <2>7 DEF IInv
<1>3. QED
  BY <1>1, <1>2 DEF LockedRound, GoodFrame, MisplacedNormFrame, LoseLock

(* A known frame start that has been received lies in the buffer, less     *)
(* than two bursts before its end.                                         *)
LEMMA AlignWithinBuffer ==
  ASSUME IInv, state = "KNOW_FSTART",
         NEW len \in 1..ReadSize, Fits(received + len),
         FrameStarted(len)
  PROVE  /\ FrameShift(len) \in Nat
         /\ FrameShift(len) = nextFrame - Start(len)
         /\ FrameShift(len) <= Bits(len)
         /\ Bits(len) - FrameShift(len) < 2 * BitsPerTS
<1> USE Geometry
<1>1. /\ Drop(len) \in Nat /\ Bits(len) \in Nat
      /\ Bits(len) = bitsInBuf - Drop(len) + len
      /\ bitsInBuf + len <= BitbufSize => Drop(len) = 0
      /\ bitsInBuf + len > BitbufSize => Bits(len) = BitbufSize
      /\ Start(len) = startBit + Drop(len)
      /\ Start(len) + Bits(len) = received + len
  BY Appended DEF IInv
<1>2. (Start(len) + Bits(len)) % BitnumSize = received + len
  <2>1. received + len \in Nat /\ received + len < BitnumSize
    BY DEF IInv, Numbers, Fits
  <2>2. QED
    BY <1>1, <2>1, ModSmall
<1>3. nextFrame <= received + len
  BY <1>2 DEF FrameStarted, IInv, Numbers
<1>4. Start(len) <= nextFrame
  BY <1>1 DEF IInv, Numbers, FrameStartAhead
<1>5. nextFrame - Start(len) \in Nat /\ nextFrame - Start(len) < BitnumSize
  BY <1>1, <1>4 DEF IInv, Numbers
<1>6. FrameShift(len) = nextFrame - Start(len)
  BY <1>5, ModSmall DEF FrameShift
<1>7. QED
  BY <1>1, <1>3, <1>5, <1>6 DEF IInv, Numbers, FrameStartAhead

-----------------------------------------------------------------------------
LEMMA InitInv == Init /\ Unwrapped => IInv
  BY Geometry DEF Init, IInv, Numbers, TrainsInBuffer, SearchedHasNoSync,
                  LockedKeepsUp, FrameStartAhead, Seen

(* A call of tetra_burst_sync_in keeps the invariant.                      *)
LEMMA ReceiveInv ==
  ASSUME IInv, Unwrapped', NEW len \in 1..ReadSize, NEW new \in SUBSET Completed(len),
         SyncIn(len, new)
  PROVE  IInv'
<1> USE Geometry
<1>1. received' = received + len /\ Fits(received + len)
  BY DEF SyncIn, StayUnlocked, FindFrameStart, AwaitFrameStart, AlignToFrame,
              AlignBeyondBuffer, ReceiveLocked, Input, Unwrapped, Fits
<1>2. /\ Drop(len) \in Nat /\ Drop(len) <= len /\ Drop(len) <= bitsInBuf
      /\ Bits(len) \in Nat /\ Bits(len) <= BitbufSize
      /\ Bits(len) = bitsInBuf - Drop(len) + len
      /\ bitsInBuf + len <= BitbufSize => Drop(len) = 0
      /\ bitsInBuf + len > BitbufSize => Bits(len) = BitbufSize
      /\ Start(len) = startBit + Drop(len)
      /\ Start(len) + Bits(len) = received + len
      /\ Seqs(len, new) \subseteq Train
      /\ \A t \in Seqs(len, new) : t.off + LenOf(t.type) <= Bits(len)
  BY <1>1, Appended DEF IInv
<1>3. CASE StayUnlocked(len, new)
  <2>1. /\ state' = "UNLOCKED" /\ nextFrame' = nextFrame /\ bitsInBuf' = Bits(len)
        /\ startBit' = Start(len) /\ trains' = Seqs(len, new)
        /\ bitsInBuf' >= 2 * BitsPerTS => Seen(trains', {"SYNC"}) = {}
    BY <1>2, <1>3 DEF StayUnlocked, Keep
  <2>2. Numbers'
    BY <1>1, <1>2, <2>1 DEF IInv, Numbers
  <2>3. QED
    BY <1>2, <2>1, <2>2 DEF IInv, TrainsInBuffer, SearchedHasNoSync, LockedKeepsUp, FrameStartAhead
<1>4. CASE FindFrameStart(len, new)
  <2>1. PICK t \in Seqs(len, new) :
          /\ t.type = "SYNC" /\ t.off >= t.from
          /\ nextFrame' = (Start(len) + t.off + NextOffset) % BitnumSize
    BY <1>4 DEF FindFrameStart, IsFirst, Seen
  <2>2. /\ state' = "KNOW_FSTART" /\ bitsInBuf' = Bits(len) /\ startBit' = Start(len)
        /\ trains' = Seqs(len, new) /\ state = "UNLOCKED" /\ Bits(len) >= 2 * BitsPerTS
    BY <1>4 DEF FindFrameStart, Keep
  <2>3. t.off \in Nat /\ t.off + SyncLen <= Bits(len)
    <3>1. t \in Train /\ t.off + LenOf(t.type) <= Bits(len)
      BY <1>2, <2>1
    <3>2. QED
      BY <2>1, <3>1 DEF Train, LenOf
  <2>4. nextFrame' = Start(len) + t.off + NextOffset /\ nextFrame' \in Nat /\ nextFrame' < BitnumSize
    <3>1. /\ Start(len) + t.off + NextOffset \in Nat
          /\ Start(len) + t.off + NextOffset < BitnumSize
      BY <1>1, <1>2, <2>3 DEF IInv, Numbers, Fits
    <3>2. QED
      BY <2>1, <3>1, ModSmall
  <2>5. Bits(len) + ReadSize < t.off + NextOffset + 2 * BitsPerTS
    <3>1. CASE bitsInBuf < 2 * BitsPerTS
      BY <1>2, <2>3, <3>1 DEF IInv, Numbers
    <3>2. CASE bitsInBuf >= 2 * BitsPerTS
      <4>1. Seen(trains, {"SYNC"}) = {}
        BY <2>2, <3>2 DEF IInv, SearchedHasNoSync
      <4>2. t \notin Move(trains, Drop(len))
        <5>1. \A u \in Move(trains, Drop(len)) :
                \E w \in trains : w.type = u.type /\ w.from = u.from /\ w.off >= u.off
          BY <1>2, MoveKeeps DEF IInv, Numbers, TrainsInBuffer
        <5>2. \A w \in trains : w.type = "SYNC" => ~(w.off >= w.from)
          BY <4>1 DEF Seen
        <5>3. \A w \in trains : w.off \in Nat /\ w.from \in Nat
          BY SeenFromNat DEF IInv, Numbers, Train
        <5>4. t.off \in Nat /\ t.from \in Nat
          BY <1>2, <2>1, SeenFromNat DEF Train
        <5>5. QED
          BY <2>1, <5>1, <5>2, <5>3, <5>4
      <4>3. t.off + LenOf(t.type) > Bits(len) - len
        BY <2>1, <4>2 DEF Seqs, Completed
      <4>4. t.off + SyncLen > Bits(len) - len
        BY <2>1, <4>3 DEF LenOf
      <4>5. QED
        BY <1>2, <2>3, <4>4
    <3>3. QED
      BY <3>1, <3>2 DEF IInv, Numbers
  <2>6. Numbers'
    BY <1>1, <1>2, <2>2, <2>4 DEF IInv, Numbers
  <2>7. FrameStartAhead'
    BY <1>1, <1>2, <2>2, <2>3, <2>4, <2>5 DEF FrameStartAhead, IInv, Numbers
  <2>8. QED
    BY <1>2, <2>2, <2>6, <2>7 DEF IInv, TrainsInBuffer, SearchedHasNoSync, LockedKeepsUp
<1>5. CASE AwaitFrameStart(len, new)
  <2>1. /\ state' = "KNOW_FSTART" /\ nextFrame' = nextFrame /\ bitsInBuf' = Bits(len)
        /\ startBit' = Start(len) /\ trains' = Seqs(len, new) /\ state = "KNOW_FSTART"
    BY <1>5 DEF AwaitFrameStart, Keep
  <2>2. received + len < nextFrame
    <3>1. received + len \in Nat /\ received + len < BitnumSize
      BY <1>1 DEF IInv, Numbers, Fits
    <3>2. QED
      BY <1>2, <1>5, <3>1, ModSmall DEF AwaitFrameStart, FrameStarted, IInv, Numbers
  <2>3. Numbers'
    BY <1>1, <1>2, <2>1 DEF IInv, Numbers
  <2>4. FrameStartAhead'
    BY <1>1, <1>2, <2>1, <2>2 DEF FrameStartAhead, IInv, Numbers
  <2>5. QED
    BY <1>2, <2>1, <2>3, <2>4 DEF IInv, TrainsInBuffer, SearchedHasNoSync, LockedKeepsUp
<1>6. CASE AlignToFrame(len, new)
  <2> DEFINE d == FrameShift(len)
  <2>1. d \in Nat /\ d = nextFrame - Start(len) /\ d <= Bits(len) /\ Bits(len) - d < 2 * BitsPerTS
    BY <1>1, <1>6, AlignWithinBuffer DEF AlignToFrame
  <2>2. (Start(len) + d) % BitnumSize = nextFrame
    <3>1. Start(len) + d = nextFrame /\ nextFrame \in Nat /\ nextFrame < BitnumSize
      BY <1>2, <2>1 DEF IInv, Numbers
    <3>2. QED
      BY <3>1, ModSmall
  <2>3. (nextFrame + BitsPerTS) % BitnumSize = nextFrame + BitsPerTS
    <3>1. nextFrame <= received + len
      BY <1>2, <2>1 DEF IInv, Numbers
    <3>2. nextFrame + BitsPerTS \in Nat /\ nextFrame + BitsPerTS < BitnumSize
      BY <1>1, <3>1 DEF IInv, Numbers, Fits
    <3>3. QED
      BY <3>2, ModSmall
  <2>4. /\ Move(Seqs(len, new), d) \subseteq Train
        /\ \A t \in Move(Seqs(len, new), d) : t.off + LenOf(t.type) <= Bits(len) - d
    BY <1>2, <2>1, MoveKeeps
  <2>5. LockedRound(Bits(len) - d, nextFrame, Move(Seqs(len, new), d), nextFrame + BitsPerTS)
    BY <1>6, <2>2, <2>3 DEF AlignToFrame
  <2>6. /\ Bits(len) - d \in Nat /\ nextFrame \in Nat /\ nextFrame + BitsPerTS \in Nat
        /\ received' \in Nat /\ nextFrame + (Bits(len) - d) = received' /\ Fits(nextFrame + (Bits(len) - d))
    BY <1>1, <1>2, <2>1 DEF IInv, Numbers
  <2> HIDE DEF d
  <2>7. QED
    BY <2>1, <2>4, <2>5, <2>6, RoundKeepsInv
<1>7. CASE AlignBeyondBuffer(len, new)
  BY <1>1, <1>2, <1>7, AlignWithinBuffer DEF AlignBeyondBuffer
<1>8. CASE ReceiveLocked(len, new)
  <2>1. /\ Drop(len) = 0 /\ Bits(len) = bitsInBuf + len /\ Start(len) = startBit
        /\ Bits(len) < 2 * BitsPerTS /\ nextFrame = startBit + BitsPerTS
    BY <1>2, <1>8 DEF ReceiveLocked, IInv, Numbers, LockedKeepsUp
  <2>2. LockedRound(Bits(len), startBit, Seqs(len, new), nextFrame)
    BY <1>8, <2>1 DEF ReceiveLocked
  <2>3. /\ received' \in Nat /\ startBit + Bits(len) = received' /\ Fits(startBit + Bits(len))
        /\ startBit \in Nat /\ nextFrame \in Nat
    BY <1>1, <2>1 DEF IInv, Numbers
  <2>4. QED
    BY <1>2, <2>1, <2>2, <2>3, RoundKeepsInv
<1>9. QED
  BY <1>3, <1>4, <1>5, <1>6, <1>7, <1>8 DEF SyncIn

LEMMA StepInv ==
  ASSUME IInv, [Next]_vars, Unwrapped'
  PROVE  IInv'
<1>1. CASE UNCHANGED vars
  BY <1>1 DEF vars, IInv, Numbers, TrainsInBuffer, SearchedHasNoSync,
              LockedKeepsUp, FrameStartAhead, Unwrapped
<1>2. QED
  BY <1>1, ReceiveInv DEF Next

(* What holds as long as the bit numbers have not wrapped.                 *)
BeforeWrap == received \in Nat /\ (Unwrapped => IInv)

LEMMA FitsDown ==
  ASSUME NEW a \in Nat, NEW b \in Nat, a <= b, Fits(b)
  PROVE  Fits(a)
BY Geometry DEF Fits

LEMMA ReceivedGrows ==
  ASSUME received \in Nat, [Next]_vars
  PROVE  received' \in Nat /\ (Unwrapped' => Unwrapped)
<1>1. CASE UNCHANGED vars BY <1>1 DEF vars, Unwrapped, Fits
<1>2. CASE Next
  <2>1. PICK len \in 1..ReadSize : received' = received + len
    BY <1>2 DEF Next, SyncIn, StayUnlocked, FindFrameStart, AwaitFrameStart, AlignToFrame,
                AlignBeyondBuffer, ReceiveLocked, Input
  <2>2. received' \in Nat /\ received <= received' BY <2>1, Geometry
  <2>3. QED BY <2>2, FitsDown DEF Unwrapped, Fits
<1>3. QED BY <1>1, <1>2

(* The invariant is inductive, for every geometry the code could be        *)
(* compiled with, until 2^32 bits less two bursts were received.           *)
THEOREM SyncInvariant == Spec => []BeforeWrap
<1>1. Init => BeforeWrap
  BY InitInv DEF BeforeWrap, Init
<1>2. BeforeWrap /\ [Next]_vars => BeforeWrap'
  BY StepInv, ReceivedGrows DEF BeforeWrap
<1>3. QED
  BY <1>1, <1>2, PTL DEF Spec

(* Moving the buffer to the frame start never underflows: the frame start  *)
(* lies within the received bits whenever the code acts on it.             *)
THEOREM FrameStartSafe == Spec => []FrameStartInBuffer
<1>1. BeforeWrap => FrameStartInBuffer
  BY DEF BeforeWrap, IInv, Numbers, FrameStartInBuffer
<1>2. QED
  BY <1>1, SyncInvariant, PTL

(* The receiver keeps up with the stream: under a lock less than one burst *)
(* waits, so the buffer is never shrunk in the middle of a frame.          *)
THEOREM KeepsUp == Spec => []LockedKeepsUp
<1>1. BeforeWrap => LockedKeepsUp
  BY DEF BeforeWrap, IInv, LockedKeepsUp
<1>2. QED
  BY <1>1, SyncInvariant, PTL

(* An unlocked receiver has searched what it holds.                        *)
THEOREM Searched == Spec => []SearchedHasNoSync
<1>1. BeforeWrap => SearchedHasNoSync
  BY DEF BeforeWrap, IInv, SearchedHasNoSync
<1>2. QED
  BY <1>1, SyncInvariant, PTL

(* A known frame start is neither behind the buffer nor too far ahead.     *)
THEOREM FrameStartKnown == Spec => []FrameStartAhead
<1>1. BeforeWrap => FrameStartAhead
  BY DEF BeforeWrap, IInv, FrameStartAhead
<1>2. QED
  BY <1>1, SyncInvariant, PTL

-----------------------------------------------------------------------------
(* What one round of RX_S_LOCKED does to the head of the buffer and to the *)
(* time: both advance by one burst, or neither does.                       *)
LEMMA RoundTicks ==
  ASSUME NEW b \in Nat, NEW st \in Nat, NEW q, NEW nx,
         Fits(st + b), q \subseteq Train,
         LockedRound(b, st, q, nx)
  PROVE  /\ ticked' \in BOOLEAN
         /\ ticked' => startBit' = st + BitsPerTS
         /\ ~ticked' => startBit' = st
         /\ burst' \in [type : Types \cup {"NONE"}, start : {0, st}]
         /\ burst'.type # "NONE" => ticked' /\ burst'.start = st
<1> USE Geometry
<1>1. CASE WaitForFrame(b, st, q, nx)
  BY <1>1 DEF WaitForFrame, Keep, Quiet, NoBurst
<1>2. CASE TakeFrame(b, st, q, nx) /\ b >= BitsPerTS /\ burst' = NoBurst
  <2>1. (st + BitsPerTS) % BitnumSize = st + BitsPerTS
    BY ModSmall DEF Fits
  <2>2. QED
    BY <1>2, <2>1 DEF TakeFrame, Keep, NoBurst
<1>3. CASE GoodFrame(b, st, q, nx)
  <2>1. (st + BitsPerTS) % BitnumSize = st + BitsPerTS
    BY ModSmall DEF Fits
  <2>2. ticked' = TRUE /\ startBit' = st + BitsPerTS
    BY <1>3, <2>1 DEF GoodFrame, TakeFrame, Keep
  <2>3. PICK t \in q : burst' = [type |-> t.type, start |-> st]
    BY <1>3 DEF GoodFrame
  <2>4. QED
    BY <2>2, <2>3 DEF Train
<1>4. QED
  BY <1>1, <1>2, <1>3 DEF LockedRound, MisplacedNormFrame, LoseLock

LEMMA StepTicks ==
  ASSUME IInv, Unwrapped',
         NEW len \in 1..ReadSize, NEW new \in SUBSET Completed(len), SyncIn(len, new)
  PROVE  /\ ticked' \in BOOLEAN
         /\ burst' \in [type : Types \cup {"NONE"}, start : 0..(BitnumSize - 1)]
         /\ burst'.type # "NONE" => ticked' /\ burst'.start + BitsPerTS = startBit'
         /\ (state = "LOCKED" /\ ticked') => startBit' = startBit + BitsPerTS
         /\ (state = "LOCKED" /\ ~ticked') => startBit' = startBit
<1> USE Geometry
<1>1. CASE Quiet /\ state # "LOCKED"
  <2>1. burst' = NoBurst /\ ticked' = FALSE /\ 0 \in 0..(BitnumSize - 1)
    BY <1>1 DEF Quiet
  <2>2. /\ burst' \in [type : Types \cup {"NONE"}, start : 0..(BitnumSize - 1)]
        /\ burst'.type = "NONE"
    BY <2>1 DEF NoBurst
  <2>3. QED
    BY <1>1, <2>1, <2>2
<1>2. Fits(received + len)
  BY DEF Unwrapped, Fits, SyncIn, StayUnlocked, FindFrameStart, AwaitFrameStart, AlignToFrame,
         AlignBeyondBuffer, ReceiveLocked, Input
<1>3. /\ Bits(len) \in Nat /\ Drop(len) \in Nat
      /\ Bits(len) = bitsInBuf - Drop(len) + len
      /\ bitsInBuf + len <= BitbufSize => Drop(len) = 0
      /\ Start(len) = startBit + Drop(len)
      /\ Start(len) + Bits(len) = received + len
      /\ Seqs(len, new) \subseteq Train
      /\ \A t \in Seqs(len, new) : t.off + LenOf(t.type) <= Bits(len)
  BY <1>2, Appended DEF IInv
<1>4. CASE AlignToFrame(len, new)
  <2> DEFINE d == FrameShift(len)
  <2>1. d \in Nat /\ d = nextFrame - Start(len) /\ d <= Bits(len)
    BY <1>2, <1>4, AlignWithinBuffer DEF AlignToFrame
  <2>2. (Start(len) + d) % BitnumSize = nextFrame
    <3>1. Start(len) + d = nextFrame /\ nextFrame \in Nat /\ nextFrame < BitnumSize
      BY <1>3, <2>1 DEF IInv, Numbers
    <3>2. QED
      BY <3>1, ModSmall
  <2>3. LockedRound(Bits(len) - d, nextFrame, Move(Seqs(len, new), d),
                    (nextFrame + BitsPerTS) % BitnumSize)
    BY <1>4, <2>2 DEF AlignToFrame
  <2>4. Move(Seqs(len, new), d) \subseteq Train
    BY <1>3, <2>1, MoveKeeps
  <2>5. /\ Bits(len) - d \in Nat /\ nextFrame \in Nat
        /\ Fits(nextFrame + (Bits(len) - d)) /\ nextFrame < BitnumSize
    BY <1>2, <1>3, <2>1 DEF IInv, Numbers
  <2> HIDE DEF d
  <2>6. /\ ticked' \in BOOLEAN
        /\ ticked' => startBit' = nextFrame + BitsPerTS
        /\ burst' \in [type : Types \cup {"NONE"}, start : {0, nextFrame}]
        /\ burst'.type # "NONE" => ticked' /\ burst'.start = nextFrame
    BY <2>3, <2>4, <2>5, RoundTicks
  <2>7. state # "LOCKED"
    BY <1>4 DEF AlignToFrame
  <2>8. QED
    BY <2>5, <2>6, <2>7
<1>5. CASE ReceiveLocked(len, new)
  <2>1. /\ Bits(len) \in Nat /\ Start(len) = startBit /\ startBit \in Nat
        /\ Fits(startBit + Bits(len)) /\ startBit < BitnumSize
    BY <1>2, <1>3, <1>5 DEF ReceiveLocked, IInv, Numbers, LockedKeepsUp, Fits
  <2>2. LockedRound(Bits(len), startBit, Seqs(len, new), nextFrame)
    BY <1>5, <2>1 DEF ReceiveLocked
  <2>3. /\ ticked' \in BOOLEAN
        /\ ticked' => startBit' = startBit + BitsPerTS
        /\ ~ticked' => startBit' = startBit
        /\ burst' \in [type : Types \cup {"NONE"}, start : {0, startBit}]
        /\ burst'.type # "NONE" => ticked' /\ burst'.start = startBit
    BY <1>3, <2>1, <2>2, RoundTicks
  <2>4. QED
    BY <2>1, <2>3
<1>6. QED
  BY <1>1, <1>4, <1>5 DEF SyncIn, StayUnlocked, FindFrameStart, AwaitFrameStart, AlignBeyondBuffer

(* The TDMA time advances by one slot exactly when one burst leaves the    *)
(* buffer: the slot count cannot drift from the bit stream while locked.   *)
THEOREM TicksFollowBursts == Spec => OneTickPerBurst
<1> DEFINE A == Unwrapped' =>
                  /\ burst'.type # "NONE" => ticked' /\ burst'.start + BitsPerTS = startBit'
                  /\ (state = "LOCKED" /\ ticked') => startBit' = startBit + BitsPerTS
                  /\ (state = "LOCKED" /\ ~ticked') => startBit' = startBit
<1>1. BeforeWrap /\ [Next]_vars => [A]_received
  BY StepTicks, ReceivedGrows DEF Next, vars, BeforeWrap
<1>2. QED
  BY <1>1, SyncInvariant, PTL DEF Spec, OneTickPerBurst

-----------------------------------------------------------------------------
(* What holds whether or not the bit numbers have wrapped: types, places   *)
(* of training sequences, and the bit number of the head, modulo 2^32.     *)
LEMMA ModRange ==
  ASSUME NEW x \in Int, NEW w \in Nat, w > 0
  PROVE  x % w \in Nat /\ x % w < w /\ x \div w \in Int
OBVIOUS

LEMMA ModDiv ==
  ASSUME NEW x \in Int, NEW w \in Nat, w > 0
  PROVE  x = w * (x \div w) + (x % w)
BY SMTT(30)

LEMMA ModUnique ==
  ASSUME NEW q \in Int, NEW r \in Nat, NEW w \in Nat, w > 0, r < w
  PROVE  (w * q + r) % w = r
OBVIOUS

LEMMA Distribute ==
  ASSUME NEW q \in Int, NEW r \in Int, NEW w \in Int
  PROVE  w * q + w * r = w * (q + r)
OBVIOUS

(* A sum may be reduced before the last addition.                          *)
LEMMA ModAdd ==
  ASSUME NEW a \in Int, NEW b \in Int, NEW w \in Nat, w > 0
  PROVE  ((a % w) + b) % w = (a + b) % w
<1> DEFINE q == a \div w
           r == a % w
           p == (r + b) \div w
           s == (r + b) % w
<1>1. a = w * q + r /\ q \in Int /\ r \in Int BY ModDiv, ModRange
<1>2. r + b = w * p + s /\ p \in Int /\ s \in Nat /\ s < w BY <1>1, ModDiv, ModRange
<1>3. w * q + w * p = w * (q + p) BY <1>1, <1>2, Distribute
<1> HIDE DEF q, r, p, s
<1>4. w * q \in Int /\ w * p \in Int BY <1>1, <1>2
<1>5. a + b = w * (q + p) + s BY <1>1, <1>2, <1>3, <1>4
<1>6. (w * (q + p) + s) % w = s BY <1>1, <1>2, ModUnique
<1> QED BY <1>5, <1>6 DEF s, r

BufInv ==
  /\ state \in {"UNLOCKED", "KNOW_FSTART", "LOCKED", "WILD"}
  /\ bitsInBuf \in Nat /\ bitsInBuf <= BitbufSize
  /\ startBit \in Nat /\ startBit < BitnumSize
  /\ nextFrame \in Nat /\ nextFrame < BitnumSize
  /\ received \in Nat /\ received <= StreamBits
  /\ trains \subseteq Train
  /\ burst \in [type : Types \cup {"NONE"}, start : 0..(BitnumSize - 1)]
  /\ ticked \in BOOLEAN
  /\ TrainsInBuffer
  /\ BitnumsFollowStream

LEMMA NoBurstTyped == NoBurst \in [type : Types \cup {"NONE"}, start : 0..(BitnumSize - 1)]
<1>1. 0 \in 0..(BitnumSize - 1) BY Geometry
<1> QED BY <1>1 DEF NoBurst

LEMMA BufInit == Init => BufInv
<1> SUFFICES ASSUME Init PROVE BufInv OBVIOUS
<1>1. StreamBits \in Nat BY GeometryAssumption
<1>2. burst \in [type : Types \cup {"NONE"}, start : 0..(BitnumSize - 1)]
  BY NoBurstTyped DEF Init
<1>3. BitnumsFollowStream BY DEF Init, BitnumsFollowStream
<1>4. TrainsInBuffer BY DEF Init, TrainsInBuffer
<1>5. /\ bitsInBuf = 0 /\ startBit = 0 /\ nextFrame = 0 /\ received = 0
      /\ state = "UNLOCKED" /\ trains \subseteq Train /\ ticked \in BOOLEAN
  BY DEF Init
<1>6. 0 \in Nat /\ 0 <= BitbufSize /\ 0 < BitnumSize /\ 0 <= StreamBits
  BY <1>1, Geometry
<1> QED BY <1>2, <1>3, <1>4, <1>5, <1>6, Zenon DEF BufInv

(* The buffer after make_bitbuf_space and the append.                      *)
LEMMA BufAppended ==
  ASSUME BufInv, state # "WILD", NEW len \in 1..ReadSize, NEW new, new \subseteq Completed(len)
  PROVE  /\ Bits(len) \in Nat /\ Bits(len) <= BitbufSize
         /\ Start(len) \in Nat /\ Start(len) < BitnumSize
         /\ Seqs(len, new) \subseteq Train
         /\ \A t \in Seqs(len, new) : t.off + LenOf(t.type) <= Bits(len)
         /\ (Start(len) + Bits(len)) % BitnumSize = (received + len) % BitnumSize
<1> USE Geometry
<1>1. Drop(len) \in Nat /\ Drop(len) <= len /\ Drop(len) <= bitsInBuf
  BY DEF Drop, BufInv
<1>2. /\ Bits(len) \in Nat /\ Bits(len) <= BitbufSize
      /\ Bits(len) = bitsInBuf - Drop(len) + len
  BY <1>1 DEF Bits, BufInv, Drop
<1>3. Start(len) = (startBit + Drop(len)) % BitnumSize /\ startBit + Drop(len) \in Int
  BY <1>1 DEF Start, BufInv
<1>4. Start(len) \in Nat /\ Start(len) < BitnumSize
  BY <1>3, ModRange
<1>5. (Start(len) + Bits(len)) % BitnumSize = (startBit + Drop(len) + Bits(len)) % BitnumSize
  BY <1>2, <1>3, ModAdd
<1>6. startBit + Drop(len) + Bits(len) = (startBit + bitsInBuf) + len
  BY <1>1, <1>2 DEF BufInv
<1>7. (startBit + bitsInBuf) % BitnumSize = received % BitnumSize
  BY DEF BufInv, BitnumsFollowStream
<1>8. ((startBit + bitsInBuf) + len) % BitnumSize = (received + len) % BitnumSize
  <2>1. startBit + bitsInBuf \in Int /\ received \in Int /\ len \in Int BY DEF BufInv
  <2>2. (((startBit + bitsInBuf) % BitnumSize) + len) % BitnumSize
          = ((startBit + bitsInBuf) + len) % BitnumSize
    BY <2>1, ModAdd
  <2>3. ((received % BitnumSize) + len) % BitnumSize = (received + len) % BitnumSize
    BY <2>1, ModAdd
  <2> QED BY <1>7, <2>2, <2>3
<1>9. /\ Move(trains, Drop(len)) \subseteq Train
      /\ \A t \in Move(trains, Drop(len)) : t.off + LenOf(t.type) <= bitsInBuf - Drop(len)
  BY <1>1, MoveKeeps DEF BufInv, TrainsInBuffer
<1>10. \A t \in Move(trains, Drop(len)) : t.off + LenOf(t.type) <= Bits(len)
  <2> SUFFICES ASSUME NEW t \in Move(trains, Drop(len))
               PROVE  t.off + LenOf(t.type) <= Bits(len)
    OBVIOUS
  <2>1. t.off \in Nat /\ LenOf(t.type) \in Nat
    BY <1>9 DEF Train, LenOf
  <2>2. QED
    BY <1>1, <1>2, <1>9, <2>1 DEF BufInv
<1>11. new \subseteq Train /\ \A t \in new : t.off + LenOf(t.type) <= Bits(len)
  BY <1>2 DEF Completed, Train
<1> QED BY <1>2, <1>4, <1>5, <1>6, <1>8, <1>9, <1>10, <1>11 DEF Seqs

(* One round of RX_S_LOCKED on any buffer.                                 *)
LEMMA RoundKeepsBuf ==
  ASSUME NEW b \in Nat, b <= BitbufSize, NEW st \in Nat, st < BitnumSize,
         NEW nx \in Nat, nx < BitnumSize, NEW q, q \subseteq Train,
         \A t \in q : t.off + LenOf(t.type) <= b,
         received' \in Nat, received' <= StreamBits,
         (st + b) % BitnumSize = received' % BitnumSize,
         LockedRound(b, st, q, nx)
  PROVE  BufInv'
<1> USE Geometry
<1>1. CASE WaitForFrame(b, st, q, nx)
  <2>1. /\ state' = "LOCKED" /\ bitsInBuf' = b /\ startBit' = st /\ trains' = q
        /\ nextFrame' = nx /\ burst' = NoBurst /\ ticked' = FALSE
    BY <1>1 DEF WaitForFrame, Keep, Quiet
  <2>2. TrainsInBuffer' /\ BitnumsFollowStream'
    BY <2>1 DEF TrainsInBuffer, BitnumsFollowStream
  <2>3. burst' \in [type : Types \cup {"NONE"}, start : 0..(BitnumSize - 1)]
    BY <2>1, NoBurstTyped
  <2> QED BY <2>1, <2>2, <2>3 DEF BufInv
<1>2. CASE /\ TakeFrame(b, st, q, nx) /\ b >= BitsPerTS /\ state' \in {"LOCKED", "UNLOCKED"}
           /\ burst' \in [type : Types \cup {"NONE"}, start : 0..(BitnumSize - 1)]
  <2>1. /\ bitsInBuf' = b - BitsPerTS /\ startBit' = (st + BitsPerTS) % BitnumSize
        /\ trains' = Move(q, BitsPerTS) /\ nextFrame' = (nx + BitsPerTS) % BitnumSize
        /\ ticked' = TRUE
    BY <1>2 DEF TakeFrame, Keep
  <2>2. /\ startBit' \in Nat /\ startBit' < BitnumSize
        /\ nextFrame' \in Nat /\ nextFrame' < BitnumSize
    BY <2>1, ModRange
  <2>3. bitsInBuf' \in Nat /\ bitsInBuf' <= BitbufSize BY <1>2, <2>1
  <2>4. trains' \subseteq Train /\ TrainsInBuffer'
    BY <2>1, MoveKeeps DEF TrainsInBuffer
  <2>5. BitnumsFollowStream'
    <3>0. st + BitsPerTS \in Int /\ b - BitsPerTS \in Int OBVIOUS
    <3>1. (((st + BitsPerTS) % BitnumSize) + (b - BitsPerTS)) % BitnumSize
            = ((st + BitsPerTS) + (b - BitsPerTS)) % BitnumSize
      BY <3>0, ModAdd, Zenon
    <3>2. (st + BitsPerTS) + (b - BitsPerTS) = st + b OBVIOUS
    <3> QED BY <2>1, <3>1, <3>2 DEF BitnumsFollowStream
  <2> QED BY <1>2, <2>1, <2>2, <2>3, <2>4, <2>5 DEF BufInv
<1>3. CASE GoodFrame(b, st, q, nx)
  <2>1. PICK t \in q : burst' = [type |-> t.type, start |-> st]
    BY <1>3 DEF GoodFrame
  <2>2. t.type \in Types /\ st \in 0..(BitnumSize - 1) BY DEF Train
  <2>3. burst' \in [type : Types \cup {"NONE"}, start : 0..(BitnumSize - 1)]
    BY <2>1, <2>2
  <2> QED BY <1>2, <1>3, <2>3 DEF GoodFrame
<1>4. CASE MisplacedNormFrame(b, st, q, nx) \/ LoseLock(b, st, q, nx)
  <2>1. burst' = NoBurst BY <1>4 DEF MisplacedNormFrame, LoseLock
  <2> QED BY <1>2, <1>4, <2>1, NoBurstTyped DEF MisplacedNormFrame, LoseLock
<1>5. QED
  BY <1>1, <1>3, <1>4 DEF LockedRound

LEMMA BufStep ==
  ASSUME BufInv, [Next]_vars
  PROVE  BufInv'
<1> USE Geometry
<1>1. CASE UNCHANGED vars
  BY <1>1 DEF vars, BufInv, TrainsInBuffer, BitnumsFollowStream
<1>2. ASSUME NEW len \in 1..ReadSize, NEW new \in SUBSET Completed(len), SyncIn(len, new)
      PROVE  BufInv'
  <2>1. /\ received' = received + len /\ received + len <= StreamBits /\ state # "WILD"
        /\ received' \in Nat
    BY <1>2 DEF SyncIn, StayUnlocked, FindFrameStart, AwaitFrameStart, AlignToFrame,
                AlignBeyondBuffer, ReceiveLocked, Input, BufInv
  <2>2. /\ Bits(len) \in Nat /\ Bits(len) <= BitbufSize
        /\ Start(len) \in Nat /\ Start(len) < BitnumSize
        /\ Seqs(len, new) \subseteq Train
        /\ \A t \in Seqs(len, new) : t.off + LenOf(t.type) <= Bits(len)
        /\ (Start(len) + Bits(len)) % BitnumSize = (received + len) % BitnumSize
    BY <2>1, BufAppended
  <2>3. CASE \/ StayUnlocked(len, new) \/ FindFrameStart(len, new)
             \/ AwaitFrameStart(len, new) \/ AlignBeyondBuffer(len, new)
    <3>1. /\ bitsInBuf' = Bits(len) /\ startBit' = Start(len) /\ trains' = Seqs(len, new)
          /\ burst' = NoBurst /\ ticked' = FALSE
      BY <2>3 DEF StayUnlocked, FindFrameStart, AwaitFrameStart, AlignBeyondBuffer, Keep, Quiet
    <3>2. nextFrame' \in Nat /\ nextFrame' < BitnumSize
      <4>1. CASE nextFrame' = nextFrame BY <4>1 DEF BufInv
      <4>2. CASE FindFrameStart(len, new)
        <5>1. PICK t \in Seqs(len, new) :
                nextFrame' = (Start(len) + t.off + NextOffset) % BitnumSize
          BY <4>2 DEF FindFrameStart
        <5>2. t.off \in Nat BY <2>2 DEF Train
        <5>3. Start(len) + t.off + NextOffset \in Int BY <2>2, <5>2
        <5> QED BY <5>1, <5>3, ModRange
      <4> QED BY <2>3, <4>1, <4>2 DEF StayUnlocked, AwaitFrameStart, AlignBeyondBuffer
    <3>3. state' \in {"UNLOCKED", "KNOW_FSTART", "LOCKED", "WILD"}
      BY <2>3 DEF StayUnlocked, FindFrameStart, AwaitFrameStart, AlignBeyondBuffer, BufInv
    <3>4. TrainsInBuffer' /\ BitnumsFollowStream'
      BY <2>1, <2>2, <3>1 DEF TrainsInBuffer, BitnumsFollowStream
    <3>5. burst' \in [type : Types \cup {"NONE"}, start : 0..(BitnumSize - 1)]
      BY <3>1, NoBurstTyped
    <3> QED BY <2>1, <2>2, <3>1, <3>2, <3>3, <3>4, <3>5 DEF BufInv
  <2>4. CASE AlignToFrame(len, new)
    <3> DEFINE d == FrameShift(len)
               st == (Start(len) + d) % BitnumSize
               nx == (nextFrame + BitsPerTS) % BitnumSize
    <3>1. d \in Nat /\ d <= Bits(len)
      <4>1. nextFrame - Start(len) \in Int BY <2>2 DEF BufInv
      <4>2. d \in Nat BY <4>1, ModRange DEF FrameShift
      <4> QED BY <2>4, <4>2 DEF AlignToFrame
    <3>2. LockedRound(Bits(len) - d, st, Move(Seqs(len, new), d), nx)
      BY <2>4 DEF AlignToFrame
    <3>3. /\ Move(Seqs(len, new), d) \subseteq Train
          /\ \A t \in Move(Seqs(len, new), d) : t.off + LenOf(t.type) <= Bits(len) - d
      BY <2>2, <3>1, MoveKeeps
    <3>4. (st + (Bits(len) - d)) % BitnumSize = received' % BitnumSize
      <4> HIDE DEF d
      <4>0. Start(len) + d \in Int /\ Bits(len) - d \in Int BY <2>2, <3>1
      <4>1. (((Start(len) + d) % BitnumSize) + (Bits(len) - d)) % BitnumSize
              = ((Start(len) + d) + (Bits(len) - d)) % BitnumSize
        BY <4>0, ModAdd, Zenon
      <4>2. (Start(len) + d) + (Bits(len) - d) = Start(len) + Bits(len) BY <2>2, <3>1
      <4> QED BY <2>1, <2>2, <4>1, <4>2
    <3>5. st \in Nat /\ st < BitnumSize /\ nx \in Nat /\ nx < BitnumSize
      <4> HIDE DEF d
      <4>1. Start(len) + d \in Int /\ nextFrame + BitsPerTS \in Int
        BY <2>2, <3>1 DEF BufInv
      <4> QED BY <4>1, ModRange
    <3> HIDE DEF d, st, nx
    <3>6. Bits(len) - d \in Nat /\ Bits(len) - d <= BitbufSize BY <2>2, <3>1
    <3> QED BY <2>1, <3>2, <3>3, <3>4, <3>5, <3>6, RoundKeepsBuf
  <2>5. CASE ReceiveLocked(len, new)
    <3>1. LockedRound(Bits(len), Start(len), Seqs(len, new), nextFrame)
      BY <2>5 DEF ReceiveLocked
    <3>2. nextFrame \in Nat /\ nextFrame < BitnumSize BY DEF BufInv
    <3> QED BY <2>1, <2>2, <3>1, <3>2, RoundKeepsBuf
  <2> QED BY <1>2, <2>3, <2>4, <2>5 DEF SyncIn
<1>3. QED
  BY <1>1, <1>2 DEF Next

LEMMA BufInvariant == Spec => []BufInv
BY BufInit, BufStep, PTL DEF Spec

(* Type correctness: every number stays within its C type, and the buffer  *)
(* never holds more than it has room for.                                  *)
THEOREM TypeCorrect == Spec => []TypeOK
<1>1. BufInv => TypeOK
  BY Geometry DEF BufInv, TypeOK
<1> QED BY <1>1, BufInvariant, PTL

(* The head's bit number is exact modulo the size of an unsigned int, also *)
(* after a wrap, and no training sequence is found outside the buffer.     *)
THEOREM BitnumsExact == Spec => [](TrainsInBuffer /\ BitnumsFollowStream)
<1>1. BufInv => TrainsInBuffer /\ BitnumsFollowStream
  BY DEF BufInv
<1> QED BY <1>1, BufInvariant, PTL

-----------------------------------------------------------------------------
(* The synchroniser on a carrier (AirLink).  Bits are counted from the one *)
(* received first; r is how many were received and a how many of them are  *)
(* of the burst on the air: x is where a burst of the carrier starts.      *)
Grid(x, r, a) == (x - r + a) % BitsPerTS = 0

(* Training sequences that were received since bits were lost last are     *)
(* where the bursts on the air have them.                                  *)
TrainsOnGrid(st, q, r, a) ==
  \A t \in q : st + t.off >= cut => Grid((st + t.off) - PlaceOf(t.type), r, a)

AirInv ==
  /\ BeforeWrap
  /\ airPos \in 0..(BitsPerTS - 1) /\ cut \in Nat /\ cut <= received
  /\ Unwrapped =>
       /\ TrainsOnGrid(startBit, trains, received, airPos)
       /\ trusted /\ state = "LOCKED" => Grid(startBit, received, airPos)
       /\ trusted /\ state = "KNOW_FSTART" => Grid(nextFrame, received, airPos)

(* A whole number of bursts more or less is one.                           *)
LEMMA ModShift ==
  ASSUME NEW w \in Nat, w > 0, NEW a \in Int, a % w = 0
  PROVE  (a + w) % w = 0 /\ (a - w) % w = 0
<1> DEFINE q == a \div w
<1>1. a = w * q /\ q \in Int BY ModDiv, ModRange
<1> HIDE DEF q
<1>2. a + w = w * (q + 1) + 0 /\ q + 1 \in Int
  <2>1. w * q + w * 1 = w * (q + 1) BY <1>1, Distribute
  <2>2. w * (q + 1) \in Int BY <1>1
  <2> QED BY <1>1, <2>1, <2>2
<1>3. a - w = w * (q - 1) + 0 /\ q - 1 \in Int
  <2>1. w * q + w * (-1) = w * (q + (-1)) BY <1>1, Distribute
  <2>2. w * (q - 1) \in Int /\ q - 1 = q + (-1) BY <1>1
  <2> QED BY <1>1, <2>1, <2>2
<1>4. \A k \in Int : (w * k + 0) % w = 0 BY ModUnique
<1>5. (w * (q + 1) + 0) % w = 0 /\ (w * (q - 1) + 0) % w = 0 BY <1>2, <1>3, <1>4
<1> QED BY <1>2, <1>3, <1>5

(* No burst, and one burst back.                                           *)
LEMMA ModNone == ASSUME NEW w \in Nat, w > 0 PROVE 0 % w = 0 /\ (-w) % w = 0
<1>1. 0 = w * 0 + 0 /\ -w = w * (-1) + 0 OBVIOUS
<1> QED BY <1>1, ModUnique

(* As bits are received the bursts stay where they are, and the one that   *)
(* was on the air starts where it started.                                 *)
LEMMA GridStays ==
  ASSUME NEW r \in Nat, NEW a \in 0..(BitsPerTS - 1), NEW len \in 1..ReadSize
  PROVE  /\ (a + len) % BitsPerTS \in 0..(BitsPerTS - 1)
         /\ \A x \in Int : Grid(x, r, a) => Grid(x, r + len, (a + len) % BitsPerTS)
         /\ \A x \in Int : x = r - a => Grid(x, r + len, (a + len) % BitsPerTS)
<1> USE Geometry
<1> DEFINE b == (a + len) % BitsPerTS
<1>1. b = a + len \/ b = a + len - BitsPerTS
  <2>1. CASE a + len < BitsPerTS BY <2>1, ModSmall
  <2>2. CASE a + len >= BitsPerTS
    <3>1. a + len - BitsPerTS \in Nat /\ a + len - BitsPerTS < BitsPerTS BY <2>2
    <3>2. a + len = BitsPerTS * 1 + (a + len - BitsPerTS) OBVIOUS
    <3> QED BY <3>1, <3>2, ModUnique
  <2> QED BY <2>1, <2>2
<1>2. b \in 0..(BitsPerTS - 1) BY ModRange
<1> HIDE DEF b
<1>3. ASSUME NEW x \in Int, Grid(x, r, a) PROVE Grid(x, r + len, b)
  <2>1. (x - r + a) % BitsPerTS = 0 BY <1>3 DEF Grid
  <2>2. x - (r + len) + b = x - r + a \/ x - (r + len) + b = (x - r + a) - BitsPerTS
    BY <1>1
  <2> QED BY <2>1, <2>2, ModShift DEF Grid
<1>4. ASSUME NEW x \in Int, x = r - a PROVE Grid(x, r + len, b)
  <2>1. x - (r + len) + b = 0 \/ x - (r + len) + b = -BitsPerTS BY <1>1, <1>4
  <2> QED BY <2>1, ModNone DEF Grid
<1> QED BY <1>2, <1>3, <1>4 DEF b

(* A burst behind a burst starts on the grid.                              *)
LEMMA GridSteps ==
  ASSUME NEW x \in Int, NEW r \in Nat, NEW a \in Nat, Grid(x, r, a)
  PROVE  Grid(x + BitsPerTS, r, a)
<1>1. (x - r + a) % BitsPerTS = 0 BY DEF Grid
<1>2. x + BitsPerTS - r + a = (x - r + a) + BitsPerTS BY Geometry
<1>3. x - r + a \in Int OBVIOUS
<1> QED BY <1>1, <1>2, <1>3, ModShift, Geometry DEF Grid

(* What the air completes is something a read may complete.                *)
LEMMA AirTrainsCompleted ==
  ASSUME Numbers, airPos \in Nat, NEW len \in 1..ReadSize, NEW from \in SeenFrom,
         Bits(len) \in Nat
  PROVE  /\ AirTrains(len, from) \in SUBSET Completed(len)
         /\ \A t \in AirTrains(len, from) :
              t.off - PlaceOf(t.type) = Bits(len) - (airPos + len)
<1> USE Geometry
<1> SUFFICES ASSUME NEW t \in AirTrains(len, from)
             PROVE  t \in Completed(len) /\ t.off - PlaceOf(t.type) = Bits(len) - (airPos + len)
  OBVIOUS
<1>1. PICK type \in Types :
        /\ t = [off |-> AirTrainOff(len, type), type |-> type, from |-> from]
        /\ AirTrainOff(len, type) >= 0
        /\ PlaceOf(type) + LenOf(type) \in (airPos + 1)..(airPos + len)
  BY DEF AirTrains
<1>2. PlaceOf(type) \in Nat /\ LenOf(type) \in Nat /\ LenOf(type) > 0
  BY DEF PlaceOf, LenOf
<1>3. t.off = Bits(len) - (airPos + len) + PlaceOf(type) /\ t.type = type /\ t.from = from
  BY <1>1 DEF AirTrainOff
<1>4. /\ t.off + LenOf(type) <= Bits(len) /\ t.off + LenOf(type) > Bits(len) - len
      /\ t.off \in 0..(Bits(len) - 1)
  BY <1>1, <1>2, <1>3 DEF AirTrainOff
<1>5. t \in [off : 0..(Bits(len) - 1), type : Types, from : SeenFrom] BY <1>1, <1>3, <1>4
<1>6. t \in Completed(len) BY <1>3, <1>4, <1>5 DEF Completed
<1> QED BY <1>2, <1>3, <1>6

(* One round of RX_S_LOCKED moves the head by one burst or not at all, and *)
(* every training sequence stays at its bit number.                        *)
LEMMA RoundMoves ==
  ASSUME NEW b \in Nat, NEW st \in Nat, NEW q, NEW nx \in Nat,
         q \subseteq Train, Fits(st + b), LockedRound(b, st, q, nx)
  PROVE  /\ state' \in {"LOCKED", "UNLOCKED"}
         /\ startBit' \in {st, st + BitsPerTS}
         /\ \A t \in trains' : \E u \in q : u.type = t.type /\ startBit' + t.off = st + u.off
<1> USE Geometry
<1>1. CASE WaitForFrame(b, st, q, nx) BY <1>1 DEF WaitForFrame, Keep
<1>2. CASE TakeFrame(b, st, q, nx) /\ b >= BitsPerTS /\ state' \in {"LOCKED", "UNLOCKED"}
  <2>1. st + BitsPerTS \in Nat /\ st + BitsPerTS < BitnumSize BY <1>2 DEF Fits
  <2>2. startBit' = st + BitsPerTS /\ trains' = Move(q, BitsPerTS)
    BY <1>2, <2>1, ModSmall DEF TakeFrame, Keep
  <2>3. ASSUME NEW t \in trains'
        PROVE  \E u \in q : u.type = t.type /\ startBit' + t.off = st + u.off
    <3>1. PICK u \in q : u.off >= BitsPerTS /\ t = [u EXCEPT !.off = @ - BitsPerTS]
      BY <2>2, <2>3 DEF Move
    <3>2. u \in Train /\ u.off \in Nat BY DEF Train
    <3>3. t.off = u.off - BitsPerTS /\ t.type = u.type BY <3>1, <3>2 DEF Train
    <3> QED BY <2>2, <3>2, <3>3
  <2> QED BY <1>2, <2>2, <2>3
<1> QED BY <1>1, <1>2 DEF LockedRound, GoodFrame, MisplacedNormFrame, LoseLock

(* A memmove moves training sequences, and with the new start of the buffer*)
(* they are where they were.                                               *)
LEMMA MoveMoves ==
  ASSUME NEW q, q \subseteq Train, NEW n \in Nat, NEW st \in Nat
  PROVE  /\ Move(q, n) \subseteq Train
         /\ \A t \in Move(q, n) : \E u \in q : u.type = t.type /\ st + n + t.off = st + u.off
<1> SUFFICES ASSUME NEW t \in Move(q, n)
             PROVE  t \in Train /\ \E u \in q : u.type = t.type /\ st + n + t.off = st + u.off
  OBVIOUS
<1>1. PICK u \in q : u.off >= n /\ t = [u EXCEPT !.off = @ - n] BY DEF Move
<1>2. u \in Train /\ u.off \in Nat /\ u.type \in Types /\ u.from \in SeenFrom BY DEF Train
<1>3. t \in Train /\ t.off = u.off - n /\ t.type = u.type BY <1>1, <1>2 DEF Train
<1> QED BY <1>2, <1>3

(* Sequences that keep their bit numbers stay on the grid.                 *)
LEMMA TrainsStay ==
  ASSUME NEW q, NEW p, NEW st \in Nat, NEW su \in Nat, NEW r, NEW a,
         TrainsOnGrid(st, q, r, a),
         \A t \in p : \E u \in q : u.type = t.type /\ su + t.off = st + u.off
  PROVE  TrainsOnGrid(su, p, r, a)
<1> SUFFICES ASSUME NEW t \in p, su + t.off >= cut
             PROVE  Grid((su + t.off) - PlaceOf(t.type), r, a)
  BY DEF TrainsOnGrid
<1>1. PICK u \in q : u.type = t.type /\ su + t.off = st + u.off OBVIOUS
<1>2. st + u.off >= cut BY <1>1
<1>3. Grid((st + u.off) - PlaceOf(u.type), r, a) BY <1>2 DEF TrainsOnGrid
<1> QED BY <1>1, <1>3

(* The buffer a call works on: all that is in it is on the grid.           *)
LEMMA ReadOnGrid ==
  ASSUME AirInv, NEW len \in 1..ReadSize, NEW from \in SeenFrom, Fits(received + len),
         Unwrapped
  PROVE  LET new == AirTrains(len, from)
             a   == (airPos + len) % BitsPerTS
         IN  /\ new \in SUBSET Completed(len)
             /\ Seqs(len, new) \subseteq Train
             /\ Bits(len) \in Nat /\ Start(len) \in Nat
             /\ Start(len) + Bits(len) = received + len
             /\ TrainsOnGrid(Start(len), Seqs(len, new), received + len, a)
<1> USE Geometry
<1> DEFINE new == AirTrains(len, from)
           a == (airPos + len) % BitsPerTS
<1>1. /\ IInv /\ Numbers /\ TrainsInBuffer /\ airPos \in 0..(BitsPerTS - 1) /\ received \in Nat
      /\ startBit \in Nat /\ trains \subseteq Train /\ cut \in Nat
      /\ TrainsOnGrid(startBit, trains, received, airPos)
  BY DEF AirInv, BeforeWrap, IInv, Numbers
<1>2. /\ Drop(len) \in Nat /\ Bits(len) \in Nat
      /\ Start(len) = startBit + Drop(len)
      /\ Start(len) + Bits(len) = received + len
  BY <1>1, Appended
<1>3. new \in SUBSET Completed(len)
      /\ \A t \in new : t.off - PlaceOf(t.type) = Bits(len) - (airPos + len)
  BY <1>1, <1>2, AirTrainsCompleted
<1>4. Seqs(len, new) \subseteq Train BY <1>1, <1>3, Appended
<1>5. ASSUME NEW t \in Seqs(len, new), Start(len) + t.off >= cut
      PROVE  Grid((Start(len) + t.off) - PlaceOf(t.type), received + len, a)
  <2>1. t.off \in Nat /\ PlaceOf(t.type) \in Nat BY <1>4, <1>5 DEF Train, PlaceOf
  <2>2. CASE t \in new
    <3>1. (Start(len) + t.off) - PlaceOf(t.type) = received - airPos BY <1>1, <1>2, <1>3, <2>1, <2>2
    <3>2. received - airPos \in Int BY <1>1
    <3> HIDE DEF a, new
    <3> QED BY <1>1, <3>1, <3>2, GridStays DEF a
  <2>3. CASE t \in Move(trains, Drop(len))
    <3>1. PICK u \in trains : u.type = t.type /\ startBit + Drop(len) + t.off = startBit + u.off
      BY <1>1, <1>2, <2>3, MoveMoves
    <3>2. Grid((startBit + u.off) - PlaceOf(u.type), received, airPos)
      BY <1>1, <1>2, <1>5, <3>1 DEF TrainsOnGrid
    <3>3. Grid((Start(len) + t.off) - PlaceOf(t.type), received, airPos)
      <4>1. Start(len) + t.off = startBit + u.off BY <1>2, <3>1
      <4> QED BY <3>1, <3>2, <4>1
    <3>4. (Start(len) + t.off) - PlaceOf(t.type) \in Int BY <1>1, <1>2, <2>1
    <3> HIDE DEF a, new
    <3> QED BY <1>1, <3>3, <3>4, GridStays DEF a
  <2> QED BY <1>5, <2>2, <2>3 DEF Seqs
<1>6. TrainsOnGrid(Start(len), Seqs(len, new), received + len, a) BY <1>5 DEF TrainsOnGrid
<1> QED BY <1>1, <1>2, <1>3, <1>4, <1>6

(* One call, from any state of the synchroniser: what was on the grid      *)
(* stays there, and what becomes a frame start is on it.                   *)
LEMMA ChunkOnGrid ==
  ASSUME AirInv, NEW len \in 1..ReadSize, NEW from \in SeenFrom, Fits(received + len),
         Unwrapped, SyncIn(len, AirTrains(len, from)), JudgeFrameStart, cut' = cut,
         airPos' = (airPos + len) % BitsPerTS, received' = received + len
  PROVE  /\ TrainsOnGrid(startBit', trains', received', airPos')
         /\ trusted' /\ state' = "LOCKED" => Grid(startBit', received', airPos')
         /\ trusted' /\ state' = "KNOW_FSTART" => Grid(nextFrame', received', airPos')
<1> USE Geometry
<1> DEFINE new == AirTrains(len, from)
           r == received + len
           a == (airPos + len) % BitsPerTS
<1>1. /\ new \in SUBSET Completed(len) /\ Seqs(len, new) \subseteq Train
      /\ Bits(len) \in Nat /\ Start(len) \in Nat
      /\ Start(len) + Bits(len) = r
      /\ TrainsOnGrid(Start(len), Seqs(len, new), r, a)
  BY ReadOnGrid
<1>2. /\ received \in Nat /\ airPos \in 0..(BitsPerTS - 1) /\ cut \in Nat
      /\ startBit \in Nat /\ nextFrame \in Nat /\ IInv /\ Numbers
      /\ trusted /\ state = "LOCKED" => Grid(startBit, received, airPos)
      /\ trusted /\ state = "KNOW_FSTART" => Grid(nextFrame, received, airPos)
  BY DEF AirInv, BeforeWrap, IInv, Numbers
<1>3. \A x \in Int : Grid(x, received, airPos) => Grid(x, r, a) BY <1>2, GridStays
<1>4. airPos' = a /\ received' = r /\ r \in Nat /\ a \in Nat
  BY <1>2, GridStays
<1> HIDE DEF new, r, a
<1>5. CASE StayUnlocked(len, new)
  <2>1. state' = "UNLOCKED" /\ startBit' = Start(len) /\ trains' = Seqs(len, new)
    BY <1>5 DEF StayUnlocked, Keep
  <2> QED BY <1>1, <1>4, <2>1
<1>6. CASE FindFrameStart(len, new)
  <2>1. /\ state = "UNLOCKED" /\ state' = "KNOW_FSTART"
        /\ startBit' = Start(len) /\ trains' = Seqs(len, new)
    BY <1>6 DEF FindFrameStart, Keep
  <2>2. PICK t \in Seqs(len, new) :
          /\ t.type = "SYNC"
          /\ nextFrame' = (Start(len) + t.off + NextOffset) % BitnumSize
    BY <1>6 DEF FindFrameStart, IsFirst, Seen
  <2>3. t.off \in Nat /\ LenOf(t.type) = SyncLen /\ PlaceOf(t.type) = SyncOffset
    BY <1>1, <2>2 DEF Train, LenOf, PlaceOf
  <2>4. t.off + SyncLen <= Bits(len)
    BY <1>2, <1>1, <2>3, Appended DEF IInv
  <2>5. nextFrame' = Start(len) + t.off + NextOffset
    <3>1. Start(len) + t.off + NextOffset \in Nat BY <1>1, <2>3
    <3>2. Start(len) + t.off + NextOffset < BitnumSize
      BY <1>1, <1>2, <2>3, <2>4 DEF Fits, r
    <3> QED BY <2>2, <3>1, <3>2, ModSmall
  <2>6. trusted' => Start(len) + t.off >= cut
    <3>1. trusted' => nextFrame' - NextOffset >= cut BY <2>1 DEF JudgeFrameStart
    <3>2. nextFrame' - NextOffset = Start(len) + t.off BY <1>1, <2>3, <2>5
    <3> QED BY <3>1, <3>2
  <2>7. ASSUME trusted' PROVE Grid(nextFrame', r, a)
    <3>1. Grid((Start(len) + t.off) - SyncOffset, r, a)
      BY <1>1, <2>3, <2>6, <2>7 DEF TrainsOnGrid
    <3>2. (Start(len) + t.off) - SyncOffset \in Int BY <1>1, <2>3
    <3>3. nextFrame' = ((Start(len) + t.off) - SyncOffset) + BitsPerTS
      <4>1. SyncOffset + NextOffset = BitsPerTS BY AirAssumption
      <4>2. ASSUME NEW x \in Int PROVE (x - SyncOffset) + BitsPerTS = x + NextOffset
        BY <4>1
      <4>3. Start(len) + t.off \in Int BY <1>1, <2>3
      <4> QED BY <2>5, <4>2, <4>3
    <3> QED BY <1>4, <3>1, <3>2, <3>3, GridSteps
  <2> QED BY <1>1, <1>4, <2>1, <2>7
<1>7. CASE AwaitFrameStart(len, new)
  <2>1. /\ state = "KNOW_FSTART" /\ state' = "KNOW_FSTART" /\ nextFrame' = nextFrame
        /\ startBit' = Start(len) /\ trains' = Seqs(len, new)
    BY <1>7 DEF AwaitFrameStart, Keep
  <2>2. trusted' = trusted BY <2>1 DEF JudgeFrameStart
  <2> QED BY <1>1, <1>2, <1>3, <1>4, <2>1, <2>2
<1>8. CASE AlignToFrame(len, new)
  <2> DEFINE d == FrameShift(len)
             q == Move(Seqs(len, new), d)
  <2>1. state = "KNOW_FSTART" /\ trusted' = trusted
    BY <1>8 DEF AlignToFrame, JudgeFrameStart
  <2>2. d \in Nat /\ d = nextFrame - Start(len) /\ d <= Bits(len)
    BY <1>2, <1>8, <2>1, AlignWithinBuffer DEF AlignToFrame
  <2>3. Start(len) + d = nextFrame /\ nextFrame < BitnumSize
    BY <1>1, <1>2, <2>2 DEF Numbers
  <2>4. (Start(len) + d) % BitnumSize = nextFrame BY <1>2, <2>3, ModSmall
  <2>5. /\ q \subseteq Train
        /\ \A t \in q : \E u \in Seqs(len, new) :
             u.type = t.type /\ nextFrame + t.off = Start(len) + u.off
    BY <1>1, <2>2, <2>3, MoveMoves
  <2>6. Bits(len) - d \in Nat /\ nextFrame + (Bits(len) - d) = r
    BY <1>1, <1>2, <2>2
  <2>7. LockedRound(Bits(len) - d, nextFrame, q, (nextFrame + BitsPerTS) % BitnumSize)
    BY <1>8, <2>4 DEF AlignToFrame
  <2>8. (nextFrame + BitsPerTS) % BitnumSize \in Nat BY <1>2, ModRange
  <2>9. Fits(nextFrame + (Bits(len) - d)) BY <2>6 DEF r
  <2> HIDE DEF q, d
  <2>10. /\ state' \in {"LOCKED", "UNLOCKED"}
         /\ startBit' \in {nextFrame, nextFrame + BitsPerTS}
         /\ \A t \in trains' : \E u \in q : u.type = t.type /\ startBit' + t.off = nextFrame + u.off
    BY <1>2, <2>5, <2>6, <2>7, <2>8, <2>9, RoundMoves
  <2>11. TrainsOnGrid(nextFrame, q, r, a) BY <1>1, <1>2, <2>5, TrainsStay
  <2>12. startBit' \in Nat BY <1>2, <2>10
  <2>13. TrainsOnGrid(startBit', trains', r, a) BY <1>2, <2>10, <2>11, <2>12, TrainsStay
  <2>14. trusted' => Grid(startBit', r, a) BY <1>2, <1>3, <1>4, <2>1, <2>10, GridSteps
  <2> QED BY <1>4, <2>10, <2>13, <2>14
<1>9. CASE AlignBeyondBuffer(len, new)
  <2>1. state = "KNOW_FSTART" /\ FrameStarted(len) /\ FrameShift(len) > Bits(len)
    BY <1>9 DEF AlignBeyondBuffer
  <2>2. FrameShift(len) \in Nat /\ FrameShift(len) <= Bits(len)
    BY <1>2, <2>1, AlignWithinBuffer
  <2> QED BY <1>1, <2>1, <2>2
<1>10. CASE ReceiveLocked(len, new)
  <2>1. state = "LOCKED" /\ LockedRound(Bits(len), Start(len), Seqs(len, new), nextFrame)
    BY <1>10 DEF ReceiveLocked
  <2>2. trusted' = trusted BY <2>1 DEF JudgeFrameStart
  <2>3. Start(len) = startBit
    <3>1. bitsInBuf + len <= BitbufSize /\ bitsInBuf \in Nat
      BY <1>2, <2>1 DEF IInv, LockedKeepsUp, Numbers
    <3>2. Drop(len) = 0 BY <3>1 DEF Drop
    <3> QED BY <1>2, <3>2, ModSmall DEF Start, Numbers, Fits
  <2>4. /\ state' \in {"LOCKED", "UNLOCKED"}
        /\ startBit' \in {startBit, startBit + BitsPerTS}
        /\ \A t \in trains' : \E u \in Seqs(len, new) :
             u.type = t.type /\ startBit' + t.off = startBit + u.off
    BY <1>1, <1>2, <2>1, <2>3, RoundMoves DEF r
  <2>5. startBit' \in Nat BY <1>2, <2>4
  <2>6. TrainsOnGrid(startBit', trains', r, a) BY <1>1, <1>2, <2>3, <2>4, <2>5, TrainsStay
  <2>7. trusted' => Grid(startBit', r, a) BY <1>2, <1>3, <1>4, <2>1, <2>2, <2>4, GridSteps
  <2> QED BY <1>4, <2>4, <2>6, <2>7
<1> QED BY <1>5, <1>6, <1>7, <1>8, <1>9, <1>10 DEF SyncIn, new

(* A read from an undisturbed stream.                                      *)
LEMMA ChunkStep ==
  ASSUME AirInv, NEW len \in 1..ReadSize, NEW type, NEW crcOk, ReadChunk(len, type, crcOk)
  PROVE  AirInv'
<1> USE Geometry
<1>1. PICK from \in SeenFrom : SyncIn(len, AirTrains(len, from)) BY DEF ReadChunk
<1>2. /\ airPos' = (airPos + len) % BitsPerTS /\ JudgeFrameStart /\ cut' = cut
  BY DEF ReadChunk, AirAdvance
<1>3. received' = received + len
  BY <1>1 DEF SyncIn, StayUnlocked, FindFrameStart, AwaitFrameStart, AlignToFrame,
              AlignBeyondBuffer, ReceiveLocked, Input
<1>4. /\ received \in Nat /\ airPos \in 0..(BitsPerTS - 1) /\ cut \in Nat /\ cut <= received
      /\ Unwrapped => IInv
  BY DEF AirInv, BeforeWrap
<1>5. /\ received' \in Nat /\ cut' \in Nat /\ cut' <= received'
      /\ airPos' \in 0..(BitsPerTS - 1)
  BY <1>2, <1>3, <1>4, GridStays
<1>6. ASSUME Unwrapped' PROVE Unwrapped /\ Fits(received + len)
  <2>1. Fits(received + len) BY <1>3, <1>6 DEF Unwrapped, Fits
  <2>2. Fits(received) BY <1>4, <2>1, FitsDown
  <2> QED BY <2>1, <2>2 DEF Unwrapped, Fits
<1>7. ASSUME Unwrapped' PROVE IInv'
  <2>1. AirTrains(len, from) \in SUBSET Completed(len) BY <1>6, <1>7, ReadOnGrid
  <2> QED BY <1>1, <1>4, <1>6, <1>7, <2>1, ReceiveInv
<1>8. ASSUME Unwrapped'
      PROVE  /\ TrainsOnGrid(startBit', trains', received', airPos')
             /\ trusted' /\ state' = "LOCKED" => Grid(startBit', received', airPos')
             /\ trusted' /\ state' = "KNOW_FSTART" => Grid(nextFrame', received', airPos')
  BY <1>1, <1>2, <1>3, <1>6, <1>8, ChunkOnGrid
<1>9. TrainsOnGrid(startBit, trains, received, airPos)'
        <=> TrainsOnGrid(startBit', trains', received', airPos')
  BY <1>2 DEF TrainsOnGrid, Grid
<1> QED BY <1>5, <1>7, <1>8, <1>9 DEF AirInv, BeforeWrap, Grid

(* Lost bits: the grid of the base station moves, what is in the buffer    *)
(* does not, and the frame start is no longer trusted.                     *)
LEMMA SlipStep ==
  ASSUME AirInv, NEW n \in 1..(BitsPerTS - 1), Slip(n)
  PROVE  AirInv'
<1> USE Geometry
<1>1. /\ airPos + n < BitsPerTS /\ airPos' = airPos + n /\ cut' = received /\ trusted' = FALSE
      /\ UNCHANGED vars
  BY DEF Slip
<1>2. /\ state' = state /\ bitsInBuf' = bitsInBuf /\ startBit' = startBit
      /\ nextFrame' = nextFrame /\ trains' = trains /\ received' = received
  BY <1>1 DEF vars
<1>3. /\ received \in Nat /\ airPos \in 0..(BitsPerTS - 1) /\ BeforeWrap BY DEF AirInv, BeforeWrap
<1>4. BeforeWrap'
  BY <1>2, <1>3 DEF BeforeWrap, Unwrapped, IInv, Numbers, TrainsInBuffer, SearchedHasNoSync,
                    LockedKeepsUp, FrameStartAhead
<1>5. ASSUME Unwrapped', NEW t \in trains PROVE startBit + t.off < received
  <2>1. /\ startBit + bitsInBuf = received /\ t.off + LenOf(t.type) <= bitsInBuf /\ t \in Train
        /\ startBit \in Nat /\ bitsInBuf \in Nat
    BY <1>2, <1>3, <1>5 DEF BeforeWrap, Unwrapped, IInv, Numbers, TrainsInBuffer
  <2>2. LenOf(t.type) \in Nat /\ LenOf(t.type) > 0 /\ t.off \in Nat BY <2>1 DEF LenOf, Train
  <2> QED BY <2>1, <2>2
<1>6. Unwrapped' => \A t \in trains' : ~(startBit' + t.off >= cut')
  <2> SUFFICES ASSUME Unwrapped', NEW t \in trains' PROVE ~(startBit' + t.off >= cut') OBVIOUS
  <2>1. startBit + t.off < received BY <1>2, <1>5
  <2>2. startBit \in Nat /\ t.off \in Nat
    BY <1>2, <1>3 DEF BeforeWrap, Unwrapped, IInv, Numbers, Train
  <2> QED BY <1>1, <1>2, <1>3, <2>1, <2>2
<1>7. airPos' \in 0..(BitsPerTS - 1) /\ cut' \in Nat /\ cut' <= received' BY <1>1, <1>2, <1>3
<1> QED BY <1>1, <1>4, <1>6, <1>7 DEF AirInv, TrainsOnGrid

LEMMA AirInvariant == AirSpec => []AirInv
<1>1. AirInit => AirInv
  <2> SUFFICES ASSUME AirInit PROVE AirInv OBVIOUS
  <2>1. BeforeWrap BY InitInv DEF AirInit, BeforeWrap, Init
  <2>2. /\ airPos \in 0..(BitsPerTS - 1) /\ cut = 0 /\ received = 0 /\ trains = {}
        /\ state = "UNLOCKED"
    BY DEF AirInit, Init
  <2> QED BY <2>1, <2>2 DEF AirInv, TrainsOnGrid
<1>2. AirInv /\ [AirNext]_linkVars => AirInv'
  <2> SUFFICES ASSUME AirInv, [AirNext]_linkVars PROVE AirInv' OBVIOUS
  <2>1. ASSUME NEW len \in 1..ReadSize, NEW type \in NextTypes, NEW crcOk \in BOOLEAN,
               ReadChunk(len, type, crcOk)
        PROVE  AirInv'
    BY <2>1, ChunkStep
  <2>2. ASSUME NEW n \in 1..(BitsPerTS - 1), Slip(n) PROVE AirInv' BY <2>2, SlipStep
  <2>3. CASE UNCHANGED linkVars
    BY <2>3 DEF linkVars, airVars, vars, AirInv, TrainsOnGrid, BeforeWrap, Unwrapped, IInv,
                Numbers, TrainsInBuffer, SearchedHasNoSync, LockedKeepsUp, FrameStartAhead
  <2> QED BY <2>1, <2>2, <2>3 DEF AirNext
<1> QED BY <1>1, <1>2, PTL DEF AirSpec

(* On a carrier with garbled bursts, lost bits and undecodable blocks, a   *)
(* lock whose frame start was found behind the last loss of bits is a lock *)
(* on the base station's bursts, whatever the sizes of bursts, reads and   *)
(* buffer and the places of the training sequences.                        *)
THEOREM LocksAreOnBursts == AirSpec => [](Unwrapped => FramesAreBursts)
<1>1. AirInv => (Unwrapped => FramesAreBursts)
  <2> SUFFICES ASSUME AirInv, Unwrapped, trusted PROVE FramesAreBursts BY DEF FramesAreBursts
  <2>1. /\ startBit + bitsInBuf = received /\ startBit \in Nat /\ bitsInBuf \in Nat
        /\ nextFrame \in Nat /\ received \in Nat /\ airPos \in Nat
    BY Geometry DEF AirInv, BeforeWrap, IInv, Numbers
  <2>2. startBit - received + airPos = airPos - bitsInBuf BY <2>1
  <2>3. state = "LOCKED" => Aligned BY <2>2 DEF AirInv, Grid, Aligned
  <2>4. state = "KNOW_FSTART" => (nextFrame - received + airPos) % BitsPerTS = 0
    BY DEF AirInv, Grid
  <2> QED BY <2>3, <2>4 DEF FramesAreBursts
<1> QED BY <1>1, AirInvariant, PTL

-----------------------------------------------------------------------------
(* What an undisturbed carrier brings about (AirLink): the lock, and then  *)
(* the time.                                                               *)

(* The sequence of the burst on the air was received with the burst, unless*)
(* its first bits had left a buffer of b bits: a bits were read of it.     *)
Complete(b, q, a) ==
  \A T \in Types :
    airType = T /\ a >= PlaceOf(T) + LenOf(T) /\ b - a + PlaceOf(T) >= 0 =>
      \E t \in q : t.type = T /\ t.off >= b - a + PlaceOf(T)

(* The burst on the air holds sequences of its own type only.              *)
OnAir(st, q, r, a) ==
  \A t \in q : st + t.off >= cut /\ st + t.off >= r - a => t.type = airType

LinkTypes ==
  /\ sinceSync \in 0..SyncPeriod /\ (airType = "NORM" => sinceSync >= 1)
  /\ airType \in Types \cup {"HOLE"} /\ airSlot \in 0..(Cycle - 1) /\ clean \in Nat

(* Nothing of a trusted lock was received before the last loss of bits.    *)
TrustedBehindCut ==
  trusted => /\ state = "KNOW_FSTART" => nextFrame >= cut
             /\ state = "LOCKED" => startBit >= cut

(* A search fails for so long only: until the buffer holds two bursts, of  *)
(* which it has all but the part before the first bit received; and then   *)
(* until a SYNC burst ends.                                                *)
UnlockedSoon ==
  state = "UNLOCKED" =>
    /\ bitsInBuf < 2 * BitsPerTS =>
         /\ clean <= 2
         /\ clean = 1 => airPos < bitsInBuf
         /\ clean = 2 => BitsPerTS + airPos < bitsInBuf
    /\ Seen(trains, {"SYNC"}) = {} =>
         IF airType = "NORM" THEN clean <= sinceSync ELSE clean <= SyncPeriod + 1

(* A frame start that was found comes soon; one on a burst of the carrier  *)
(* with the next burst, unless it passed in the read that found it.        *)
FrameStartSoon ==
  state = "KNOW_FSTART" =>
    /\ clean <= SyncPeriod + 2
    /\ clean = SyncPeriod + 2 => airPos + nextFrame + 2 <= received + BitsPerTS
    /\ trusted => /\ nextFrame + airPos <= received + BitsPerTS
                  /\ \/ clean <= SyncPeriod + 1
                     \/ nextFrame + airPos <= received /\ airPos < ReadSize

(* The clock of a trusted lock is right, or no SYNC burst has gone by.     *)
ClockSoon ==
  state = "LOCKED" /\ trusted =>
    \/ clock = LastTaken
    \/ IF airType = "NORM" THEN clean <= SyncPeriod + 1 + sinceSync
                           ELSE clean <= 2 * SyncPeriod + 2

LinkFacts ==
  /\ Complete(bitsInBuf, trains, airPos)
  /\ OnAir(startBit, trains, received, airPos)
  /\ TrustedBehindCut
  /\ UnlockedSoon /\ FrameStartSoon /\ ClockSoon

LinkInv == AirInv /\ LinkTypes /\ (Unwrapped => LinkFacts)

LEMMA AirGeometry ==
  /\ SyncOffset + NextOffset = BitsPerTS /\ 2 * ReadSize < BitsPerTS
  /\ \A T \in Types : /\ PlaceOf(T) \in Nat /\ LenOf(T) \in Nat /\ LenOf(T) > 0
                      /\ PlaceOf(T) + LenOf(T) <= BitsPerTS
                      /\ ReadSize < PlaceOf(T) + LenOf(T)
                      /\ \A from \in SeenFrom : from \in Nat /\ from <= PlaceOf(T)
  /\ SyncPeriod \in Nat /\ SyncPeriod > 0 /\ Cycle \in Nat /\ Cycle > 0
<1>1. SyncOffset + NextOffset = BitsPerTS /\ 2 * ReadSize < BitsPerTS
  BY Geometry, AirAssumption
<1>2. \A T \in Types : /\ PlaceOf(T) \in Nat /\ LenOf(T) \in Nat /\ LenOf(T) > 0
                       /\ PlaceOf(T) + LenOf(T) <= BitsPerTS
                       /\ ReadSize < PlaceOf(T) + LenOf(T)
  BY Geometry, AirAssumption DEF PlaceOf, LenOf, Types
<1>3. \A T \in Types : \A from \in SeenFrom : from \in Nat /\ from <= PlaceOf(T)
  BY Geometry, GeometryAssumption DEF PlaceOf, Types
<1>4. SyncPeriod \in Nat /\ SyncPeriod > 0 /\ Cycle \in Nat /\ Cycle > 0
  BY AirAssumption
<1> QED BY <1>1, <1>2, <1>3, <1>4

-----------------------------------------------------------------------------
(* The sequences q are those of p behind its first n bits.                 *)
Behind(p, q, n) ==
  /\ q \subseteq Train
  /\ \A t \in q : \E u \in p : u.type = t.type /\ u.from = t.from /\ u.off = t.off + n
  /\ \A u \in p : u.off >= n =>
       \E t \in q : t.type = u.type /\ t.from = u.from /\ t.off = u.off - n

LEMMA MoveBehind ==
  ASSUME NEW q, q \subseteq Train, NEW n \in Nat
  PROVE  Behind(q, Move(q, n), n)
<1>1. ASSUME NEW t \in Move(q, n)
      PROVE  t \in Train /\ \E u \in q : u.type = t.type /\ u.from = t.from /\ u.off = t.off + n
  <2>1. PICK u \in q : u.off >= n /\ t = [u EXCEPT !.off = @ - n] BY DEF Move
  <2>2. u \in Train /\ u.off \in Nat BY DEF Train
  <2>3. t \in Train /\ t.off = u.off - n /\ t.type = u.type /\ t.from = u.from
    BY <2>1, <2>2 DEF Train
  <2> QED BY <2>2, <2>3
<1>2. ASSUME NEW u \in q, u.off >= n
      PROVE  \E t \in Move(q, n) : t.type = u.type /\ t.from = u.from /\ t.off = u.off - n
  <2> DEFINE t == [u EXCEPT !.off = @ - n]
  <2>1. t \in Move(q, n) BY <1>2 DEF Move
  <2>2. t.type = u.type /\ t.from = u.from /\ t.off = u.off - n BY DEF Train
  <2> QED BY <2>1, <2>2
<1> QED BY <1>1, <1>2 DEF Behind

LEMMA BehindNone == ASSUME NEW q, q \subseteq Train PROVE Behind(q, q, 0)
BY DEF Behind, Train

LEMMA BehindBehind ==
  ASSUME NEW p, NEW q, NEW s, p \subseteq Train, NEW n \in Nat, NEW m \in Nat,
         Behind(p, q, n), Behind(q, s, m)
  PROVE  Behind(p, s, n + m)
<1>1. ASSUME NEW t \in s
      PROVE  \E u \in p : u.type = t.type /\ u.from = t.from /\ u.off = t.off + (n + m)
  <2>1. PICK v \in q : v.type = t.type /\ v.from = t.from /\ v.off = t.off + m BY DEF Behind
  <2>2. PICK u \in p : u.type = v.type /\ u.from = v.from /\ u.off = v.off + n BY DEF Behind
  <2>3. t.off \in Nat BY DEF Behind, Train
  <2> QED BY <2>1, <2>2, <2>3
<1>2. ASSUME NEW u \in p, u.off >= n + m
      PROVE  \E t \in s : t.type = u.type /\ t.from = u.from /\ t.off = u.off - (n + m)
  <2>1. u.off \in Nat BY DEF Train
  <2>2. PICK v \in q : v.type = u.type /\ v.from = u.from /\ v.off = u.off - n
    BY <1>2, <2>1 DEF Behind
  <2>3. v.off >= m BY <1>2, <2>1, <2>2
  <2>4. PICK t \in s : t.type = v.type /\ t.from = v.from /\ t.off = v.off - m
    BY <2>3 DEF Behind
  <2> QED BY <2>1, <2>2, <2>4
<1> QED BY <1>1, <1>2 DEF Behind

(* One round of RX_S_LOCKED waits for a burst, or takes one.               *)
LEMMA RoundOutcome ==
  ASSUME NEW b \in Nat, NEW st \in Nat, NEW q, NEW nx \in Nat,
         q \subseteq Train, Fits(st + b), LockedRound(b, st, q, nx)
  PROVE  /\ b < BitsPerTS =>
              /\ state' = "LOCKED" /\ bitsInBuf' = b /\ startBit' = st
              /\ Behind(q, trains', 0) /\ ticked' = FALSE
         /\ b >= BitsPerTS =>
              /\ state' \in {"LOCKED", "UNLOCKED"}
              /\ bitsInBuf' = b - BitsPerTS /\ startBit' = st + BitsPerTS
              /\ Behind(q, trains', BitsPerTS) /\ ticked' = TRUE
<1> USE Geometry
<1>1. CASE b < BitsPerTS
  <2>1. WaitForFrame(b, st, q, nx)
    BY <1>1 DEF LockedRound, GoodFrame, MisplacedNormFrame, LoseLock
  <2> QED BY <1>1, <2>1, BehindNone DEF WaitForFrame, Keep, Quiet
<1>2. CASE b >= BitsPerTS
  <2>1. TakeFrame(b, st, q, nx) /\ state' \in {"LOCKED", "UNLOCKED"}
    BY <1>2 DEF LockedRound, WaitForFrame, GoodFrame, MisplacedNormFrame, LoseLock
  <2>2. (st + BitsPerTS) % BitnumSize = st + BitsPerTS
    BY <1>2, ModSmall DEF Fits
  <2> QED BY <1>2, <2>1, <2>2, MoveBehind DEF TakeFrame, Keep
<1> QED BY <1>1, <1>2

(* One call, by the state it starts in.  Unlocked: nothing leaves the      *)
(* buffer but for want of space.                                           *)
LEMMA CallUnlocked ==
  ASSUME IInv, state = "UNLOCKED", NEW len \in 1..ReadSize, Fits(received + len),
         NEW new, new \in SUBSET Completed(len), SyncIn(len, new)
  PROVE  /\ bitsInBuf' = Bits(len) /\ startBit' = Start(len) /\ trains' = Seqs(len, new)
         /\ ticked' = FALSE /\ burst' = NoBurst /\ state' \in {"UNLOCKED", "KNOW_FSTART"}
         /\ state' = "UNLOCKED" =>
              Bits(len) < 2 * BitsPerTS \/ Seen(Seqs(len, new), {"SYNC"}) = {}
         /\ state' = "KNOW_FSTART" =>
              \E t \in Seqs(len, new) : /\ t.type = "SYNC" /\ t.off + SyncLen <= Bits(len)
                                        /\ nextFrame' = Start(len) + t.off + NextOffset
<1> USE Geometry
<1>1. StayUnlocked(len, new) \/ FindFrameStart(len, new)
  BY DEF SyncIn, AwaitFrameStart, AlignToFrame, AlignBeyondBuffer, ReceiveLocked
<1>2. CASE StayUnlocked(len, new) BY <1>2 DEF StayUnlocked, Keep, Quiet
<1>3. CASE FindFrameStart(len, new)
  <2>1. PICK t \in Seqs(len, new) :
          t.type = "SYNC" /\ nextFrame' = (Start(len) + t.off + NextOffset) % BitnumSize
    BY <1>3 DEF FindFrameStart, IsFirst, Seen
  <2>2. /\ Bits(len) \in Nat /\ Start(len) \in Nat /\ t \in Train
        /\ Start(len) + Bits(len) = received + len /\ t.off + LenOf(t.type) <= Bits(len)
    BY <2>1, Appended DEF IInv, Numbers, Start
  <2>3. t.off \in Nat /\ t.off + SyncLen <= Bits(len) BY <2>1, <2>2 DEF Train, LenOf
  <2>4. Start(len) + t.off + NextOffset \in Nat /\ Start(len) + t.off + NextOffset < BitnumSize
    BY <2>2, <2>3 DEF IInv, Numbers, Fits
  <2>5. nextFrame' = Start(len) + t.off + NextOffset BY <2>1, <2>4, ModSmall
  <2> QED BY <1>3, <2>1, <2>3, <2>5 DEF FindFrameStart, Keep, Quiet
<1> QED BY <1>1, <1>2, <1>3

(* Waiting for the frame start: it is not here yet, or the buffer is       *)
(* aligned to it and a round is done.                                      *)
LEMMA CallAwaiting ==
  ASSUME IInv, state = "KNOW_FSTART", NEW len \in 1..ReadSize, Fits(received + len),
         NEW new, new \in SUBSET Completed(len), SyncIn(len, new)
  PROVE  \/ /\ bitsInBuf' = Bits(len) /\ startBit' = Start(len) /\ trains' = Seqs(len, new)
            /\ ticked' = FALSE /\ burst' = NoBurst
            /\ state' = "KNOW_FSTART" /\ nextFrame' = nextFrame /\ received + len < nextFrame
         \/ \E q : /\ nextFrame - Start(len) \in Nat
                   /\ Behind(Seqs(len, new), q, nextFrame - Start(len))
                   /\ received + len - nextFrame \in Nat
                   /\ received + len - nextFrame < 2 * BitsPerTS
                   /\ LockedRound(received + len - nextFrame, nextFrame, q,
                                  (nextFrame + BitsPerTS) % BitnumSize)
<1> USE Geometry
<1>1. \/ AwaitFrameStart(len, new) \/ AlignToFrame(len, new) \/ AlignBeyondBuffer(len, new)
  BY DEF SyncIn, StayUnlocked, FindFrameStart, ReceiveLocked
<1>2. /\ Bits(len) \in Nat /\ Start(len) \in Nat /\ Seqs(len, new) \subseteq Train
      /\ Start(len) + Bits(len) = received + len
      /\ received \in Nat /\ received + len \in Nat /\ nextFrame \in Nat /\ nextFrame < BitnumSize
  BY Appended DEF IInv, Numbers, Start
<1>3. received + len < BitnumSize BY <1>2 DEF Fits
<1>4. CASE AwaitFrameStart(len, new)
  <2>1. received + len < nextFrame
    BY <1>2, <1>3, <1>4, ModSmall DEF AwaitFrameStart, FrameStarted
  <2> QED BY <1>4, <2>1 DEF AwaitFrameStart, Keep, Quiet
<1>5. CASE AlignToFrame(len, new) \/ AlignBeyondBuffer(len, new)
  <2> DEFINE d == FrameShift(len)
             q == Move(Seqs(len, new), d)
  <2>1. /\ d \in Nat /\ d = nextFrame - Start(len) /\ d <= Bits(len)
        /\ Bits(len) - d < 2 * BitsPerTS
    BY <1>5, AlignWithinBuffer DEF AlignToFrame, AlignBeyondBuffer
  <2>2. AlignToFrame(len, new)
    <3>1. ~(d > Bits(len))
      <4> HIDE DEF d
      <4> QED BY <1>2, <2>1
    <3> QED BY <1>5, <3>1 DEF AlignBeyondBuffer
  <2>3. Behind(Seqs(len, new), q, d) BY <1>2, <2>1, MoveBehind
  <2>4. Start(len) + d = nextFrame BY <1>2, <2>1
  <2>5. LockedRound(Bits(len) - d, (Start(len) + d) % BitnumSize, q,
                    (nextFrame + BitsPerTS) % BitnumSize)
    BY <2>2 DEF AlignToFrame
  <2> HIDE DEF d, q
  <2>6. (Start(len) + d) % BitnumSize = nextFrame BY <1>2, <2>4, ModSmall
  <2>7. Bits(len) - d = received + len - nextFrame BY <1>2, <2>1
  <2>8. received + len - nextFrame \in Nat BY <1>2, <2>1
  <2> QED BY <2>1, <2>3, <2>5, <2>6, <2>7, <2>8
<1> QED BY <1>1, <1>4, <1>5

(* Locked: a round on the whole buffer.                                    *)
LEMMA CallLocked ==
  ASSUME IInv, state = "LOCKED", NEW len \in 1..ReadSize, Fits(received + len),
         NEW new, new \in SUBSET Completed(len), SyncIn(len, new)
  PROVE  /\ Start(len) = startBit /\ Bits(len) = bitsInBuf + len
         /\ LockedRound(bitsInBuf + len, startBit, Seqs(len, new), nextFrame)
<1>1. ReceiveLocked(len, new)
  BY DEF SyncIn, StayUnlocked, FindFrameStart, AwaitFrameStart, AlignToFrame, AlignBeyondBuffer
<1>2. bitsInBuf \in Nat /\ startBit \in Nat /\ bitsInBuf < BitsPerTS
  BY DEF IInv, LockedKeepsUp, Numbers
<1>3. bitsInBuf + len <= BitbufSize BY <1>2, Geometry
<1>4. Start(len) = startBit /\ Bits(len) = bitsInBuf + len
  <2>1. /\ bitsInBuf + len <= BitbufSize => Drop(len) = 0
        /\ Bits(len) = bitsInBuf - Drop(len) + len /\ Start(len) = startBit + Drop(len)
    BY Appended DEF IInv
  <2> QED BY <1>2, <1>3, <2>1
<1> QED BY <1>1, <1>4 DEF ReceiveLocked

(* In any state: what is in the buffer after a call is what is behind the  *)
(* bits that left it.                                                      *)
LEMMA CallBehind ==
  ASSUME IInv, NEW len \in 1..ReadSize, Fits(received + len),
         NEW new, new \in SUBSET Completed(len), SyncIn(len, new)
  PROVE  \E n \in Nat : /\ bitsInBuf' = Bits(len) - n /\ startBit' = Start(len) + n
                        /\ Behind(Seqs(len, new), trains', n)
<1> USE Geometry
<1>1. /\ Bits(len) \in Nat /\ Start(len) \in Nat /\ Seqs(len, new) \subseteq Train
      /\ Start(len) + Bits(len) = received + len
      /\ nextFrame \in Nat /\ received \in Nat /\ bitsInBuf \in Nat /\ startBit \in Nat
  <2>1. nextFrame \in Nat /\ received \in Nat /\ bitsInBuf \in Nat /\ startBit \in Nat
    BY DEF IInv, Numbers
  <2>2. /\ Bits(len) \in Nat /\ Seqs(len, new) \subseteq Train /\ Drop(len) \in Nat
        /\ Start(len) = startBit + Drop(len) /\ Start(len) + Bits(len) = received + len
    BY Appended DEF IInv
  <2> QED BY <2>1, <2>2
<1>2. CASE /\ bitsInBuf' = Bits(len) /\ startBit' = Start(len) /\ trains' = Seqs(len, new)
  BY <1>1, <1>2, BehindNone
<1>3. ASSUME NEW b \in Nat, NEW st \in Nat, NEW q, NEW nx \in Nat, NEW d \in Nat,
             st = Start(len) + d, b = Bits(len) - d, Behind(Seqs(len, new), q, d),
             LockedRound(b, st, q, nx)
      PROVE  \E n \in Nat : /\ bitsInBuf' = Bits(len) - n /\ startBit' = Start(len) + n
                            /\ Behind(Seqs(len, new), trains', n)
  <2>1. q \subseteq Train BY <1>3 DEF Behind
  <2>2. Fits(st + b)
    <3>1. st + b = received + len BY <1>1, <1>3
    <3> QED BY <3>1
  <2>3. PICK m \in {0, BitsPerTS} : /\ bitsInBuf' = b - m /\ startBit' = st + m
                                    /\ Behind(q, trains', m)
    <3>1. /\ b < BitsPerTS => bitsInBuf' = b /\ startBit' = st /\ Behind(q, trains', 0)
          /\ b >= BitsPerTS => /\ bitsInBuf' = b - BitsPerTS /\ startBit' = st + BitsPerTS
                               /\ Behind(q, trains', BitsPerTS)
      BY <1>3, <2>1, <2>2, RoundOutcome
    <3>2. b = b - 0 /\ st = st + 0 BY <1>3
    <3> QED BY <3>1, <3>2
  <2>4. m \in Nat OBVIOUS
  <2>5. Behind(Seqs(len, new), trains', d + m) BY <1>1, <1>3, <2>3, <2>4, BehindBehind
  <2>6. /\ d + m \in Nat /\ bitsInBuf' = Bits(len) - (d + m)
        /\ startBit' = Start(len) + (d + m)
    BY <1>1, <1>3, <2>3, <2>4
  <2> QED BY <2>5, <2>6
<1>4. CASE state = "UNLOCKED" BY <1>2, <1>4, CallUnlocked
<1>5. CASE state = "KNOW_FSTART"
  <2>1. CASE \E q : /\ nextFrame - Start(len) \in Nat
                    /\ Behind(Seqs(len, new), q, nextFrame - Start(len))
                    /\ received + len - nextFrame \in Nat
                    /\ LockedRound(received + len - nextFrame, nextFrame, q,
                                   (nextFrame + BitsPerTS) % BitnumSize)
    <3>1. PICK q : /\ nextFrame - Start(len) \in Nat
                   /\ Behind(Seqs(len, new), q, nextFrame - Start(len))
                   /\ received + len - nextFrame \in Nat
                   /\ LockedRound(received + len - nextFrame, nextFrame, q,
                                  (nextFrame + BitsPerTS) % BitnumSize)
      BY <2>1
    <3>2. (nextFrame + BitsPerTS) % BitnumSize \in Nat BY <1>1, ModRange
    <3>3. /\ nextFrame = Start(len) + (nextFrame - Start(len))
          /\ received + len - nextFrame = Bits(len) - (nextFrame - Start(len))
      BY <1>1
    <3> HIDE DEF Start, Bits
    <3> QED BY <1>1, <1>3, <3>1, <3>2, <3>3
  <2> QED BY <1>2, <1>5, <2>1, CallAwaiting
<1>6. CASE state = "LOCKED"
  <2>1. /\ Start(len) = startBit /\ Bits(len) = bitsInBuf + len
        /\ LockedRound(bitsInBuf + len, startBit, Seqs(len, new), nextFrame)
    BY <1>6, CallLocked
  <2>2. Behind(Seqs(len, new), Seqs(len, new), 0) BY <1>1, BehindNone
  <2>3. Start(len) = Start(len) + 0 /\ Bits(len) = Bits(len) - 0 BY <1>1
  <2> QED BY <1>1, <1>3, <2>1, <2>2, <2>3
<1> QED BY <1>4, <1>5, <1>6 DEF IInv, Numbers

-----------------------------------------------------------------------------
(* What a read does to the burst on the air and to the count of bursts.    *)
LEMMA AirMoves ==
  ASSUME airPos \in 0..(BitsPerTS - 1), LinkTypes, NEW len \in 1..ReadSize,
         NEW type \in NextTypes, NEW crcOk \in BOOLEAN, AirAdvance(len, type, crcOk)
  PROVE  /\ ~AirEnds(len) => /\ airPos' = airPos + len /\ airType' = airType
                             /\ airSlot' = airSlot /\ sinceSync' = sinceSync
         /\ AirEnds(len) => /\ airPos' = airPos + len - BitsPerTS /\ airPos' < ReadSize
                            /\ airType' = type /\ airSlot' = (airSlot + 1) % Cycle
                            /\ airType' = "NORM" => sinceSync' = sinceSync + 1
         /\ airPos' \in Nat /\ airPos' < BitsPerTS
         /\ sinceSync' \in 0..SyncPeriod /\ (airType' = "NORM" => sinceSync' >= 1)
         /\ airType' \in Types \cup {"HOLE"} /\ airSlot' \in 0..(Cycle - 1)
         /\ clean' \in Nat
         /\ \/ clean' \in {0, clean}
            \/ clean' = clean + 1 /\ AirEnds(len) /\ airType # "HOLE"
         /\ ~crcOk \/ LockLost => clean' = 0
<1> USE Geometry, AirGeometry
<1>1. airPos \in Nat /\ len \in Nat /\ len <= ReadSize /\ airPos + len < 2 * BitsPerTS
  OBVIOUS
<1>0. airPos' = (airPos + len) % BitsPerTS BY DEF AirAdvance
<1>2. CASE ~AirEnds(len)
  <2>1. airPos + len < BitsPerTS BY <1>1, <1>2 DEF AirEnds
  <2>2. airPos' = airPos + len
    <3>1. airPos + len \in Nat BY <1>1
    <3> QED BY <1>0, <2>1, <3>1, ModSmall
  <2>3. airType' = airType /\ airSlot' = airSlot /\ sinceSync' = sinceSync
    BY <1>2 DEF AirAdvance
  <2>4. /\ clean' \in {0, clean}
        /\ ~crcOk \/ LockLost => clean' = 0
    BY <1>2 DEF AirAdvance, Disturbed
  <2> QED BY <1>1, <1>2, <2>1, <2>2, <2>3, <2>4 DEF LinkTypes
<1>3. CASE AirEnds(len)
  <2>1. airPos + len - BitsPerTS \in Nat /\ airPos + len - BitsPerTS < BitsPerTS
    BY <1>1, <1>3 DEF AirEnds
  <2>2. airPos + len = BitsPerTS * 1 + (airPos + len - BitsPerTS) BY <1>1
  <2>3. airPos' = airPos + len - BitsPerTS
    <3>1. \A r \in Nat : r < BitsPerTS => (BitsPerTS * 1 + r) % BitsPerTS = r BY ModUnique
    <3> QED BY <1>0, <2>1, <2>2, <3>1
  <2>4. /\ airType' = type /\ airSlot' = (airSlot + 1) % Cycle
        /\ sinceSync' = IF type = "NORM" THEN sinceSync + 1 ELSE 0
    BY <1>3 DEF AirAdvance
  <2>5. airSlot' \in 0..(Cycle - 1)
    <3>1. airSlot + 1 \in Int BY DEF LinkTypes
    <3>2. (airSlot + 1) % Cycle \in Nat /\ (airSlot + 1) % Cycle < Cycle BY <3>1, ModRange
    <3> QED BY <2>4, <3>2
  <2>6. /\ sinceSync' \in 0..SyncPeriod /\ (airType' = "NORM" => sinceSync' >= 1)
        /\ airType' \in Types \cup {"HOLE"}
    BY <2>4 DEF LinkTypes, NextTypes, Types
  <2>7. /\ \/ clean' \in {0, clean}
           \/ clean' = clean + 1 /\ AirEnds(len) /\ airType # "HOLE"
        /\ ~crcOk \/ LockLost => clean' = 0
    BY <1>3 DEF AirAdvance, Disturbed
  <2>8. clean' \in Nat BY <2>7 DEF LinkTypes
  <2> QED BY <1>1, <1>3, <2>1, <2>3, <2>4, <2>5, <2>6, <2>7, <2>8
<1> QED BY <1>2, <1>3

(* The buffer a call works on: the burst on the air is in it.              *)
LEMMA CallTrains ==
  ASSUME AirInv, Unwrapped, LinkFacts, NEW len \in 1..ReadSize, NEW from \in SeenFrom,
         Fits(received + len), airPos \in Nat
  PROVE  LET q == Seqs(len, AirTrains(len, from))
         IN  /\ Complete(Bits(len), q, airPos + len)
             /\ OnAir(Start(len), q, received + len, airPos + len)
<1> USE Geometry, AirGeometry
<1> DEFINE new == AirTrains(len, from)
           q == Seqs(len, new)
<1>0. IInv /\ Numbers /\ TrainsInBuffer BY DEF AirInv, BeforeWrap, IInv
<1>1. /\ received \in Nat /\ bitsInBuf \in Nat /\ startBit \in Nat /\ trains \subseteq Train
      /\ startBit + bitsInBuf = received /\ cut \in Nat
  BY <1>0 DEF Numbers, AirInv
<1>2. /\ Drop(len) \in Nat /\ Bits(len) \in Nat /\ Bits(len) = bitsInBuf - Drop(len) + len
      /\ Start(len) = startBit + Drop(len) /\ Start(len) + Bits(len) = received + len
  BY <1>0, Appended
<1>3. Behind(trains, Move(trains, Drop(len)), Drop(len)) BY <1>1, <1>2, MoveBehind
<1>4. ASSUME NEW T \in Types, airType = T, airPos + len >= PlaceOf(T) + LenOf(T),
             Bits(len) - (airPos + len) + PlaceOf(T) >= 0
      PROVE  \E t \in q : t.type = T /\ t.off >= Bits(len) - (airPos + len) + PlaceOf(T)
  <2>1. CASE airPos >= PlaceOf(T) + LenOf(T)
    <3>1. bitsInBuf - airPos + PlaceOf(T) >= 0 BY <1>1, <1>2, <1>4
    <3>2. PICK u \in trains : u.type = T /\ u.off >= bitsInBuf - airPos + PlaceOf(T)
      BY <1>4, <2>1, <3>1 DEF LinkFacts, Complete
    <3>3. u.off \in Nat BY <1>1 DEF Train
    <3>4. u.off >= Drop(len) BY <1>1, <1>2, <1>4, <3>2, <3>3
    <3>5. PICK t \in Move(trains, Drop(len)) : t.type = u.type /\ t.off = u.off - Drop(len)
      BY <1>3, <3>4 DEF Behind
    <3>6. t.off >= Bits(len) - (airPos + len) + PlaceOf(T) BY <1>1, <1>2, <3>2, <3>3, <3>5
    <3> QED BY <3>2, <3>5, <3>6 DEF Seqs
  <2>2. CASE airPos < PlaceOf(T) + LenOf(T)
    <3> DEFINE t == [off |-> AirTrainOff(len, T), type |-> T, from |-> from]
    <3>1. PlaceOf(T) + LenOf(T) \in (airPos + 1)..(airPos + len) BY <1>4, <2>2
    <3>2. AirTrainOff(len, T) >= 0 BY <1>4 DEF AirTrainOff
    <3>3. t \in new BY <1>4, <3>1, <3>2 DEF AirTrains
    <3>4. t.off = Bits(len) - (airPos + len) + PlaceOf(T) BY DEF AirTrainOff
    <3>5. t.off >= Bits(len) - (airPos + len) + PlaceOf(T) BY <1>2, <3>4
    <3> QED BY <3>3, <3>5 DEF Seqs
  <2> QED BY <2>1, <2>2
<1>5. ASSUME NEW t \in q, Start(len) + t.off >= cut,
             Start(len) + t.off >= (received + len) - (airPos + len)
      PROVE  t.type = airType
  <2>1. CASE t \in new BY <2>1 DEF AirTrains
  <2>2. CASE t \in Move(trains, Drop(len))
    <3>1. PICK u \in trains : u.type = t.type /\ u.off = t.off + Drop(len)
      BY <1>3, <2>2 DEF Behind
    <3>2. t.off \in Nat BY <1>3, <2>2 DEF Behind, Train
    <3>3. startBit + u.off = Start(len) + t.off BY <1>1, <1>2, <3>1, <3>2
    <3>4. (received + len) - (airPos + len) = received - airPos BY <1>1
    <3>5. startBit + u.off >= cut /\ startBit + u.off >= received - airPos
      BY <1>5, <3>3, <3>4
    <3> QED BY <3>1, <3>5 DEF LinkFacts, OnAir
  <2> QED BY <2>1, <2>2 DEF Seqs
<1> QED BY <1>4, <1>5 DEF Complete, OnAir

(* Two starts of bursts less than a burst apart are the same.              *)
LEMMA ModZero ==
  ASSUME NEW w \in Nat, w > 0, NEW x \in Int, x % w = 0, -w < x, x < w
  PROVE  x = 0
<1>1. CASE x >= 0 BY <1>1, ModSmall
<1>2. CASE x < 0
  <2>1. x + w \in Nat /\ x + w < w BY <1>2
  <2>2. (x + w) % w = 0 BY ModShift
  <2>3. (x + w) % w = x + w BY <2>1, ModSmall
  <2> QED BY <2>2, <2>3
<1> QED BY <1>1, <1>2

(* After the call, too, the burst on the air is in the buffer.             *)
LEMMA LinkTrains ==
  ASSUME AirInv, LinkTypes, Unwrapped, LinkFacts, AirInv', Unwrapped',
         NEW len \in 1..ReadSize, NEW from \in SeenFrom, Fits(received + len),
         NEW type \in NextTypes, NEW crcOk \in BOOLEAN, received' = received + len,
         SyncIn(len, AirTrains(len, from)), AirAdvance(len, type, crcOk), cut' = cut
  PROVE  /\ Complete(bitsInBuf, trains, airPos)'
         /\ OnAir(startBit, trains, received, airPos)'
<1> USE Geometry, AirGeometry
<1> DEFINE q == Seqs(len, AirTrains(len, from))
<1>1. /\ IInv /\ airPos \in 0..(BitsPerTS - 1) /\ received \in Nat /\ airPos \in Nat
  BY DEF AirInv, BeforeWrap, IInv, Numbers
<1>2. AirTrains(len, from) \in SUBSET Completed(len) BY ReadOnGrid
<1>3. /\ Complete(Bits(len), q, airPos + len)
      /\ OnAir(Start(len), q, received + len, airPos + len)
  BY <1>1, CallTrains
<1>4. PICK n \in Nat : /\ bitsInBuf' = Bits(len) - n /\ startBit' = Start(len) + n
                       /\ Behind(q, trains', n)
  BY <1>1, <1>2, CallBehind
<1>5. /\ Bits(len) \in Nat /\ Start(len) \in Nat /\ q \subseteq Train
      /\ Start(len) + Bits(len) = received + len
  BY ReadOnGrid
<1>6. /\ ~AirEnds(len) => airPos' = airPos + len /\ airType' = airType
      /\ AirEnds(len) => airPos' = airPos + len - BitsPerTS /\ airPos' < ReadSize
      /\ airPos' \in Nat /\ airPos' < BitsPerTS
  BY <1>1, AirMoves
<1> HIDE DEF q
<1>7. ASSUME NEW T \in Types, airType' = T, airPos' >= PlaceOf(T) + LenOf(T),
             bitsInBuf' - airPos' + PlaceOf(T) >= 0
      PROVE  \E t \in trains' : t.type = T /\ t.off >= bitsInBuf' - airPos' + PlaceOf(T)
  <2>1. airPos' = airPos + len /\ airType' = airType BY <1>6, <1>7
  <2>2. Bits(len) - (airPos + len) + PlaceOf(T) >= n BY <1>1, <1>4, <1>5, <1>7, <2>1
  <2>3. PICK u \in q : u.type = T /\ u.off >= Bits(len) - (airPos + len) + PlaceOf(T)
    BY <1>1, <1>3, <1>5, <1>7, <2>1, <2>2 DEF Complete
  <2>4. u.off \in Nat BY <1>5 DEF Train
  <2>5. u.off >= n BY <1>1, <1>5, <2>2, <2>3, <2>4
  <2>6. PICK t \in trains' : t.type = u.type /\ t.off = u.off - n BY <1>4, <2>5 DEF Behind
  <2>7. t.off >= bitsInBuf' - airPos' + PlaceOf(T) BY <1>1, <1>4, <1>5, <2>1, <2>3, <2>4, <2>6
  <2> QED BY <2>3, <2>6, <2>7
<1>8. ASSUME NEW t \in trains', startBit' + t.off >= cut,
             startBit' + t.off >= received' - airPos'
      PROVE  t.type = airType'
  <2>1. PICK u \in q : u.type = t.type /\ u.off = t.off + n BY <1>4 DEF Behind
  <2>2. t \in Train /\ t.off \in Nat /\ t.type \in Types BY <1>4 DEF Behind, Train
  <2>3. Start(len) + u.off = startBit' + t.off BY <1>4, <1>5, <2>1, <2>2
  <2>4. CASE ~AirEnds(len)
    <3>1. Start(len) + u.off >= (received + len) - (airPos + len)
      BY <1>1, <1>6, <1>8, <2>3, <2>4
    <3> QED BY <1>3, <1>6, <1>8, <2>1, <2>3, <2>4, <3>1 DEF OnAir
  <2>5. CASE AirEnds(len)
    <3> DEFINE x == (startBit' + t.off) - PlaceOf(t.type) - received' + airPos'
    <3>1. x % BitsPerTS = 0
      BY <1>8 DEF AirInv, TrainsOnGrid, Grid
    <3>2. /\ t.off + LenOf(t.type) <= bitsInBuf' /\ startBit' + bitsInBuf' = received'
          /\ startBit' \in Nat /\ bitsInBuf' \in Nat /\ received' \in Nat
      BY DEF AirInv, BeforeWrap, IInv, Numbers, TrainsInBuffer
    <3>3. /\ PlaceOf(t.type) \in Nat /\ LenOf(t.type) \in Nat /\ LenOf(t.type) > 0
          /\ PlaceOf(t.type) + LenOf(t.type) <= BitsPerTS
          /\ ReadSize < PlaceOf(t.type) + LenOf(t.type)
      BY <2>2
    <3>4. x \in Int /\ -BitsPerTS < x /\ x < 0 BY <1>6, <1>8, <2>2, <2>5, <3>2, <3>3
    <3> HIDE DEF x
    <3>5. x = 0 BY <3>1, <3>4, ModZero
    <3> QED BY <3>4, <3>5
  <2> QED BY <2>4, <2>5
<1> QED BY <1>7, <1>8 DEF Complete, OnAir

-----------------------------------------------------------------------------
(* A read of main, with the training sequence it completes seen from from. *)
ChunkFrom(len, from, type, crcOk) ==
  /\ SyncIn(len, AirTrains(len, from)) /\ AirAdvance(len, type, crcOk)
  /\ ~crcOk => SyncTaken
  /\ KeepTime(crcOk) /\ JudgeFrameStart /\ cut' = cut /\ received' = received + len

(* What all such reads have in common.                                     *)
LEMMA ChunkFacts ==
  ASSUME LinkInv, AirInv', Unwrapped', Unwrapped, NEW len \in 1..ReadSize, NEW from \in SeenFrom,
         Fits(received + len), NEW type \in NextTypes, NEW crcOk \in BOOLEAN,
         ChunkFrom(len, from, type, crcOk)
  PROVE  LET new == AirTrains(len, from)
             q   == Seqs(len, new)
         IN  /\ IInv /\ IInv' /\ LinkTypes /\ LinkFacts /\ AirInv
             /\ airPos \in Nat /\ airPos < BitsPerTS /\ received \in Nat /\ bitsInBuf \in Nat
             /\ startBit \in Nat /\ startBit + bitsInBuf = received /\ nextFrame \in Nat
             /\ cut \in Nat /\ cut' = cut /\ trains \subseteq Train
             /\ received' = received + len /\ startBit' + bitsInBuf' = received'
             /\ startBit' \in Nat /\ bitsInBuf' \in Nat /\ nextFrame' \in Nat
             /\ new \in SUBSET Completed(len) /\ q \subseteq Train
             /\ Bits(len) \in Nat /\ Start(len) \in Nat /\ Start(len) + Bits(len) = received + len
             /\ bitsInBuf + len <= BitbufSize => Bits(len) = bitsInBuf + len /\ Drop(len) = 0
             /\ bitsInBuf + len > BitbufSize => Bits(len) = BitbufSize
             /\ Complete(Bits(len), q, airPos + len)
             /\ OnAir(Start(len), q, received + len, airPos + len)
             /\ SyncIn(len, new)
<1> USE Geometry
<1> DEFINE new == AirTrains(len, from)
           q == Seqs(len, new)
<1>1. AirInv /\ LinkTypes /\ LinkFacts BY DEF LinkInv
<1>2. /\ IInv /\ IInv' /\ Numbers /\ Numbers' /\ TrainsInBuffer /\ cut \in Nat
      /\ airPos \in Nat /\ airPos < BitsPerTS
  BY <1>1 DEF AirInv, BeforeWrap, IInv
<1>3. /\ received \in Nat /\ bitsInBuf \in Nat /\ startBit \in Nat /\ startBit + bitsInBuf = received
      /\ nextFrame \in Nat /\ trains \subseteq Train
      /\ startBit' \in Nat /\ bitsInBuf' \in Nat /\ startBit' + bitsInBuf' = received'
      /\ nextFrame' \in Nat
  BY <1>2 DEF Numbers
<1>4. /\ new \in SUBSET Completed(len) /\ q \subseteq Train
      /\ Bits(len) \in Nat /\ Start(len) \in Nat /\ Start(len) + Bits(len) = received + len
  BY <1>1, ReadOnGrid
<1>5. /\ bitsInBuf + len <= BitbufSize => Drop(len) = 0
      /\ bitsInBuf + len > BitbufSize => Bits(len) = BitbufSize
      /\ Bits(len) = bitsInBuf - Drop(len) + len
  BY <1>2, <1>4, Appended
<1>6. /\ Complete(Bits(len), q, airPos + len)
      /\ OnAir(Start(len), q, received + len, airPos + len)
  BY <1>1, <1>2, CallTrains
<1>7. SyncIn(len, new) /\ cut' = cut /\ received' = received + len BY DEF ChunkFrom
<1>8. bitsInBuf + len <= BitbufSize => Bits(len) = bitsInBuf + len BY <1>3, <1>5
<1> HIDE DEF new, q
<1> QED BY <1>1, <1>2, <1>3, <1>4, <1>5, <1>6, <1>7, <1>8 DEF new, q

(* A search has failed for at most SyncPeriod + 1 bursts.                  *)
LEMMA UnlockedClean ==
  ASSUME IInv, LinkTypes, UnlockedSoon, state = "UNLOCKED"
  PROVE  clean <= SyncPeriod + 1
<1>1. SyncPeriod \in Nat /\ SyncPeriod > 0 /\ clean \in Nat /\ sinceSync \in 0..SyncPeriod
  BY AirGeometry DEF LinkTypes
<1>2. CASE Seen(trains, {"SYNC"}) = {} BY <1>1, <1>2 DEF UnlockedSoon
<1>3. CASE Seen(trains, {"SYNC"}) # {}
  <2>1. ~(bitsInBuf >= 2 * BitsPerTS) BY <1>3 DEF IInv, SearchedHasNoSync
  <2>2. bitsInBuf < 2 * BitsPerTS BY <2>1, Geometry DEF IInv, Numbers
  <2> QED BY <1>1, <2>2 DEF UnlockedSoon
<1> QED BY <1>2, <1>3

(* A search that fails.                                                    *)
LEMMA SearchFails ==
  ASSUME LinkInv, AirInv', Unwrapped', Unwrapped, NEW len \in 1..ReadSize, NEW from \in SeenFrom,
         Fits(received + len), NEW type \in NextTypes, NEW crcOk \in BOOLEAN,
         ChunkFrom(len, from, type, crcOk), state = "UNLOCKED", state' = "UNLOCKED"
  PROVE  UnlockedSoon'
<1> USE Geometry, AirGeometry
<1> DEFINE new == AirTrains(len, from)
           q == Seqs(len, new)
<1>1. /\ IInv /\ LinkTypes /\ LinkFacts /\ airPos \in Nat /\ airPos < BitsPerTS
      /\ bitsInBuf \in Nat /\ trains \subseteq Train /\ Bits(len) \in Nat /\ q \subseteq Train
      /\ bitsInBuf + len <= BitbufSize => Bits(len) = bitsInBuf + len /\ Drop(len) = 0
      /\ bitsInBuf + len > BitbufSize => Bits(len) = BitbufSize
      /\ Complete(Bits(len), q, airPos + len)
      /\ new \in SUBSET Completed(len) /\ SyncIn(len, new)
  BY ChunkFacts
<1>2. bitsInBuf' = Bits(len) /\ trains' = q BY <1>1, CallUnlocked
<1>3. /\ ~AirEnds(len) => airPos' = airPos + len /\ airType' = airType /\ sinceSync' = sinceSync
      /\ AirEnds(len) => /\ airPos' = airPos + len - BitsPerTS
                         /\ airType' = "NORM" => sinceSync' = sinceSync + 1
      /\ airPos' \in Nat /\ airPos' < BitsPerTS
      /\ sinceSync' \in 0..SyncPeriod /\ (airType' = "NORM" => sinceSync' >= 1)
      /\ clean' \in Nat
      /\ clean' \in {0, clean} \/ (clean' = clean + 1 /\ AirEnds(len) /\ airType # "HOLE")
  <2>1. airPos \in 0..(BitsPerTS - 1) BY <1>1
  <2>2. AirAdvance(len, type, crcOk) BY DEF ChunkFrom
  <2> QED BY <1>1, <2>1, <2>2, AirMoves
<1>4. /\ clean \in Nat /\ sinceSync \in 0..SyncPeriod /\ airType \in {"SYNC", "NORM", "HOLE"}
      /\ AirEnds(len) => airPos + len >= BitsPerTS
      /\ bitsInBuf < 2 * BitsPerTS =>
           clean <= 2 /\ (clean = 1 => airPos < bitsInBuf)
                      /\ (clean = 2 => BitsPerTS + airPos < bitsInBuf)
  BY <1>1 DEF LinkTypes, Types, AirEnds, LinkFacts, UnlockedSoon
<1> HIDE DEF q, new
<1>5. ASSUME Bits(len) < 2 * BitsPerTS PROVE Bits(len) = bitsInBuf + len /\ bitsInBuf < 2 * BitsPerTS
  BY <1>1, <1>5
<1>6. ASSUME bitsInBuf' < 2 * BitsPerTS
      PROVE  /\ clean' <= 2
             /\ clean' = 1 => airPos' < bitsInBuf'
             /\ clean' = 2 => BitsPerTS + airPos' < bitsInBuf'
  <2>1. bitsInBuf' = bitsInBuf + len /\ bitsInBuf < 2 * BitsPerTS BY <1>2, <1>5, <1>6
  <2>2. airPos' <= airPos + len BY <1>1, <1>3
  <2>3. CASE clean' = 0 BY <2>3
  <2>6. PICK a \in Nat : airPos' = a BY <1>3
  <2>7. clean <= 2 /\ (clean = 1 => airPos < bitsInBuf) /\ (clean = 2 => BitsPerTS + airPos < bitsInBuf)
    BY <1>4, <2>1
  <2>4. CASE clean' = clean BY <1>1, <1>4, <2>1, <2>2, <2>4, <2>6, <2>7
  <2>5. CASE clean' = clean + 1 /\ AirEnds(len)
    BY <1>1, <1>3, <1>4, <1>6, <2>1, <2>2, <2>5
  <2> QED BY <1>3, <2>3, <2>4, <2>5
<1>7. ASSUME Seen(trains', {"SYNC"}) = {}
      PROVE  IF airType' = "NORM" THEN clean' <= sinceSync' ELSE clean' <= SyncPeriod + 1
  <2>1. Seen(trains, {"SYNC"}) = {}
    <3>1. CASE Drop(len) = 0
      <4>1. Behind(trains, Move(trains, 0), 0) BY <1>1, MoveBehind
      <4>2. ASSUME NEW u \in Seen(trains, {"SYNC"}) PROVE FALSE
        <5>1. u \in trains /\ u.type = "SYNC" /\ u.off >= u.from BY DEF Seen
        <5>2. u.off \in Nat /\ u.from \in Nat BY <1>1, <5>1, SeenFromNat DEF Train
        <5>3. PICK t \in Move(trains, 0) : t.type = u.type /\ t.from = u.from /\ t.off = u.off - 0
          BY <4>1, <5>1, <5>2 DEF Behind
        <5>4. t.off >= t.from BY <5>1, <5>2, <5>3
        <5>5. t \in q BY <3>1, <5>3 DEF q, Seqs
        <5> QED BY <1>2, <1>7, <5>1, <5>3, <5>4, <5>5 DEF Seen
      <4> QED BY <4>2
    <3>2. CASE Drop(len) # 0
      <4>1. bitsInBuf >= 2 * BitsPerTS BY <1>1, <3>2
      <4> QED BY <1>1, <4>1 DEF IInv, SearchedHasNoSync
    <3> QED BY <3>1, <3>2
  <2>2. IF airType = "NORM" THEN clean <= sinceSync ELSE clean <= SyncPeriod + 1
    BY <1>1, <2>1 DEF LinkFacts, UnlockedSoon
  <2>3. ASSUME AirEnds(len), airType = "SYNC" PROVE clean = 0
    <3>1. Bits(len) < airPos + len
      <4> SUFFICES ASSUME Bits(len) >= airPos + len PROVE FALSE BY <1>1
      <4>0. "SYNC" \in Types BY DEF Types
      <4>1. airPos + len >= PlaceOf("SYNC") + LenOf("SYNC") BY <1>1, <1>4, <2>3, <4>0
      <4>2. Bits(len) - (airPos + len) + PlaceOf("SYNC") >= PlaceOf("SYNC") BY <1>1, <4>0
      <4>3. Bits(len) - (airPos + len) + PlaceOf("SYNC") >= 0 BY <1>1, <4>0, <4>2
      <4>4. PICK t \in q : /\ t.type = "SYNC"
                           /\ t.off >= Bits(len) - (airPos + len) + PlaceOf("SYNC")
        BY <1>1, <2>3, <4>0, <4>1, <4>3 DEF Complete
      <4>5. t.off \in Nat /\ t.from \in SeenFrom BY <1>1, <4>4 DEF Train
      <4>6. t.from \in Nat /\ t.from <= PlaceOf("SYNC") BY <4>0, <4>5
      <4>7. t.off >= t.from BY <1>1, <4>0, <4>2, <4>4, <4>5, <4>6
      <4> QED BY <1>2, <1>7, <4>4, <4>7 DEF Seen
    <3>2. Bits(len) < 2 * BitsPerTS BY <1>1, <3>1
    <3>3. bitsInBuf < airPos /\ bitsInBuf < 2 * BitsPerTS BY <1>1, <1>5, <3>1, <3>2
    <3> QED BY <1>1, <1>4, <3>3
  <2>4. CASE clean' = 0 BY <1>3, <2>4
  <2>5. CASE ~AirEnds(len) /\ clean' = clean BY <1>3, <2>2, <2>5
  <2>6. CASE AirEnds(len) /\ clean' \in {clean, clean + 1} /\ airType = "NORM"
    BY <1>3, <1>4, <2>2, <2>6
  <2>7. CASE AirEnds(len) /\ clean' \in {clean, clean + 1} /\ airType = "SYNC"
    BY <1>3, <1>4, <2>3, <2>7
  <2>8. CASE AirEnds(len) /\ airType = "HOLE"
    <3>1. clean' = 0 BY <2>8 DEF ChunkFrom, AirAdvance, Disturbed
    <3> QED BY <2>4, <3>1
  <2> QED BY <1>3, <1>4, <2>4, <2>5, <2>6, <2>7, <2>8
<1> QED BY <1>6, <1>7 DEF UnlockedSoon

(* The search that finds a SYNC burst.                                     *)
LEMMA SearchFinds ==
  ASSUME LinkInv, AirInv', Unwrapped', Unwrapped, NEW len \in 1..ReadSize, NEW from \in SeenFrom,
         Fits(received + len), NEW type \in NextTypes, NEW crcOk \in BOOLEAN,
         ChunkFrom(len, from, type, crcOk), state = "UNLOCKED", state' = "KNOW_FSTART"
  PROVE  FrameStartSoon' /\ TrustedBehindCut'
<1> USE Geometry
<1>0. SyncPeriod \in Nat /\ SyncPeriod > 0 /\ SyncOffset + NextOffset = BitsPerTS
  BY AirGeometry
<1> DEFINE new == AirTrains(len, from)
           q == Seqs(len, new)
<1>1. /\ IInv /\ LinkTypes /\ LinkFacts /\ airPos \in Nat /\ airPos < BitsPerTS
      /\ received \in Nat /\ q \subseteq Train /\ Bits(len) \in Nat /\ Start(len) \in Nat
      /\ Start(len) + Bits(len) = received + len /\ cut \in Nat /\ cut' = cut
      /\ received' = received + len /\ nextFrame' \in Nat
      /\ new \in SUBSET Completed(len) /\ SyncIn(len, new)
  BY ChunkFacts
<1>2. /\ startBit' = Start(len) /\ trains' = q
      /\ \E t \in q : /\ t.type = "SYNC" /\ t.off + SyncLen <= Bits(len)
                      /\ nextFrame' = Start(len) + t.off + NextOffset
  BY <1>1, CallUnlocked
<1>3. PICK t \in q : /\ t.type = "SYNC" /\ t.off + SyncLen <= Bits(len)
                     /\ nextFrame' = Start(len) + t.off + NextOffset
  BY <1>2
<1>4. /\ AirEnds(len) => airPos' < ReadSize
      /\ airPos' \in Nat /\ airPos' < BitsPerTS /\ clean' \in Nat /\ clean \in Nat
      /\ clean' \in {0, clean} \/ (clean' = clean + 1 /\ AirEnds(len))
  <2>1. airPos \in 0..(BitsPerTS - 1) /\ clean \in Nat BY <1>1 DEF LinkTypes
  <2>2. AirAdvance(len, type, crcOk) BY DEF ChunkFrom
  <2> QED BY <1>1, <2>1, <2>2, AirMoves
<1>5. clean <= SyncPeriod + 1 BY <1>1, UnlockedClean DEF LinkFacts
<1>6. trusted' => nextFrame' - NextOffset >= cut BY DEF ChunkFrom, JudgeFrameStart
<1>7. t.off \in Nat /\ t \in trains' BY <1>1, <1>2 DEF Train
<1>8. t.type = "SYNC" => PlaceOf(t.type) = SyncOffset BY DEF PlaceOf
<1> DEFINE x == (Start(len) + t.off) - SyncOffset - received' + airPos'
<1>9. nextFrame' - received' + airPos' = x + BitsPerTS BY <1>0, <1>1, <1>3, <1>4, <1>7
<1>10. x + SyncOffset + SyncLen <= airPos' BY <1>1, <1>3, <1>4, <1>7
<1>11. x \in Int BY <1>1, <1>4, <1>7
<1>12. ASSUME trusted' PROVE x % BitsPerTS = 0 /\ x <= 0
  <2>1. startBit' + t.off >= cut' BY <1>1, <1>2, <1>3, <1>6, <1>7, <1>12
  <2>2. x % BitsPerTS = 0
    <3>1. Grid((startBit' + t.off) - PlaceOf(t.type), received', airPos')
      BY <1>7, <2>1 DEF AirInv, TrainsOnGrid, Grid
    <3> QED BY <1>2, <1>3, <1>8, <3>1 DEF Grid
  <2> HIDE DEF x
  <2>3. x < BitsPerTS BY <1>4, <1>10, <1>11
  <2>4. x > -BitsPerTS => x = 0 BY <1>11, <2>2, <2>3, ModZero
  <2> QED BY <1>11, <2>2, <2>4
<1> HIDE DEF x, q, new
<1>13. clean' <= SyncPeriod + 2 BY <1>0, <1>4, <1>5
<1>14. clean' = SyncPeriod + 2 => airPos' < ReadSize BY <1>0, <1>4, <1>5
<1>18. PICK r \in Nat : received' = r BY <1>1
<1>19. PICK a \in Nat : airPos' = a BY <1>4
<1>20. PICK nx \in Nat : nextFrame' = nx BY <1>1
<1>21. PICK c \in Nat : clean' = c BY <1>4
<1>15. clean' = SyncPeriod + 2 => airPos' + nextFrame' + 2 <= received' + BitsPerTS
  <2>1. airPos' < ReadSize => airPos' <= SyncOffset + SyncLen - 2
    <3>1. ReadSize < SyncOffset + SyncLen BY AirAssumption
    <3> QED BY <1>4, <3>1
  <2>2. received' - nextFrame' >= SyncLen - NextOffset BY <1>1, <1>3, <1>7
  <2> QED BY <1>0, <1>14, <1>18, <1>19, <1>20, <1>21, <2>1, <2>2
<1>16. ASSUME trusted'
       PROVE  /\ nextFrame' + airPos' <= received' + BitsPerTS
              /\ \/ clean' <= SyncPeriod + 1
                 \/ nextFrame' + airPos' <= received' /\ airPos' < ReadSize
  <2>1. x % BitsPerTS = 0 /\ x <= 0 BY <1>12, <1>16
  <2>2. nextFrame' + airPos' <= received' + BitsPerTS BY <1>9, <1>11, <1>18, <1>19, <1>20, <2>1
  <2>3. ASSUME clean' = SyncPeriod + 2 PROVE nextFrame' + airPos' <= received'
    <3>1. airPos' < SyncOffset + SyncLen BY <1>4, <1>14, <2>3, AirAssumption
    <3>2. x < 0 BY <1>4, <1>10, <1>11, <3>1
    <3>3. x <= -BitsPerTS
      <4>1. x > -BitsPerTS => x = 0 BY <1>11, <2>1, <3>2, ModZero
      <4> QED BY <1>11, <3>2, <4>1
    <3> QED BY <1>9, <1>11, <1>18, <1>19, <1>20, <3>3
  <2> QED BY <1>0, <1>13, <1>14, <1>18, <1>19, <1>20, <1>21, <2>2, <2>3
<1>17. trusted' => nextFrame' >= cut' BY <1>1, <1>6, <1>20
<1> QED BY <1>13, <1>15, <1>16, <1>17 DEF FrameStartSoon, TrustedBehindCut

(* A frame start that is still ahead.                                      *)
LEMMA FrameAwaited ==
  ASSUME LinkInv, AirInv', Unwrapped', Unwrapped, NEW len \in 1..ReadSize, NEW from \in SeenFrom,
         Fits(received + len), NEW type \in NextTypes, NEW crcOk \in BOOLEAN,
         ChunkFrom(len, from, type, crcOk), state = "KNOW_FSTART", state' = "KNOW_FSTART"
  PROVE  FrameStartSoon' /\ TrustedBehindCut'
<1> USE Geometry
<1> DEFINE new == AirTrains(len, from)
           q == Seqs(len, new)
<1>0. SyncPeriod \in Nat /\ SyncPeriod > 0 BY AirGeometry
<1>1. /\ IInv /\ LinkTypes /\ LinkFacts /\ airPos \in Nat /\ airPos < BitsPerTS
      /\ received \in Nat /\ nextFrame \in Nat /\ cut' = cut /\ cut \in Nat
      /\ received' = received + len /\ new \in SUBSET Completed(len) /\ SyncIn(len, new)
  BY ChunkFacts
<1>2. nextFrame' = nextFrame /\ received + len < nextFrame
  <2>1. ASSUME NEW p, Behind(q, p, nextFrame - Start(len)), received + len - nextFrame \in Nat,
               LockedRound(received + len - nextFrame, nextFrame, p,
                           (nextFrame + BitsPerTS) % BitnumSize)
        PROVE  FALSE
    BY <2>1 DEF LockedRound, WaitForFrame, GoodFrame, MisplacedNormFrame, LoseLock
  <2> QED BY <1>1, <2>1, CallAwaiting
<1>3. /\ ~AirEnds(len) => airPos' = airPos + len
      /\ AirEnds(len) => airPos' = airPos + len - BitsPerTS
      /\ airPos' \in Nat /\ airPos' < BitsPerTS /\ clean' \in Nat /\ clean \in Nat
      /\ clean' \in {0, clean} \/ (clean' = clean + 1 /\ AirEnds(len))
  <2>1. airPos \in 0..(BitsPerTS - 1) /\ clean \in Nat BY <1>1 DEF LinkTypes
  <2>2. AirAdvance(len, type, crcOk) BY DEF ChunkFrom
  <2> QED BY <1>1, <2>1, <2>2, AirMoves
<1>4. AirEnds(len) => airPos + len >= BitsPerTS BY DEF AirEnds
<1>5. /\ clean <= SyncPeriod + 2
      /\ clean = SyncPeriod + 2 => airPos + nextFrame + 2 <= received + BitsPerTS
      /\ trusted => /\ nextFrame + airPos <= received + BitsPerTS
                    /\ clean <= SyncPeriod + 1 \/ nextFrame + airPos <= received
  BY <1>1 DEF LinkFacts, FrameStartSoon
<1>6. nextFrame < received + BitsPerTS BY <1>1 DEF IInv, FrameStartAhead
<1> HIDE DEF q, new
<1>7. PICK a \in Nat : airPos' = a BY <1>3
<1>8. PICK c \in Nat : clean' = c BY <1>3
<1>9. clean' <= SyncPeriod + 2
  BY <1>0, <1>1, <1>2, <1>3, <1>4, <1>5, <1>7, <1>8
<1>10. clean' = SyncPeriod + 2 => airPos' + nextFrame' + 2 <= received' + BitsPerTS
  BY <1>0, <1>1, <1>2, <1>3, <1>4, <1>5, <1>6, <1>7, <1>8
<1>11. trusted' = trusted BY DEF ChunkFrom, JudgeFrameStart
<1>12. ASSUME trusted
       PROVE  /\ nextFrame' + airPos' <= received' + BitsPerTS /\ clean' <= SyncPeriod + 1
  <2>1. nextFrame + airPos <= received + BitsPerTS /\ clean <= SyncPeriod + 1
    BY <1>0, <1>1, <1>2, <1>3, <1>5, <1>12
  <2>2. ~AirEnds(len) BY <1>1, <1>2, <1>4, <2>1
  <2> QED BY <1>0, <1>1, <1>2, <1>3, <1>7, <1>8, <2>1, <2>2
<1>13. TrustedBehindCut'
  BY <1>1, <1>2, <1>11 DEF LinkFacts, TrustedBehindCut
<1> QED BY <1>9, <1>10, <1>11, <1>12, <1>13 DEF FrameStartSoon

(* A lock that is lost leaves less than a burst behind.                    *)
LEMMA LockGone ==
  ASSUME LinkInv, AirInv', Unwrapped', Unwrapped, NEW len \in 1..ReadSize, NEW from \in SeenFrom,
         Fits(received + len), NEW type \in NextTypes, NEW crcOk \in BOOLEAN,
         ChunkFrom(len, from, type, crcOk), state # "UNLOCKED", state' = "UNLOCKED"
  PROVE  UnlockedSoon'
<1>1. LockLost BY DEF LockLost
<1>2. /\ IInv /\ LinkTypes /\ airPos \in Nat /\ airPos < BitsPerTS BY ChunkFacts
<1>3. AirAdvance(len, type, crcOk) BY DEF ChunkFrom
<1>4. /\ clean' = 0 /\ sinceSync' \in 0..SyncPeriod
  <2>1. airPos \in 0..(BitsPerTS - 1) BY <1>2, Geometry
  <2> QED BY <1>1, <1>2, <1>3, <2>1, AirMoves
<1>5. 0 <= sinceSync' /\ 0 <= SyncPeriod + 1 BY <1>4, AirGeometry
<1> QED BY <1>4, <1>5 DEF UnlockedSoon

(* A frame start that is reached.                                          *)
LEMMA FrameReached ==
  ASSUME LinkInv, AirInv', Unwrapped', Unwrapped, NEW len \in 1..ReadSize, NEW from \in SeenFrom,
         Fits(received + len), NEW type \in NextTypes, NEW crcOk \in BOOLEAN,
         ChunkFrom(len, from, type, crcOk), state = "KNOW_FSTART", state' = "LOCKED"
  PROVE  ClockSoon' /\ TrustedBehindCut'
<1> USE Geometry
<1> DEFINE new == AirTrains(len, from)
           q == Seqs(len, new)
<1>0. SyncPeriod \in Nat /\ SyncPeriod > 0 /\ 2 * ReadSize < BitsPerTS BY AirGeometry
<1>1. /\ IInv /\ LinkTypes /\ LinkFacts /\ airPos \in Nat /\ airPos < BitsPerTS
      /\ received \in Nat /\ nextFrame \in Nat /\ cut' = cut /\ cut \in Nat
      /\ q \subseteq Train /\ new \in SUBSET Completed(len) /\ SyncIn(len, new)
  BY ChunkFacts
<1>2. PICK p : /\ Behind(q, p, nextFrame - Start(len))
               /\ received + len - nextFrame \in Nat
               /\ LockedRound(received + len - nextFrame, nextFrame, p,
                              (nextFrame + BitsPerTS) % BitnumSize)
  BY <1>1, CallAwaiting
<1> HIDE DEF q, new
<1>3. startBit' = nextFrame \/ startBit' = nextFrame + BitsPerTS
  <2>1. p \subseteq Train BY <1>2 DEF Behind
  <2>2. (nextFrame + BitsPerTS) % BitnumSize \in Nat BY <1>1, ModRange
  <2>3. nextFrame + (received + len - nextFrame) = received + len BY <1>1
  <2>4. Fits(nextFrame + (received + len - nextFrame)) BY <2>3
  <2>5. received + len - nextFrame < BitsPerTS \/ received + len - nextFrame >= BitsPerTS
    BY <1>2
  <2> QED BY <1>1, <1>2, <2>1, <2>2, <2>4, <2>5, RoundOutcome
<1>4. trusted' = trusted BY DEF ChunkFrom, JudgeFrameStart
<1>5. /\ clean' \in Nat /\ clean \in Nat /\ sinceSync' \in 0..SyncPeriod
      /\ airType' = "NORM" => sinceSync' >= 1
      /\ clean' \in {0, clean} \/ (clean' = clean + 1 /\ AirEnds(len))
  <2>1. airPos \in 0..(BitsPerTS - 1) /\ clean \in Nat BY <1>1 DEF LinkTypes
  <2>2. AirAdvance(len, type, crcOk) BY DEF ChunkFrom
  <2> QED BY <1>1, <2>1, <2>2, AirMoves
<1>6. ASSUME trusted
      PROVE  IF airType' = "NORM" THEN clean' <= SyncPeriod + 1 + sinceSync'
                                  ELSE clean' <= 2 * SyncPeriod + 2
  <2>1. /\ clean <= SyncPeriod + 2
        /\ clean <= SyncPeriod + 1 \/ airPos < ReadSize
    BY <1>1, <1>6 DEF LinkFacts, FrameStartSoon
  <2>2. AirEnds(len) => airPos + len >= BitsPerTS BY DEF AirEnds
  <2>3. PICK c \in Nat : clean' = c BY <1>5
  <2>4. clean' <= SyncPeriod + 2 BY <1>0, <1>1, <1>5, <2>1, <2>2, <2>3
  <2>5. PICK n \in Nat : sinceSync' = n BY <1>0, <1>5
  <2> QED BY <1>0, <1>5, <2>3, <2>4, <2>5
<1>7. trusted => nextFrame >= cut BY <1>1 DEF LinkFacts, TrustedBehindCut
<1>8. trusted => startBit' >= cut' BY <1>1, <1>3, <1>7
<1> QED BY <1>4, <1>6, <1>8 DEF ClockSoon, TrustedBehindCut

(* A trusted lock takes the bursts of the carrier: when one ends it is what*)
(* the buffer holds, and its training sequence is the only one.            *)
LEMMA TrustedFrame ==
  ASSUME LinkInv, AirInv', Unwrapped', Unwrapped, NEW len \in 1..ReadSize, NEW from \in SeenFrom,
         Fits(received + len), NEW type \in NextTypes, NEW crcOk \in BOOLEAN,
         ChunkFrom(len, from, type, crcOk), state = "LOCKED", trusted
  PROVE  /\ bitsInBuf = airPos
         /\ ~AirEnds(len) => /\ state' = "LOCKED" /\ bitsInBuf' = airPos + len
                             /\ startBit' = startBit /\ ticked' = FALSE
         /\ AirEnds(len) => /\ bitsInBuf' = airPos + len - BitsPerTS
                            /\ startBit' = startBit + BitsPerTS /\ ticked' = TRUE
         /\ AirEnds(len) /\ airType # "HOLE" => state' = "LOCKED" /\ burst'.type = airType
<1> USE Geometry
<1> DEFINE new == AirTrains(len, from)
           q == Seqs(len, new)
<1>1. /\ AirInv /\ IInv /\ LinkTypes /\ LinkFacts /\ airPos \in Nat /\ airPos < BitsPerTS
      /\ received \in Nat /\ nextFrame \in Nat /\ cut \in Nat
      /\ bitsInBuf \in Nat /\ startBit \in Nat /\ startBit + bitsInBuf = received
      /\ q \subseteq Train /\ new \in SUBSET Completed(len) /\ SyncIn(len, new)
      /\ Complete(Bits(len), q, airPos + len)
      /\ OnAir(Start(len), q, received + len, airPos + len)
  BY ChunkFacts
<1>2. bitsInBuf = airPos
  <2>1. bitsInBuf < BitsPerTS BY <1>1 DEF IInv, LockedKeepsUp
  <2>2. (startBit - received + airPos) % BitsPerTS = 0 BY <1>1 DEF AirInv, Grid
  <2>3. startBit - received + airPos = airPos - bitsInBuf BY <1>1
  <2>4. (airPos - bitsInBuf) % BitsPerTS = 0 BY <2>2, <2>3
  <2>5. airPos - bitsInBuf = 0
    <3> DEFINE x == airPos - bitsInBuf
    <3>1. x \in Int /\ -BitsPerTS < x /\ x < BitsPerTS BY <1>1, <2>1
    <3>2. x % BitsPerTS = 0 BY <2>4
    <3> HIDE DEF x
    <3>3. x = 0 BY <3>1, <3>2, ModZero
    <3> QED BY <3>3 DEF x
  <2> QED BY <1>1, <2>5
<1>3. /\ Start(len) = startBit /\ Bits(len) = airPos + len
      /\ LockedRound(airPos + len, startBit, q, nextFrame)
  BY <1>1, <1>2, CallLocked
<1>4. AirEnds(len) <=> airPos + len >= BitsPerTS BY DEF AirEnds
<1>5. Fits(startBit + (airPos + len))
  <2>1. startBit + (airPos + len) = received + len BY <1>1, <1>2
  <2> QED BY <2>1
<1>6. airPos + len \in Nat BY <1>1
<1> HIDE DEF q, new
<1>7. PICK b \in Nat : b = airPos + len BY <1>6
<1>10. /\ b < BitsPerTS =>
            state' = "LOCKED" /\ bitsInBuf' = b /\ startBit' = startBit /\ ticked' = FALSE
       /\ b >= BitsPerTS =>
            bitsInBuf' = b - BitsPerTS /\ startBit' = startBit + BitsPerTS /\ ticked' = TRUE
  <2>1. startBit \in Nat /\ nextFrame \in Nat /\ q \subseteq Train BY <1>1
  <2>2. LockedRound(b, startBit, q, nextFrame) /\ Fits(startBit + b) BY <1>3, <1>5, <1>7
  <2> QED BY <2>1, <2>2, RoundOutcome, Zenon
<1>8. ASSUME AirEnds(len), airType # "HOLE" PROVE state' = "LOCKED" /\ burst'.type = airType
  <2>1. startBit >= cut BY <1>1 DEF LinkFacts, TrustedBehindCut
  <2>2. ASSUME NEW t \in q PROVE t.type = airType /\ t.off = PlaceOf(t.type) /\ t \in Train
    <3>1. t \in Train /\ t.off \in Nat /\ t.type \in Types BY <1>1 DEF Train
    <3>2. startBit = received - airPos BY <1>1, <1>2
    <3>3. (received + len) - (airPos + len) = startBit BY <1>1, <3>2
    <3>4. startBit + t.off >= cut /\ startBit + t.off >= (received + len) - (airPos + len)
      BY <1>1, <2>1, <3>1, <3>3
    <3>5. t.type = airType BY <1>1, <1>3, <3>4 DEF OnAir
    <3> DEFINE P == PlaceOf(t.type)
               x == t.off - P
    <3>6. /\ P \in Nat /\ LenOf(t.type) \in Nat /\ LenOf(t.type) > 0
          /\ P + LenOf(t.type) <= BitsPerTS /\ ReadSize < P + LenOf(t.type)
      BY <3>1, AirGeometry
    <3>7. t.off + LenOf(t.type) <= airPos + len
      <4>1. Numbers /\ TrainsInBuffer BY <1>1 DEF IInv
      <4> QED BY <1>1, <1>3, <4>1, Appended DEF q
    <3>8. x % BitsPerTS = 0
      <4>1. TrainsOnGrid(Start(len), q, received + len, (airPos + len) % BitsPerTS)
        BY <1>1, ReadOnGrid DEF q, new
      <4>2. Grid((startBit + t.off) - P, received + len, (airPos + len) % BitsPerTS)
        BY <1>3, <3>4, <4>1 DEF TrainsOnGrid
      <4>3. (airPos + len) % BitsPerTS = airPos + len - BitsPerTS
        <5>1. airPos + len - BitsPerTS \in Nat /\ airPos + len - BitsPerTS < BitsPerTS
          BY <1>1, <1>4, <1>8
        <5>2. airPos + len = BitsPerTS * 1 + (airPos + len - BitsPerTS) BY <1>1
        <5>3. \A r \in Nat : r < BitsPerTS => (BitsPerTS * 1 + r) % BitsPerTS = r BY ModUnique
        <5> QED BY <5>1, <5>2, <5>3
      <4>4. ((startBit + t.off) - P - (received + len) + (airPos + len - BitsPerTS)) % BitsPerTS = 0
        BY <4>2, <4>3 DEF Grid
      <4>5. (startBit + t.off) - P - (received + len) + (airPos + len - BitsPerTS) = x - BitsPerTS
        BY <1>1, <3>1, <3>2, <3>6
      <4> DEFINE y == x - BitsPerTS
      <4>6. y \in Int /\ y % BitsPerTS = 0 BY <3>1, <3>6, <4>4, <4>5
      <4>7. x = y + BitsPerTS BY <3>1, <3>6
      <4> HIDE DEF x, y
      <4>8. (y + BitsPerTS) % BitsPerTS = 0 BY <4>6, ModShift
      <4> QED BY <4>7, <4>8
    <3>9. x \in Int /\ -BitsPerTS < x /\ x < BitsPerTS BY <1>1, <3>1, <3>6, <3>7
    <3> HIDE DEF x
    <3>10. x = 0 BY <3>8, <3>9, ModZero
    <3> HIDE DEF P
    <3>11. t.off = P BY <3>1, <3>6, <3>10 DEF x
    <3> QED BY <3>1, <3>5, <3>11 DEF P
  <2>3. airType \in Types BY <1>1, <1>8 DEF LinkTypes
  <2>4. PICK t \in q : t.type = airType
    <3>1. airPos + len >= PlaceOf(airType) + LenOf(airType)
      BY <1>1, <1>4, <1>8, <2>3, AirGeometry
    <3>2. (airPos + len) - (airPos + len) + PlaceOf(airType) >= 0 BY <1>1, <2>3, AirGeometry
    <3> QED BY <1>1, <1>3, <2>3, <3>1, <3>2 DEF Complete
  <2>5. t \in Seen(q, AnyType)
    <3>1. t.from \in Nat /\ t.from <= t.off BY <2>2, <2>3, <2>4, AirGeometry DEF Train
    <3>2. t.off \in Nat BY <2>2 DEF Train
    <3> QED BY <2>3, <2>4, <3>1, <3>2 DEF Seen, AnyType
  <2>6. ~LoseLock(airPos + len, startBit, q, nextFrame)
    BY <2>2, <2>5 DEF LoseLock, IsFirst, Seen, PlaceOf
  <2>7. ~MisplacedNormFrame(airPos + len, startBit, q, nextFrame)
    BY <2>2 DEF MisplacedNormFrame, IsFirst, Seen, PlaceOf
  <2>8. ~WaitForFrame(airPos + len, startBit, q, nextFrame)
    BY <1>1, <1>4, <1>8 DEF WaitForFrame
  <2>9. GoodFrame(airPos + len, startBit, q, nextFrame)
    BY <1>3, <2>6, <2>7, <2>8 DEF LockedRound
  <2>10. PICK u \in q : burst' = [type |-> u.type, start |-> startBit] BY <2>9 DEF GoodFrame
  <2> QED BY <2>2, <2>9, <2>10 DEF GoodFrame
<1>9. ~AirEnds(len) => airPos + len < BitsPerTS BY <1>4, <1>6
<1>11. ASSUME ~AirEnds(len)
       PROVE  /\ state' = "LOCKED" /\ bitsInBuf' = airPos + len /\ startBit' = startBit
              /\ ticked' = FALSE
  <2>1. b < BitsPerTS BY <1>7, <1>9, <1>11
  <2> QED BY <1>7, <1>10, <2>1, Zenon
<1>12. ASSUME AirEnds(len)
       PROVE  /\ bitsInBuf' = airPos + len - BitsPerTS /\ startBit' = startBit + BitsPerTS
              /\ ticked' = TRUE
  <2>1. b >= BitsPerTS BY <1>4, <1>7, <1>12
  <2>2. bitsInBuf' = b - BitsPerTS /\ startBit' = startBit + BitsPerTS /\ ticked' = TRUE
    BY <1>10, <2>1, Zenon
  <2>3. airPos \in Nat BY <1>1
  <2> QED BY <1>7, <2>2, <2>3
<1> QED BY <1>2, <1>8, <1>11, <1>12

(* A slot of the time before another one, and back.                        *)
LEMMA SlotBack ==
  ASSUME NEW w \in Nat, w > 0, NEW s \in 0..(w - 1)
  PROVE  /\ (((s - 1) % w) + 1) % w = s
         /\ (((s + 1) % w) - 1) % w = s
<1>1. \A x \in Int, y \in Int : ((x % w) + y) % w = (x + y) % w BY ModAdd
<1>2. s % w = s BY ModSmall
<1>3. (((s - 1) % w) + 1) % w = ((s - 1) + 1) % w BY <1>1
<1>4. (((s + 1) % w) + (-1)) % w = ((s + 1) + (-1)) % w BY <1>1
<1>5. (s - 1) + 1 = s /\ (s + 1) + (-1) = s OBVIOUS
<1>6. (s + 1) % w \in Int BY ModRange
<1>7. ((s + 1) % w) + (-1) = ((s + 1) % w) - 1 BY <1>6
<1> QED BY <1>2, <1>3, <1>4, <1>5, <1>7

(* Under a trusted lock the buffer holds what was read of the burst on the *)
(* air, and the burst taken last is the one before it.                     *)
LEMMA LastTakenIs ==
  ASSUME NEW b \in Nat, NEW a \in Nat, b = a
  PROVE  (b + BitsPerTS - a) \div BitsPerTS = 1
<1>1. b + BitsPerTS - a = BitsPerTS BY Geometry
<1>2. BitsPerTS \div BitsPerTS = 1 BY Geometry
<1> QED BY <1>1, <1>2

(* A trusted lock that holds: the clock keeps the slot of the burst taken  *)
(* last, or has not yet had a SYNC burst to take it from.                  *)
LEMMA LockKept ==
  ASSUME LinkInv, AirInv', Unwrapped', Unwrapped, NEW len \in 1..ReadSize, NEW from \in SeenFrom,
         Fits(received + len), NEW type \in NextTypes, NEW crcOk \in BOOLEAN,
         ChunkFrom(len, from, type, crcOk), state = "LOCKED", state' = "LOCKED"
  PROVE  ClockSoon' /\ TrustedBehindCut'
<1> USE Geometry
<1>0. SyncPeriod \in Nat /\ SyncPeriod > 0 /\ Cycle \in Nat /\ Cycle > 0 BY AirGeometry
<1>1. trusted' = trusted BY DEF ChunkFrom, JudgeFrameStart
<1> SUFFICES ASSUME trusted
             PROVE  /\ startBit' >= cut'
                    /\ \/ clock' = LastTaken'
                       \/ IF airType' = "NORM" THEN clean' <= SyncPeriod + 1 + sinceSync'
                                               ELSE clean' <= 2 * SyncPeriod + 2
  BY <1>1 DEF ClockSoon, TrustedBehindCut
<1>2. /\ LinkTypes /\ LinkFacts /\ airPos \in Nat /\ airPos < BitsPerTS
      /\ startBit \in Nat /\ cut \in Nat /\ cut' = cut
  BY ChunkFacts
<1>3. /\ bitsInBuf = airPos
      /\ ~AirEnds(len) => bitsInBuf' = airPos + len /\ startBit' = startBit /\ ticked' = FALSE
      /\ AirEnds(len) => /\ bitsInBuf' = airPos + len - BitsPerTS
                         /\ startBit' = startBit + BitsPerTS /\ ticked' = TRUE
      /\ AirEnds(len) /\ airType # "HOLE" => burst'.type = airType
  BY TrustedFrame
<1>4. /\ ~AirEnds(len) => /\ airPos' = airPos + len /\ airType' = airType
                          /\ airSlot' = airSlot /\ sinceSync' = sinceSync
      /\ AirEnds(len) => /\ airPos' = airPos + len - BitsPerTS
                         /\ airSlot' = (airSlot + 1) % Cycle
                         /\ airType' = "NORM" => sinceSync' = sinceSync + 1
      /\ airPos' \in Nat /\ sinceSync' \in 0..SyncPeriod /\ airSlot' \in 0..(Cycle - 1)
      /\ clean' \in Nat
      /\ clean' \in {0, clean} \/ (clean' = clean + 1 /\ AirEnds(len) /\ airType # "HOLE")
      /\ ~crcOk => clean' = 0
  <2>1. airPos \in 0..(BitsPerTS - 1) BY <1>2
  <2>2. AirAdvance(len, type, crcOk) BY DEF ChunkFrom
  <2> QED BY <1>2, <2>1, <2>2, AirMoves
<1>5. bitsInBuf' = airPos' /\ bitsInBuf' \in Nat BY <1>3, <1>4
<1>6. /\ LastTaken = (airSlot - 1) % Cycle
      /\ LastTaken' = (airSlot' - 1) % Cycle
  <2>1. (bitsInBuf + BitsPerTS - airPos) \div BitsPerTS = 1 BY <1>2, <1>3, LastTakenIs
  <2>2. (bitsInBuf' + BitsPerTS - airPos') \div BitsPerTS = 1 BY <1>4, <1>5, LastTakenIs
  <2> QED BY <2>1, <2>2, Zenon DEF LastTaken
<1>7. startBit' >= cut'
  <2>1. startBit >= cut BY <1>2 DEF LinkFacts, TrustedBehindCut
  <2> QED BY <1>2, <1>3, <2>1
<1>8. /\ airSlot \in 0..(Cycle - 1) /\ sinceSync \in 0..SyncPeriod
      /\ clean \in Nat /\ airType \in {"SYNC", "NORM", "HOLE"}
  BY <1>2 DEF LinkTypes, Types
<1>9. \/ clock = LastTaken
      \/ IF airType = "NORM" THEN clean <= SyncPeriod + 1 + sinceSync
                             ELSE clean <= 2 * SyncPeriod + 2
  BY <1>2 DEF LinkFacts, ClockSoon
<1>10. /\ ~crcOk => SyncTaken
       /\ SyncTaken /\ crcOk => clock' = TakenSlot
       /\ ticked' /\ ~(SyncTaken /\ crcOk) => clock' = (clock + 1) % Cycle
       /\ ~ticked' => clock' = clock
  <2>1. KeepTime(crcOk) /\ (~crcOk => SyncTaken) BY DEF ChunkFrom
  <2>2. SyncTaken => ticked' BY DEF SyncTaken
  <2>3. CASE SyncTaken /\ crcOk BY <2>1, <2>2, <2>3 DEF KeepTime
  <2>4. CASE ~(SyncTaken /\ crcOk) BY <2>1, <2>2, <2>4 DEF KeepTime
  <2> QED BY <2>3, <2>4
<1>11. clean' = 0 => IF airType' = "NORM" THEN clean' <= SyncPeriod + 1 + sinceSync'
                                          ELSE clean' <= 2 * SyncPeriod + 2
  <2>1. PICK n \in Nat : sinceSync' = n BY <1>0, <1>4
  <2> QED BY <1>0, <2>1
<1>12. CASE ~AirEnds(len)
  <2>1. clock' = clock BY <1>3, <1>10, <1>12
  <2>2. clock = LastTaken => clock' = LastTaken' BY <1>4, <1>6, <1>12, <2>1
  <2>3. clean' = 0 \/ clean' = clean BY <1>4, <1>12
  <2> QED BY <1>4, <1>7, <1>9, <1>11, <1>12, <2>2, <2>3
<1>13. CASE AirEnds(len) /\ airType = "HOLE"
  <2>1. clean' = 0 BY <1>13 DEF ChunkFrom, AirAdvance, Disturbed
  <2> QED BY <1>7, <1>11, <2>1
<1>14. CASE AirEnds(len) /\ airType = "SYNC"
  <2>1. SyncTaken BY <1>3, <1>14 DEF SyncTaken
  <2>2. crcOk => clock' = LastTaken' BY <1>10, <2>1 DEF TakenSlot, LastTaken
  <2> QED BY <1>4, <1>7, <1>11, <2>2
<1>15. CASE AirEnds(len) /\ airType = "NORM"
  <2>1. ~SyncTaken BY <1>3, <1>15 DEF SyncTaken
  <2>2. clock' = (clock + 1) % Cycle BY <1>3, <1>10, <1>15, <2>1
  <2>3. ASSUME clock = LastTaken PROVE clock' = LastTaken'
    <3>1. clock' = (((airSlot - 1) % Cycle) + 1) % Cycle BY <1>6, <2>2, <2>3
    <3>2. LastTaken' = (((airSlot + 1) % Cycle) - 1) % Cycle BY <1>4, <1>6, <1>15
    <3> QED BY <1>0, <1>8, <3>1, <3>2, SlotBack
  <2>4. ASSUME clean <= SyncPeriod + 1 + sinceSync
        PROVE  IF airType' = "NORM" THEN clean' <= SyncPeriod + 1 + sinceSync'
                                    ELSE clean' <= 2 * SyncPeriod + 2
    <3>1. PICK c \in Nat : clean' = c BY <1>4
    <3>2. PICK n \in Nat : sinceSync' = n BY <1>0, <1>4
    <3>3. clean' <= clean + 1 BY <1>4, <1>8, <3>1
    <3> QED BY <1>0, <1>4, <1>8, <1>15, <2>4, <3>1, <3>2, <3>3
  <2> QED BY <1>7, <1>9, <1>15, <2>3, <2>4
<1> QED BY <1>8, <1>12, <1>13, <1>14, <1>15

-----------------------------------------------------------------------------
(* The invariant, by the state before and after a call.                    *)
LEMMA LinkStates ==
  ASSUME LinkInv, AirInv', Unwrapped', Unwrapped, NEW len \in 1..ReadSize, NEW from \in SeenFrom,
         Fits(received + len), NEW type \in NextTypes, NEW crcOk \in BOOLEAN,
         ChunkFrom(len, from, type, crcOk)
  PROVE  TrustedBehindCut' /\ UnlockedSoon' /\ FrameStartSoon' /\ ClockSoon'
<1>1. IInv /\ IInv' BY ChunkFacts
<1>2. state' \in {"UNLOCKED", "KNOW_FSTART", "LOCKED"} BY <1>1 DEF IInv, Numbers
<1>3. CASE state = "UNLOCKED"
  <2>1. state' \in {"UNLOCKED", "KNOW_FSTART"}
    <3>1. /\ AirTrains(len, from) \in SUBSET Completed(len)
          /\ SyncIn(len, AirTrains(len, from))
      BY ChunkFacts
    <3> QED BY <1>1, <1>3, <3>1, CallUnlocked
  <2>2. CASE state' = "UNLOCKED"
    <3>1. UnlockedSoon' BY <1>3, <2>2, SearchFails
    <3> QED BY <2>2, <3>1 DEF TrustedBehindCut, FrameStartSoon, ClockSoon
  <2>3. CASE state' = "KNOW_FSTART"
    <3>1. FrameStartSoon' /\ TrustedBehindCut' BY <1>3, <2>3, SearchFinds
    <3> QED BY <2>3, <3>1 DEF UnlockedSoon, ClockSoon
  <2> QED BY <2>1, <2>2, <2>3
<1>4. CASE state # "UNLOCKED" /\ state' = "UNLOCKED"
  <2>1. UnlockedSoon' BY <1>4, LockGone
  <2> QED BY <1>4, <2>1 DEF TrustedBehindCut, FrameStartSoon, ClockSoon
<1>5. CASE state = "KNOW_FSTART" /\ state' = "KNOW_FSTART"
  <2>1. FrameStartSoon' /\ TrustedBehindCut' BY <1>5, FrameAwaited
  <2> QED BY <1>5, <2>1 DEF UnlockedSoon, ClockSoon
<1>6. CASE state = "KNOW_FSTART" /\ state' = "LOCKED"
  <2>1. ClockSoon' /\ TrustedBehindCut' BY <1>6, FrameReached
  <2> QED BY <1>6, <2>1 DEF UnlockedSoon, FrameStartSoon
<1>7. CASE state = "LOCKED" /\ state' = "LOCKED"
  <2>1. ClockSoon' /\ TrustedBehindCut' BY <1>7, LockKept
  <2> QED BY <1>7, <2>1 DEF UnlockedSoon, FrameStartSoon
<1>8. ASSUME state = "LOCKED" PROVE state' # "KNOW_FSTART"
  <2>1. /\ AirTrains(len, from) \in SUBSET Completed(len)
        /\ SyncIn(len, AirTrains(len, from))
    BY ChunkFacts
  <2>2. LockedRound(bitsInBuf + len, startBit, Seqs(len, AirTrains(len, from)), nextFrame)
    BY <1>1, <1>8, <2>1, CallLocked
  <2> QED BY <2>2 DEF LockedRound, WaitForFrame, GoodFrame, MisplacedNormFrame, LoseLock
<1>9. state \in {"UNLOCKED", "KNOW_FSTART", "LOCKED"} BY <1>1 DEF IInv, Numbers
<1> QED BY <1>2, <1>3, <1>4, <1>5, <1>6, <1>7, <1>8, <1>9

(* What a read brings, before the bit numbers wrap.                        *)
LEMMA ChunkCounts ==
  ASSUME AirInv, NEW len \in 1..ReadSize, NEW type \in NextTypes, NEW crcOk \in BOOLEAN,
         ReadChunk(len, type, crcOk), Unwrapped'
  PROVE  /\ Unwrapped /\ Fits(received + len) /\ AirInv'
         /\ \E from \in SeenFrom : ChunkFrom(len, from, type, crcOk)
<1>1. PICK from \in SeenFrom : SyncIn(len, AirTrains(len, from)) BY DEF ReadChunk
<1>2. received' = received + len
  BY <1>1 DEF SyncIn, StayUnlocked, FindFrameStart, AwaitFrameStart, AlignToFrame,
              AlignBeyondBuffer, ReceiveLocked, Input
<1>3. ChunkFrom(len, from, type, crcOk) BY <1>1, <1>2 DEF ReadChunk, ChunkFrom
<1>4. Fits(received + len) BY <1>2 DEF Unwrapped, Fits
<1>5. received \in Nat /\ received <= received + len BY DEF AirInv, BeforeWrap
<1>6. Unwrapped
  <2>1. received + len \in Nat BY <1>5
  <2>2. Fits(received) BY <1>4, <1>5, <2>1, FitsDown
  <2> QED BY <2>2 DEF Unwrapped, Fits
<1> QED BY <1>3, <1>4, <1>6, ChunkStep

LEMMA LinkChunk ==
  ASSUME LinkInv, NEW len \in 1..ReadSize, NEW type \in NextTypes, NEW crcOk \in BOOLEAN,
         ReadChunk(len, type, crcOk)
  PROVE  LinkInv'
<1>1. AirInv /\ LinkTypes /\ airPos \in 0..(BitsPerTS - 1) BY DEF LinkInv, AirInv
<1>2. AirInv' BY <1>1, ChunkStep
<1>3. LinkTypes'
  <2>1. AirAdvance(len, type, crcOk) BY DEF ReadChunk
  <2>2. /\ sinceSync' \in 0..SyncPeriod /\ (airType' = "NORM" => sinceSync' >= 1)
        /\ airType' \in Types \cup {"HOLE"} /\ airSlot' \in 0..(Cycle - 1)
        /\ clean' \in Nat
    BY <1>1, <2>1, AirMoves
  <2> QED BY <2>2 DEF LinkTypes
<1>4. ASSUME Unwrapped' PROVE LinkFacts'
  <2>1. Unwrapped /\ Fits(received + len) BY <1>1, <1>4, ChunkCounts
  <2>2. PICK from \in SeenFrom : ChunkFrom(len, from, type, crcOk) BY <1>1, <1>4, ChunkCounts
  <2>3. TrustedBehindCut' /\ UnlockedSoon' /\ FrameStartSoon' /\ ClockSoon'
    BY <1>2, <1>4, <2>1, <2>2, LinkStates
  <2>4. /\ SyncIn(len, AirTrains(len, from)) /\ AirAdvance(len, type, crcOk)
        /\ cut' = cut /\ received' = received + len
    BY <2>2 DEF ChunkFrom
  <2>5. /\ Complete(bitsInBuf, trains, airPos)'
        /\ OnAir(startBit, trains, received, airPos)'
    <3>1. LinkFacts BY <2>1 DEF LinkInv
    <3> QED BY <1>1, <1>2, <1>4, <2>1, <2>4, <3>1, LinkTrains
  <2> QED BY <2>3, <2>5 DEF LinkFacts
<1> QED BY <1>2, <1>3, <1>4 DEF LinkInv

(* Lost bits leave the buffer as it is; what they cut is not counted on.   *)
LEMMA LinkSlip ==
  ASSUME LinkInv, NEW n \in 1..(BitsPerTS - 1), Slip(n)
  PROVE  LinkInv'
<1> USE Geometry
<1>1. AirInv /\ LinkTypes BY DEF LinkInv
<1>2. AirInv' BY <1>1, SlipStep
<1>3. /\ airPos \in Nat /\ airPos + n < BitsPerTS /\ airPos' = airPos + n
      /\ clean' = 0 /\ cut' = received /\ trusted' = FALSE
      /\ airSlot' = airSlot /\ sinceSync' = sinceSync /\ vars' = vars
      /\ airType' = airType \/ airType' = "HOLE"
      /\ airType' = airType => \A T \in Types : airType = T =>
           airPos + n <= PlaceOf(T) \/ PlaceOf(T) + LenOf(T) <= airPos \/ airType = "HOLE"
  BY <1>1 DEF Slip, AirInv
<1>4. /\ state' = state /\ bitsInBuf' = bitsInBuf /\ startBit' = startBit
      /\ nextFrame' = nextFrame /\ trains' = trains /\ received' = received
  BY <1>3 DEF vars
<1>5. LinkTypes' BY <1>1, <1>3 DEF LinkTypes
<1>6. ASSUME Unwrapped' PROVE LinkFacts'
  <2>1. LinkFacts /\ IInv BY <1>1, <1>4, <1>6 DEF LinkInv, AirInv, BeforeWrap, Unwrapped
  <2>2. /\ received \in Nat /\ bitsInBuf \in Nat /\ startBit \in Nat /\ nextFrame \in Nat
        /\ startBit + bitsInBuf = received /\ trains \subseteq Train /\ TrainsInBuffer
    BY <2>1 DEF IInv, Numbers
  <2>3. Complete(bitsInBuf, trains, airPos)'
    <3> SUFFICES ASSUME NEW T \in Types, airType' = T, airPos' >= PlaceOf(T) + LenOf(T),
                        bitsInBuf - airPos' + PlaceOf(T) >= 0
                 PROVE  \E t \in trains : t.type = T /\ t.off >= bitsInBuf - airPos' + PlaceOf(T)
      BY <1>4 DEF Complete
    <3>1. /\ PlaceOf(T) \in Nat /\ LenOf(T) \in Nat /\ LenOf(T) > 0 BY AirGeometry
    <3>2. airType = T /\ T # "HOLE" BY <1>3 DEF Types
    <3>3. airPos >= PlaceOf(T) + LenOf(T) BY <1>3, <3>1, <3>2
    <3>4. bitsInBuf - airPos + PlaceOf(T) >= 0 BY <1>3, <2>2, <3>1
    <3>5. PICK t \in trains : t.type = T /\ t.off >= bitsInBuf - airPos + PlaceOf(T)
      BY <2>1, <3>2, <3>3, <3>4 DEF LinkFacts, Complete
    <3>6. t.off \in Nat BY <2>2 DEF Train
    <3>7. t.off >= bitsInBuf - airPos' + PlaceOf(T) BY <1>3, <2>2, <3>1, <3>5, <3>6
    <3> QED BY <3>5, <3>7
  <2>4. OnAir(startBit, trains, received, airPos)'
    <3> SUFFICES ASSUME NEW t \in trains, startBit + t.off >= received PROVE FALSE
      BY <1>3, <1>4 DEF OnAir
    <3>1. t.off \in Nat /\ t.off + LenOf(t.type) <= bitsInBuf /\ t.type \in Types
      BY <2>2 DEF TrainsInBuffer, Train
    <3>2. LenOf(t.type) \in Nat /\ LenOf(t.type) > 0 BY <3>1, AirGeometry
    <3> QED BY <2>2, <3>1, <3>2
  <2>5. UnlockedSoon'
    <3>1. sinceSync \in 0..SyncPeriod /\ SyncPeriod \in Nat BY <1>1, AirGeometry DEF LinkTypes
    <3>2. 0 <= sinceSync /\ 0 <= SyncPeriod + 1 /\ 0 <= 2 BY <3>1
    <3> QED BY <1>3, <3>2 DEF UnlockedSoon
  <2>6. FrameStartSoon'
    <3>1. SyncPeriod \in Nat /\ 0 <= SyncPeriod + 2 /\ 0 # SyncPeriod + 2 BY AirGeometry
    <3> QED BY <1>3, <3>1 DEF FrameStartSoon
  <2>7. TrustedBehindCut' /\ ClockSoon' BY <1>3 DEF TrustedBehindCut, ClockSoon
  <2> QED BY <2>3, <2>4, <2>5, <2>6, <2>7 DEF LinkFacts
<1> QED BY <1>2, <1>5, <1>6 DEF LinkInv

LEMMA LinkInvariant == AirSpec => []LinkInv
<1>1. AirInit => LinkInv
  <2> SUFFICES ASSUME AirInit PROVE LinkInv OBVIOUS
  <2>1. AirInv
    <3>1. BeforeWrap BY InitInv DEF AirInit, BeforeWrap, Init
    <3>2. /\ airPos \in 0..(BitsPerTS - 1) /\ cut = 0 /\ received = 0 /\ trains = {}
          /\ state = "UNLOCKED"
      BY DEF AirInit, Init
    <3> QED BY <3>1, <3>2 DEF AirInv, TrainsOnGrid
  <2>2. /\ airType = "HOLE" /\ airSlot = 0 /\ sinceSync = 0 /\ clean = 0 /\ trains = {}
        /\ state = "UNLOCKED"
    BY DEF AirInit, Init
  <2>3. SyncPeriod \in Nat /\ Cycle \in Nat /\ Cycle > 0 BY AirGeometry
  <2>4. LinkTypes BY <2>2, <2>3 DEF LinkTypes
  <2>5. "HOLE" \notin Types BY DEF Types
  <2>6. LinkFacts
    BY <2>2, <2>3, <2>5 DEF LinkFacts, Complete, OnAir, TrustedBehindCut, UnlockedSoon,
                             FrameStartSoon, ClockSoon
  <2> QED BY <2>1, <2>4, <2>6 DEF LinkInv
<1>2. LinkInv /\ [AirNext]_linkVars => LinkInv'
  <2> SUFFICES ASSUME LinkInv, [AirNext]_linkVars PROVE LinkInv' OBVIOUS
  <2>1. ASSUME NEW len \in 1..ReadSize, NEW type \in NextTypes, NEW crcOk \in BOOLEAN,
               ReadChunk(len, type, crcOk)
        PROVE  LinkInv'
    BY <2>1, LinkChunk
  <2>2. ASSUME NEW n \in 1..(BitsPerTS - 1), Slip(n) PROVE LinkInv' BY <2>2, LinkSlip
  <2>3. CASE UNCHANGED linkVars
    <3>1. /\ UNCHANGED <<state, bitsInBuf, startBit, nextFrame, trains, received>>
          /\ UNCHANGED <<airType, airPos, airSlot, sinceSync, clean, cut, trusted, clock>>
      BY <2>3 DEF linkVars, airVars, vars
    <3>2. AirInv'
      BY <2>3 DEF LinkInv, linkVars, airVars, vars, AirInv, TrainsOnGrid, BeforeWrap, Unwrapped,
                  IInv, Numbers, TrainsInBuffer, SearchedHasNoSync, LockedKeepsUp, FrameStartAhead
    <3>3. LinkTypes' BY <3>1 DEF LinkInv, LinkTypes
    <3>4. Unwrapped' => LinkFacts'
      BY <3>1 DEF LinkInv, Unwrapped, LinkFacts, Complete, OnAir, TrustedBehindCut, UnlockedSoon,
                  FrameStartSoon, ClockSoon, LastTaken
    <3> QED BY <3>2, <3>3, <3>4 DEF LinkInv
  <2> QED BY <2>1, <2>2, <2>3 DEF AirNext
<1> QED BY <1>1, <1>2, PTL DEF AirSpec

(* Whatever cost the receiver its lock, SyncPeriod + 3 undisturbed bursts  *)
(* later it is locked again: the search cannot be starved and no frame     *)
(* start it computes is missed.                                            *)
THEOREM RelocksOnTime == AirSpec => [](Unwrapped => RelocksInTime)
<1>1. LinkInv => (Unwrapped => RelocksInTime)
  <2> SUFFICES ASSUME LinkInv, Unwrapped, clean >= SyncPeriod + 3 PROVE state = "LOCKED"
    BY DEF RelocksInTime, RelockBursts
  <2>1. IInv /\ LinkTypes /\ LinkFacts BY DEF LinkInv, AirInv, BeforeWrap
  <2>2. SyncPeriod \in Nat /\ clean \in Nat BY <2>1, AirGeometry DEF LinkTypes
  <2>3. state # "UNLOCKED"
    <3> SUFFICES ASSUME state = "UNLOCKED" PROVE FALSE OBVIOUS
    <3>1. clean <= SyncPeriod + 1 BY <2>1, UnlockedClean DEF LinkFacts
    <3> QED BY <2>2, <3>1
  <2>4. state # "KNOW_FSTART" BY <2>1, <2>2 DEF LinkFacts, FrameStartSoon
  <2> QED BY <2>1, <2>3, <2>4 DEF IInv, Numbers
<1> QED BY <1>1, LinkInvariant, PTL

(* SyncPeriod bursts after that at the latest a SYNC burst was taken under *)
(* the lock, and the receiver's slot number is the one on the air.         *)
THEOREM ClockIsRight == AirSpec => [](Unwrapped => ClockCatchesUp)
<1>1. LinkInv => (Unwrapped => ClockCatchesUp)
  <2> SUFFICES ASSUME LinkInv, Unwrapped, clean >= 2 * SyncPeriod + 3, trusted
               PROVE  clock = LastTaken
    BY DEF ClockCatchesUp, ClockBursts
  <2>1. IInv /\ LinkTypes /\ LinkFacts BY DEF LinkInv, AirInv, BeforeWrap
  <2>2. /\ SyncPeriod \in Nat /\ SyncPeriod > 0 /\ clean \in Nat
        /\ sinceSync \in Nat /\ sinceSync <= SyncPeriod
    BY <2>1, AirGeometry DEF LinkTypes
  <2>3. state # "UNLOCKED"
    <3> SUFFICES ASSUME state = "UNLOCKED" PROVE FALSE OBVIOUS
    <3>1. clean <= SyncPeriod + 1 BY <2>1, UnlockedClean DEF LinkFacts
    <3> QED BY <2>2, <3>1
  <2>4. state # "KNOW_FSTART" BY <2>1, <2>2 DEF LinkFacts, FrameStartSoon
  <2>5. state = "LOCKED" BY <2>1, <2>3, <2>4 DEF IInv, Numbers
  <2> QED BY <2>1, <2>2, <2>5 DEF LinkFacts, ClockSoon
<1> QED BY <1>1, LinkInvariant, PTL

(* A lock on the base station's bursts is lost to a garbled burst only: no *)
(* read size, and no sequence that straddles two reads, costs it.          *)
THEOREM LockOutlives == AirSpec => LockHolds
<1> DEFINE A == Unwrapped' => (state = "LOCKED" /\ trusted /\ LockLost => airType = "HOLE")
<1>1. LinkInv /\ [AirNext]_linkVars => [A]_linkVars
  <2> SUFFICES ASSUME LinkInv, AirNext, Unwrapped', state = "LOCKED", trusted, LockLost
               PROVE  airType = "HOLE"
    OBVIOUS
  <2>1. state' = "UNLOCKED" BY DEF LockLost
  <2>2. ASSUME NEW len \in 1..ReadSize, NEW type \in NextTypes, NEW crcOk \in BOOLEAN,
               ReadChunk(len, type, crcOk)
        PROVE  airType = "HOLE"
    <3>1. AirInv BY DEF LinkInv
    <3>2. Unwrapped /\ Fits(received + len) /\ AirInv' BY <2>2, <3>1, ChunkCounts
    <3>3. PICK from \in SeenFrom : ChunkFrom(len, from, type, crcOk) BY <2>2, <3>1, ChunkCounts
    <3>4. /\ ~AirEnds(len) => state' = "LOCKED"
          /\ AirEnds(len) /\ airType # "HOLE" => state' = "LOCKED"
      BY <3>2, <3>3, TrustedFrame
    <3> QED BY <2>1, <3>4
  <2>3. ASSUME NEW n \in 1..(BitsPerTS - 1), Slip(n) PROVE FALSE
    BY <2>1, <2>3 DEF Slip, vars
  <2> QED BY <2>2, <2>3 DEF AirNext
<1> QED BY <1>1, LinkInvariant, PTL DEF AirSpec, LockHolds
=============================================================================
