------------------------------ MODULE AirLink ------------------------------
(***************************************************************************)
(* The burst synchroniser fed by a base station: a carrier of consecutive  *)
(* bursts, some of which the demodulator garbles or cuts, read in chunks   *)
(* by main (src/tetra-rx.c).  The TDMA time of the receiver is abstracted  *)
(* to a slot number modulo Cycle (see TetraTdma, whose clock implements    *)
(* that counter); a decoded SYNC PDU sets it, every burst taken from the   *)
(* buffer advances it.                                                     *)
(***************************************************************************)
EXTENDS BurstSync

CONSTANTS
  Cycle,         \* slots the time distinguishes (4 * 18 * 60)
  SyncPeriod,    \* at most so many normal bursts between two SYNC bursts
  MaxSlips,      \* bound: how often the demodulator loses bits
  MaxClean       \* bound: clean bursts counted

(* Clean bursts after which the receiver must be locked: one of which the  *)
(* buffer has not all, the normal ones up to a SYNC burst, this one, and   *)
(* what a search behind the first SYNC burst may be late; and after which  *)
(* its time must be right.                                                 *)
RelockBursts == SyncPeriod + 3
ClockBursts  == 2 * SyncPeriod + 3

ASSUME AirAssumption ==
  /\ SyncOffset + NextOffset = BitsPerTS
  /\ ReadSize < SyncOffset + SyncLen /\ ReadSize < NormOffset + NormLen
  /\ {Cycle, SyncPeriod} \subseteq Nat \ {0}
  /\ MaxSlips \in Nat /\ MaxClean \in Nat /\ MaxClean >= ClockBursts

VARIABLES
  airType,     \* the burst on the air: SYNC, NORM, or HOLE (garbled)
  airPos,      \* bits of it that were read
  airSlot,     \* its slot number
  sinceSync,   \* normal bursts since the last SYNC burst
  clean,       \* history: complete bursts since the last disturbance, or
               \* since a lock was lost
  slips,       \* how often bits were lost
  cut,         \* history: bits received when some were lost last
  trusted,     \* history: the frame start comes from a SYNC burst behind the cut
  clock        \* t_phy_state.time, as a slot number

airVars == <<airType, airPos, airSlot, sinceSync, clean, slips, cut, trusted>>
linkVars == <<vars, airVars, clock>>

-----------------------------------------------------------------------------
(* The base station: what it may send next.                                *)
NextTypes == {"SYNC", "HOLE"} \cup (IF sinceSync < SyncPeriod THEN {"NORM"} ELSE {})

AirEnds(len) == airPos + len >= BitsPerTS

(* crcOk: a SYNC burst whose block does not decode disturbs the link too.  *)
Disturbed(len, crcOk) == ~crcOk \/ (AirEnds(len) /\ airType = "HOLE")
LockLost == state # "UNLOCKED" /\ state' = "UNLOCKED"

AirAdvance(len, type, crcOk) ==
  /\ airPos' = (airPos + len) % BitsPerTS
  /\ IF AirEnds(len)
       THEN /\ airType' = type
            /\ airSlot' = (airSlot + 1) % Cycle
            /\ sinceSync' = IF type = "NORM" THEN sinceSync + 1 ELSE 0
       ELSE UNCHANGED <<airType, airSlot, sinceSync>>
  /\ clean' = CASE Disturbed(len, crcOk) \/ LockLost -> 0
                [] OTHER -> IF AirEnds(len) /\ clean < MaxClean THEN clean + 1 ELSE clean

(* The training sequence that the next len bits complete, if any, unless   *)
(* its first bits have already left the buffer.                            *)
AirTrainOff(len, type) == Bits(len) - (airPos + len) + PlaceOf(type)

AirTrains(len, from) ==
  {[off |-> AirTrainOff(len, type), type |-> type, from |-> from] :
     type \in {u \in Types : /\ u = airType /\ AirTrainOff(len, u) >= 0
                             /\ PlaceOf(u) + LenOf(u) \in (airPos + 1)..(airPos + len)}}

(* tetra_tdma_time_add_tn for every burst taken; the SYNC PDU of a burst   *)
(* whose CRC is good then sets the time to the slot it was sent in.        *)
TakenSlot == (airSlot' - ((bitsInBuf' + BitsPerTS - airPos') \div BitsPerTS)) % Cycle

SyncTaken == ticked' /\ burst'.type = "SYNC"

KeepTimeNoSync(crcOk) ==
  clock' = IF ticked' THEN (clock + 1) % Cycle ELSE clock

KeepTime(crcOk) ==
  clock' = CASE SyncTaken /\ crcOk -> TakenSlot
             [] ticked' /\ ~(SyncTaken /\ crcOk) -> (clock + 1) % Cycle
             [] ~ticked' -> clock

(* History: where the frame start that was just found comes from.          *)
JudgeFrameStart ==
  trusted' = IF state = "UNLOCKED" /\ state' = "KNOW_FSTART"
               THEN nextFrame' - NextOffset >= cut
               ELSE trusted

ReadChunk(len, type, crcOk) ==
  /\ \E from \in SeenFrom : SyncIn(len, AirTrains(len, from))
  /\ ~crcOk => SyncTaken
  /\ AirAdvance(len, type, crcOk)
  /\ KeepTime(crcOk)
  /\ JudgeFrameStart
  /\ UNCHANGED <<slips, cut>>

(* The demodulator loses n bits of the burst on the air, perhaps with its  *)
(* training sequence or a part of it.                                      *)
Slip(n) ==
  /\ slips < MaxSlips
  /\ airPos + n < BitsPerTS
  /\ airPos' = airPos + n
  /\ airType' = IF \A type \in Types : airType = type =>
                      \/ airPos + n <= PlaceOf(type)
                      \/ PlaceOf(type) + LenOf(type) <= airPos
                   THEN airType ELSE "HOLE"
  /\ clean' = 0
  /\ slips' = slips + 1 /\ cut' = received /\ trusted' = FALSE
  /\ UNCHANGED <<vars, airSlot, sinceSync, clock>>

AirInit ==
  /\ Init
  /\ airType = "HOLE" /\ airPos \in 0..(BitsPerTS - 1) /\ airSlot = 0
  /\ sinceSync = 0 /\ clean = 0 /\ slips = 0 /\ clock = 0
  /\ cut = 0 /\ trusted = TRUE

AirNext ==
  \/ \E len \in 1..ReadSize, type \in NextTypes, crcOk \in BOOLEAN :
       ReadChunk(len, type, crcOk)
  \/ \E n \in 1..(BitsPerTS - 1) : Slip(n)

AirSpec == AirInit /\ [][AirNext]_linkVars

-----------------------------------------------------------------------------
(* The head of the buffer is the first bit of a burst of the base station. *)
Aligned == (airPos - bitsInBuf) % BitsPerTS = 0

(* The slot of the burst that was taken from the buffer last.              *)
LastTaken == (airSlot - ((bitsInBuf + BitsPerTS - airPos) \div BitsPerTS)) % Cycle

(* A lock is a lock on the base station's bursts, and the frame start that *)
(* is waited for (next_frame_start_bitnum, tetra_burst_sync.c) is the      *)
(* start of one: garbled bursts and training sequences that straddle two   *)
(* reads never shift the frames the receiver cuts, as long as no bits are  *)
(* lost after the SYNC training sequence the start was computed from.      *)
FramesAreBursts ==
  trusted =>
    /\ state = "LOCKED" => Aligned
    /\ state = "KNOW_FSTART" => (nextFrame - received + airPos) % BitsPerTS = 0

(* A lock on the base station's bursts outlives everything but a garbled   *)
(* burst: losing it is never the receiver's own fault.                     *)
LockHolds ==
  [][ Unwrapped' =>
        (state = "LOCKED" /\ trusted /\ LockLost => airType = "HOLE") ]_linkVars

(* Recovery: however a lock was lost, RelockBursts undisturbed bursts later *)
(* the receiver is locked, without any help from above.                    *)
RelocksInTime == clean >= RelockBursts => state = "LOCKED"

(* After ClockBursts undisturbed bursts the receiver's time is the slot of *)
(* the burst it just took, although the burst that gave the lock was never *)
(* decoded and the clock stood still while unlocked.                       *)
ClockCatchesUp == clean >= ClockBursts /\ trusted => clock = LastTaken
=============================================================================
