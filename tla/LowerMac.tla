------------------------------ MODULE LowerMac ------------------------------
(***************************************************************************)
(* The lower MAC, src/lower_mac/tetra_lower_mac.c, between the bursts that *)
(* tetra_burst_rx_cb splits into blocks (src/phy/tetra_burst.c) and the    *)
(* PDU handlers of src/tetra_upper_mac.c.  A block is a call of            *)
(* tp_sap_udata_ind: it is dumped as traffic or decoded, and a decoded     *)
(* block is handed up PDU by PDU.  What a block is depends on what earlier *)
(* blocks of the burst said: the AACH that the slot carries traffic, the   *)
(* first half slot that the second one is stolen too, SB1 what time it is. *)
(*                                                                         *)
(* The bits of a block are abstracted to what the PDUs in it say; the      *)
(* reassembly of fragments is in FragSlots, the cipher in CryptoState.     *)
(***************************************************************************)
EXTENDS Integers, Sequences

CONSTANTS
  AccessAssigns,  \* what an ACCESS-ASSIGN may say: header and field 1
  Ssis,         \* subscriber identities
  PduBits,      \* lengths that MAC PDUs give, in bits (0: a MAC-END may)
  DumpDirs,     \* whether -d DUMPDIR was given
  AirTimes,     \* the time on the air before the first burst
  Word,         \* number of values of an uint32_t (2^32)
  MaxBursts     \* bound: bursts received

ASSUME LowerMacAssumption ==
  /\ AccessAssigns \subseteq [hdr : 0..3, field1 : 0..63]
  /\ AirTimes \subseteq [hn : {0}, mn : 1..60, fn : 1..18, tn : 1..4, sn : {0}]
  /\ PduBits \subseteq Nat /\ Ssis \subseteq Nat \ {0}
  /\ DumpDirs \subseteq BOOLEAN
  /\ MaxBursts \in Nat /\ Word \in Nat /\ Word > 1024

VARIABLES
  phyTime,      \* t_phy_state.time
  cellTime,     \* tcd->time
  calls,        \* calls of tp_sap_udata_ind that are left of the burst
  prim,         \* the block whose PDUs are being parsed, and its offset
  round,        \* history: parity of the rounds of the loop over them
  curBurst,     \* tms->cur_burst
  ssi,          \* tms->ssi
  tsn,          \* tms->tsn
  dumpDir,      \* tms->dumpdir # NULL
  dump,         \* the block that the last call wrote to the dump files
  exited,       \* exit(1) was called
  airTime,      \* the time of the burst on the air
  synced,       \* history: a SYNC PDU was decoded
  said,         \* history: what the blocks of this burst said
  fates,        \* history: what became of the blocks of this burst
  bursts        \* bursts received

macVars == <<phyTime, cellTime, calls, prim, curBurst, ssi, tsn, dumpDir, dump, exited>>
history == <<synced, said, fates, round>>
vars == <<macVars, airTime, history, bursts>>

Tdma == INSTANCE TetraTdma WITH time <- phyTime

Call(type, blk) == [type |-> type, blk |-> blk]
NoPrim == [type |-> "NONE", blk |-> 0, offset |-> 0]
NoAach == [hdr |-> 0, field1 |-> 0]
NoDump == [usage |-> 0, tsn |-> 0, ssi |-> 0]
NotTraffic == [isTraffic |-> 0, blk1Stolen |-> FALSE, blk2Stolen |-> FALSE]

(* tetra_burst_rx_cb                                                       *)
BlocksAachLast(train) ==
  CASE train = "SYNC"   -> <<Call("SB1", 1), Call("SB2", 2), Call("BBK", 0)>>
    [] train = "NORM_2" -> <<Call("NDB", 1), Call("NDB", 2), Call("BBK", 0)>>
    [] train = "NORM_1" -> <<Call("SCH_F", 0), Call("BBK", 0)>>

Blocks(train) ==
  CASE train = "SYNC"   -> <<Call("SB1", 1), Call("BBK", 0), Call("SB2", 2)>>
    [] train = "NORM_2" -> <<Call("BBK", 0), Call("NDB", 1), Call("NDB", 2)>>
    [] train = "NORM_1" -> <<Call("BBK", 0), Call("SCH_F", 0)>>

(* tetra_blk_param[].type1_bits                                            *)
Type1Bits(type) ==
  CASE type = "SB1"   -> 60
    [] type = "SB2"   -> 124
    [] type = "NDB"   -> 124
    [] type = "SCH_F" -> 268
    [] type = "BBK"   -> 14

Between == calls = <<>> /\ prim = NoPrim /\ ~exited
Ready   == calls # <<>> /\ prim = NoPrim /\ ~exited

-----------------------------------------------------------------------------
(* A burst arrives; tetra_burst_sync_in advances the clock before it calls *)
(* tetra_burst_rx_cb.  aach is what the burst's AACH says.                 *)
RxBurst(train, aach) ==
  /\ Between
  /\ bursts < MaxBursts /\ bursts' = bursts + 1
  /\ phyTime' = Tdma!AddTn(phyTime, 1)
  /\ airTime' = Tdma!AddTn(airTime, 1)
  /\ calls' = Blocks(train)
  /\ said' = [aach |-> aach, stolen2 |-> FALSE] /\ fates' = {} /\ dump' = NoDump
  /\ UNCHANGED <<cellTime, prim, curBurst, ssi, tsn, dumpDir, exited, synced, round>>

(* The block is traffic to be dumped.                                      *)
IsDumped(c) ==
  /\ curBurst.isTraffic # 0
  /\ c.type = "SCH_F" \/ (c.blk = 2 /\ ~curBurst.blk2Stolen)

(* Every call starts with the PHY's time, and notes a stolen first half.   *)
BeginCall(c) ==
  /\ calls' = Tail(calls)
  /\ curBurst' = [curBurst EXCEPT !.blk1Stolen =
                    @ \/ (curBurst.isTraffic # 0 /\ c.type = "NDB" /\ c.blk = 1)]

Fate(c, f) == fates' = fates \cup {[type |-> c.type, blk |-> c.blk, fate |-> f]}

(* Append the block to the dump files of its usage marker and timeslot;    *)
(* without a directory to write to, fopen fails and the receiver exits.    *)
DumpTraffic ==
  /\ Ready
  /\ LET c == Head(calls) IN
       /\ IsDumped(c)
       /\ BeginCall(c) /\ Fate(c, "dumped")
  /\ cellTime' = phyTime
  /\ IF dumpDir
       THEN dump' = [usage |-> curBurst.isTraffic, tsn |-> tsn, ssi |-> ssi] /\ UNCHANGED exited
       ELSE exited' = TRUE /\ UNCHANGED dump
  /\ UNCHANGED <<phyTime, prim, round, ssi, tsn, dumpDir, airTime, synced, said, bursts>>

(* The CRC is wrong: the time stays, nothing is handed up.  The AACH has   *)
(* no CRC.                                                                 *)
DiscardBlock ==
  /\ Ready
  /\ LET c == Head(calls) IN
       /\ ~IsDumped(c) /\ c.type # "BBK"
       /\ BeginCall(c) /\ Fate(c, "decoded")
  /\ cellTime' = phyTime /\ dump' = NoDump
  /\ UNCHANGED <<phyTime, prim, round, ssi, tsn, dumpDir, exited, airTime, synced, said, bursts>>

(* The PDUs of a block are parsed while there is room for one more; the    *)
(* bound is an unsigned difference, which is huge for the AACH.            *)
LoopMore(type, offset) == offset < (Type1Bits(type) - 16) % Word

(* The time of the SYNC PDU becomes the time of the cell and of the PHY.   *)
TakeSyncTimeCellOnly(c) ==
  /\ cellTime' = IF c.type = "SB1" THEN airTime ELSE phyTime
  /\ UNCHANGED phyTime
  /\ synced' = (synced \/ c.type = "SB1")

TakeSyncTime(c) ==
  /\ cellTime' = IF c.type = "SB1" THEN airTime ELSE phyTime
  /\ phyTime' = cellTime'
  /\ synced' = (synced \/ c.type = "SB1")

DecodeBlock ==
  /\ Ready
  /\ LET c == Head(calls) IN
       /\ ~IsDumped(c)
       /\ BeginCall(c) /\ Fate(c, "decoded")
       /\ TakeSyncTime(c)
       /\ prim' = IF LoopMore(c.type, 0)
                    THEN [type |-> c.type, blk |-> c.blk, offset |-> 0]
                    ELSE NoPrim
  /\ dump' = NoDump
  /\ UNCHANGED <<round, ssi, tsn, dumpDir, exited, airTime, said, bursts>>

-----------------------------------------------------------------------------
(* One round of the loop over the PDUs of a block: rx_tmv_unitdata_ind.    *)
(* tetra_gsmtap_makemsg notes the timeslot number.                         *)
Parsing(types) == prim.type \in types

NoteTsnAsIs == tsn' = cellTime.tn
NoteTsn == tsn' = (cellTime.tn - 1) % 256

Done == prim' = NoPrim /\ round' = 0

AdvanceFromHead(len) ==
  /\ prim' = IF LoopMore(prim.type, len) THEN [prim EXCEPT !.offset = len] ELSE NoPrim
  /\ round' = 1 - round

Advance(len) ==
  /\ prim' = IF LoopMore(prim.type, prim.offset + len)
               THEN [prim EXCEPT !.offset = @ + len] ELSE NoPrim
  /\ round' = 1 - round

KeepParse == UNCHANGED <<phyTime, cellTime, calls, dumpDir, exited, airTime, synced, fates, bursts>>

(* macpdu_decode_access_assign: field 1 is the downlink usage marker, but  *)
(* not in frame 18 nor with header DLCC_ULCO, where it is an access field  *)
(* of the uplink.                                                          *)
DlccUlco == 0

DlUsageUnchecked(aach, f18) == IF f18 THEN 0 ELSE aach.field1
DlUsage(aach, f18) == IF f18 \/ aach.hdr = DlccUlco THEN 0 ELSE aach.field1

(* rx_aach: markers up to 3 do not stand for traffic.                      *)
AachState(usage) ==
  curBurst' = [NotTraffic EXCEPT !.isTraffic = IF usage > 3 THEN usage ELSE 0]

RxAach ==
  /\ Parsing({"BBK"})
  /\ AachState(DlUsage(said.aach, cellTime.fn = 18))
  /\ NoteTsn /\ Done
  /\ KeepParse /\ UNCHANGED <<ssi, dump, said>>

(* A SYNC PDU is not looked at by the upper MAC.                           *)
RxSync ==
  /\ Parsing({"SB1"})
  /\ NoteTsn /\ Done
  /\ KeepParse /\ UNCHANGED <<curBurst, ssi, dump, said>>

Signalling == {"SB2", "NDB", "SCH_F"}

NoOne == 0    \* ADDR_TYPE_NULL

(* A MAC-RESOURCE to no one ends the slot, any other notes the address.    *)
Address(to) ==
  ssi' = IF to = NoOne THEN ssi ELSE to

(* rx_resrc, length 2ND_STOLEN: the second half slot is stolen too.        *)
RxResrcStolen(to) ==
  /\ Parsing(Signalling)
  /\ curBurst' = [curBurst EXCEPT !.blk2Stolen = TRUE]
  /\ said' = [said EXCEPT !.stolen2 = @ \/ prim.blk = 1]
  /\ Address(to) /\ NoteTsn /\ Done
  /\ KeepParse /\ UNCHANGED dump

(* rx_resrc of a fragment start, or of an invalid length: fills the slot.  *)
RxResrcFill(to) ==
  /\ Parsing(Signalling)
  /\ Address(to) /\ NoteTsn /\ Done
  /\ KeepParse /\ UNCHANGED <<curBurst, dump, said>>

RxResrc(to, len) ==
  /\ Parsing(Signalling)
  /\ Address(to) /\ NoteTsn
  /\ len > 0 /\ IF to = NoOne THEN Done ELSE Advance(len)
  /\ KeepParse /\ UNCHANGED <<curBurst, dump, said>>

(* rx_macend *)
RxMacEnd(len) ==
  /\ Parsing(Signalling)
  /\ NoteTsn /\ Advance(len)
  /\ KeepParse /\ UNCHANGED <<curBurst, ssi, dump, said>>

(* rx_bcast, rx_suppl, rx_macfrag and unknown types fill the slot.         *)
RxFill ==
  /\ Parsing(Signalling)
  /\ NoteTsn /\ Done
  /\ KeepParse /\ UNCHANGED <<curBurst, ssi, dump, said>>

RxPdu ==
  \/ RxAach
  \/ RxSync
  \/ \E to \in Ssis \cup {NoOne} :
       RxResrcStolen(to) \/ RxResrcFill(to) \/ \E len \in PduBits : RxResrc(to, len)
  \/ \E len \in PduBits : RxMacEnd(len)
  \/ RxFill

-----------------------------------------------------------------------------
Zero == Tdma!ZeroTime

Init ==
  /\ phyTime = Zero /\ cellTime = Zero /\ airTime \in AirTimes
  /\ calls = <<>> /\ prim = NoPrim /\ curBurst = NotTraffic
  /\ round = 0 /\ ssi = 0 /\ tsn = 0 /\ dumpDir \in DumpDirs
  /\ dump = NoDump /\ exited = FALSE
  /\ synced = FALSE /\ said = [aach |-> NoAach, stolen2 |-> FALSE] /\ fates = {} /\ bursts = 0

Next ==
  \/ \E train \in {"SYNC", "NORM_1", "NORM_2"}, aach \in AccessAssigns : RxBurst(train, aach)
  \/ DumpTraffic \/ DiscardBlock \/ DecodeBlock
  \/ RxPdu

Spec == Init /\ [][Next]_vars

(* The receiver is one thread, which runs as long as there is work.        *)
FairSpec == Spec /\ WF_vars(Next)

-----------------------------------------------------------------------------
DlUsages == {0} \cup {a.field1 : a \in AccessAssigns}

(* Types.  "Slot 0 is unused" (upper_mac.h): the timeslot that indexes the *)
(* fragment slots is 1..4 from the first burst on, before any SYNC PDU too,*)
(* although the time starts with all fields 0.                             *)
TypeOK ==
  /\ {phyTime, cellTime, airTime} \subseteq [hn : {0}, mn : 0..60, fn : 0..18, tn : 0..4, sn : {0}]
  /\ calls \in Seq([type : {"SB1", "SB2", "NDB", "SCH_F", "BBK"}, blk : 0..2])
  /\ prim \in [type : {"SB1", "SB2", "NDB", "SCH_F", "BBK", "NONE"}, blk : 0..2, offset : 0..267]
  /\ curBurst \in [isTraffic : DlUsages, blk1Stolen : BOOLEAN, blk2Stolen : BOOLEAN]
  /\ ssi \in Ssis \cup {0} /\ tsn \in 0..3
  /\ dump \in [usage : DlUsages, tsn : 0..3, ssi : Ssis \cup {0}]
  /\ {dumpDir, exited, synced} \subseteq BOOLEAN /\ round \in 0..1
  /\ prim # NoPrim => cellTime.tn \in 1..4

(* A block is dumped as voice exactly when its own burst says so: the AACH *)
(* of the burst names a traffic channel (which it cannot in frame 18, nor  *)
(* with both fields about the uplink) and no PDU in the first half slot    *)
(* steals the second.  What earlier bursts said, which the flags still     *)
(* hold when SB1 of the next SYNC burst is handled, never takes a block    *)
(* away from the decoder or signalling into a dump file.                   *)
FateFollowsBurst ==
  synced => \A f \in fates :
    f.fate = "dumped" <=>
      /\ said.aach.hdr # DlccUlco /\ said.aach.field1 > 3 /\ airTime.fn # 18
      /\ f.type = "SCH_F" \/ (f.blk = 2 /\ ~said.stolen2)

(* A dumped block goes to the file of the usage marker of its own burst    *)
(* and of the timeslot it was received in, although both are left behind   *)
(* by the PDU handlers of an earlier block (tms->cur_burst, tms->tsn).     *)
DumpNamesItsBurst ==
  dump # NoDump => dump.usage = said.aach.field1 /\ dump.tsn + 1 = cellTime.tn

(* Once a SYNC PDU was decoded, every PDU is handed up with the time on    *)
(* the air, that SYNC PDU itself included, and every block after it.       *)
PduTimeIsAirTime == synced /\ prim # NoPrim => cellTime = airTime

(* The loop over the PDUs of a block comes to its end, as long as every    *)
(* PDU with a length has one: otherwise the read loop never runs again.    *)
BlockEnds == prim # NoPrim ~> prim = NoPrim
=============================================================================
