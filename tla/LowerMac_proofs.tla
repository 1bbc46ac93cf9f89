--------------------------- MODULE LowerMac_proofs ---------------------------
(***************************************************************************)
(* Proofs about LowerMac, for every set of ACCESS-ASSIGN PDUs, addresses   *)
(* and PDU lengths, every time on the air and any number of bursts.        *)
(*                                                                         *)
(* The invariant MacInv follows a burst through its blocks: which calls of *)
(* tp_sap_udata_ind are left (BlockStage), what the receiver's times have  *)
(* to do with the time on the air (OnTime), and what the AACH and the      *)
(* first half slot have left in tms for the blocks behind them (AachNoted).*)
(***************************************************************************)
EXTENDS LowerMac, TLAPS

CallType == [type : {"SB1", "SB2", "NDB", "SCH_F", "BBK"}, blk : 0..2]

(* What is left of a burst after some of its calls.                        *)
Stages ==
  {<<>>,
   <<Call("SB1", 1), Call("BBK", 0), Call("SB2", 2)>>,
   <<Call("BBK", 0), Call("SB2", 2)>>, <<Call("SB2", 2)>>,
   <<Call("BBK", 0), Call("NDB", 1), Call("NDB", 2)>>,
   <<Call("NDB", 1), Call("NDB", 2)>>, <<Call("NDB", 2)>>,
   <<Call("BBK", 0), Call("SCH_F", 0)>>, <<Call("SCH_F", 0)>>}

(* The AACH of the burst is still to be decoded.                           *)
AachAhead(q) == q # <<>> /\ Head(q).type \in {"SB1", "BBK"}

BlockStage ==
  /\ calls \in Stages
  /\ prim.type \in Signalling => ~AachAhead(calls) /\ (prim.blk = 1 <=> calls # <<>>)
  /\ prim.type \in {"SB1", "BBK"} => prim.offset = 0
  /\ (AachAhead(calls) \/ prim.type = "BBK") => ~said.stolen2
  /\ calls # <<>> => \A f \in fates : f.blk # 2 /\ f.type # "SCH_F"
  /\ (calls # <<>> /\ Head(calls).type = "SB1") => fates = {}

SaidType == said \in [aach : AccessAssigns \cup {NoAach}, stolen2 : BOOLEAN]

OnTime ==
  /\ airTime.tn \in 1..4
  /\ synced => phyTime = airTime
  /\ (calls # <<>> \/ prim # NoPrim) => phyTime.tn \in 1..4
  /\ prim # NoPrim => cellTime = phyTime /\ dump = NoDump
  /\ dump # NoDump => dumpDir

AachNoted ==
  (calls # <<>> /\ ~AachAhead(calls) /\ prim.type # "BBK") =>
    /\ curBurst.blk2Stolen = said.stolen2
    /\ tsn + 1 = phyTime.tn
    /\ curBurst.isTraffic \in {0, said.aach.field1}
    /\ synced => (curBurst.isTraffic # 0 <=>
                    said.aach.hdr # DlccUlco /\ said.aach.field1 > 3 /\ airTime.fn # 18)

MacInv == /\ TypeOK /\ BlockStage /\ SaidType /\ OnTime /\ AachNoted
          /\ FateFollowsBurst /\ DumpNamesItsBurst

-----------------------------------------------------------------------------
(* Head and tail of the calls that a burst can leave.                      *)
LEMMA ShortSequences ==
  ASSUME NEW a, NEW b, NEW c
  PROVE  /\ Head(<<a, b, c>>) = a /\ Tail(<<a, b, c>>) = <<b, c>>
         /\ Head(<<a, b>>) = a /\ Tail(<<a, b>>) = <<b>>
         /\ Head(<<a>>) = a /\ Tail(<<a>>) = <<>>
         /\ <<a>> # <<>> /\ <<a, b>> # <<>> /\ <<a, b, c>> # <<>>
  OBVIOUS

(* A block of a burst and the blocks behind it.                            *)
CallThenRest(c, q) ==
  /\ c \in CallType /\ q \in Stages
  /\ c.type = "SB1" => c.blk = 1 /\ q # <<>> /\ Head(q).type = "BBK"
  /\ c.type = "BBK" => c.blk = 0 /\ q # <<>> /\ ~AachAhead(q)
  /\ c.type \in Signalling => (c.blk = 1 <=> q # <<>>) /\ ~AachAhead(q)
  /\ q # <<>> => c.blk # 2 /\ c.type # "SCH_F" /\ Head(q).type # "SB1"

(* What is left of a burst is one of few rows of calls; each begins with a *)
(* call whose followers are these.                                         *)
LEMMA StageCalls ==
  ASSUME NEW q \in Stages, q # <<>>
  PROVE  CallThenRest(Head(q), Tail(q))
<1> USE ShortSequences DEF CallThenRest, CallType, Stages, Call, Signalling, AachAhead
<1>1. CASE q = <<Call("SB1", 1), Call("BBK", 0), Call("SB2", 2)>> BY <1>1
<1>2. CASE q = <<Call("BBK", 0), Call("SB2", 2)>> BY <1>2
<1>3. CASE q = <<Call("SB2", 2)>> BY <1>3
<1>4. CASE q = <<Call("BBK", 0), Call("NDB", 1), Call("NDB", 2)>> BY <1>4
<1>5. CASE q = <<Call("NDB", 1), Call("NDB", 2)>> BY <1>5
<1>6. CASE q = <<Call("NDB", 2)>> BY <1>6
<1>7. CASE q = <<Call("BBK", 0), Call("SCH_F", 0)>> BY <1>7
<1>8. CASE q = <<Call("SCH_F", 0)>> BY <1>8
<1> QED BY <1>1, <1>2, <1>3, <1>4, <1>5, <1>6, <1>7, <1>8

(* The rows are rows of calls.                                             *)
LEMMA StagesAreCalls == Stages \subseteq Seq(CallType)
<1> SUFFICES ASSUME NEW q \in Stages PROVE q \in Seq(CallType) OBVIOUS
<1>1. \A t \in {"SB1", "SB2", "NDB", "SCH_F", "BBK"}, b \in 0..2 : Call(t, b) \in CallType
  BY DEF Call, CallType
<1>2. \A a, b, c \in CallType :
        <<>> \in Seq(CallType) /\ <<a>> \in Seq(CallType) /\ <<a, b>> \in Seq(CallType)
        /\ <<a, b, c>> \in Seq(CallType)
  OBVIOUS
<1>3. /\ Call("SB1", 1) \in CallType /\ Call("BBK", 0) \in CallType
      /\ Call("SB2", 2) \in CallType /\ Call("SCH_F", 0) \in CallType
      /\ Call("NDB", 1) \in CallType /\ Call("NDB", 2) \in CallType
  BY <1>1
<1> HIDE DEF Call, CallType
<1> QED BY <1>2, <1>3 DEF Stages

(* A burst starts with its AACH ahead.                                     *)
LEMMA BurstStage ==
  ASSUME NEW train \in {"SYNC", "NORM_1", "NORM_2"}
  PROVE  Blocks(train) \in Stages /\ AachAhead(Blocks(train))
<1>1. CASE train = "SYNC" BY <1>1, ShortSequences DEF Blocks, Stages, AachAhead, Call
<1>2. CASE train = "NORM_1" BY <1>2, ShortSequences DEF Blocks, Stages, AachAhead, Call
<1>3. CASE train = "NORM_2" BY <1>3, ShortSequences DEF Blocks, Stages, AachAhead, Call
<1> QED BY <1>1, <1>2, <1>3

-----------------------------------------------------------------------------
ClockTime == [hn : {0}, mn : 0..60, fn : 0..18, tn : 0..4, sn : {0}]

At(m, f, t) == [hn |-> 0, mn |-> m, fn |-> f, tn |-> t, sn |-> 0]

(* A time of the clock is its three fields.                                *)
LEMMA AtFields ==
  /\ \A tm \in ClockTime : /\ tm = At(tm.mn, tm.fn, tm.tn)
                           /\ tm.mn \in 0..60 /\ tm.fn \in 0..18 /\ tm.tn \in 0..4
  /\ \A m, f, t : /\ At(m, f, t).mn = m /\ At(m, f, t).fn = f /\ At(m, f, t).tn = t
                  /\ m \in 0..60 /\ f \in 0..18 /\ t \in 0..4 => At(m, f, t) \in ClockTime
  /\ \A m, f, t, n : /\ Tdma!WithTn(At(m, f, t), n) = At(m, f, n)
                     /\ Tdma!WithFn(At(m, f, t), n) = At(m, n, t)
                     /\ Tdma!WithMn(At(m, f, t), n) = At(n, f, t)
BY DEF At, ClockTime, Tdma!WithTn, Tdma!WithFn, Tdma!WithMn

(* One burst later, also from the time of all zeros.                       *)
LEMMA NextTime ==
  ASSUME NEW tm \in ClockTime
  PROVE  Tdma!AddTn(tm, 1) \in ClockTime /\ Tdma!AddTn(tm, 1).tn \in 1..4
<1>1. PICK m \in 0..60, f \in 0..18, t \in 0..4 : tm = At(m, f, t) BY AtFields
<1>2. Tdma!AddTn(tm, 1) = Tdma!NormalizeTn(At(m, f, t + 1)) BY <1>1, AtFields DEF Tdma!AddTn
<1>3. CASE t < 4
  <2>1. Tdma!NormalizeTn(At(m, f, t + 1)) = At(m, f, t + 1)
    BY <1>3, AtFields DEF Tdma!NormalizeTn, Tdma!NormalizeFn, Tdma!NormalizeMn
  <2>2. t + 1 \in 0..4 /\ t + 1 \in 1..4 BY <1>3
  <2> QED BY <1>2, <2>1, <2>2, AtFields
<1>4. CASE t = 4
  <2>1. Tdma!NormalizeTn(At(m, f, t + 1)) = Tdma!NormalizeFn(At(m, f + 1, 1))
    <3>1. t + 1 = 5 /\ 5 > 4 /\ 5 % 4 = 1 /\ 5 \div 4 = 1 BY <1>4
    <3> QED BY <3>1, AtFields DEF Tdma!NormalizeTn
  <2>2. CASE f < 18
    <3>1. f + 1 \in 0..18 /\ ~(f + 1 > 18) /\ ~(m > 60) BY <2>2
    <3>2. Tdma!NormalizeFn(At(m, f + 1, 1)) = At(m, f + 1, 1)
      BY <3>1, AtFields DEF Tdma!NormalizeFn, Tdma!NormalizeMn
    <3> QED BY <1>2, <2>1, <3>1, <3>2, AtFields
  <2>3. CASE f = 18
    <3>1. f + 1 = 19 /\ 19 > 18 /\ 19 % 18 = 1 /\ 19 \div 18 = 1 BY <2>3
    <3>2. Tdma!NormalizeFn(At(m, f + 1, 1)) = Tdma!NormalizeMn(At(m + 1, 1, 1))
      BY <3>1, AtFields DEF Tdma!NormalizeFn
    <3>3. CASE m < 60
      <4>1. m + 1 \in 0..60 /\ ~(m + 1 > 60) BY <3>3
      <4>2. Tdma!NormalizeMn(At(m + 1, 1, 1)) = At(m + 1, 1, 1)
        BY <4>1, AtFields DEF Tdma!NormalizeMn
      <4> QED BY <1>2, <2>1, <3>2, <4>1, <4>2, AtFields
    <3>4. CASE m = 60
      <4>1. m + 1 = 61 /\ 61 > 60 /\ 61 % 60 = 1 BY <3>4
      <4>2. Tdma!NormalizeMn(At(m + 1, 1, 1)) = At(1, 1, 1)
        BY <4>1, AtFields DEF Tdma!NormalizeMn
      <4> QED BY <1>2, <2>1, <3>2, <4>2, AtFields
    <3> QED BY <3>3, <3>4
  <2> QED BY <2>2, <2>3
<1> QED BY <1>3, <1>4

(* The loop over the PDUs begins for every block, and goes on within the   *)
(* block only: the bound is taken modulo a word.                           *)
LEMMA Bounds ==
  ASSUME NEW type \in {"SB1", "SB2", "NDB", "SCH_F", "BBK"}
  PROVE  /\ LoopMore(type, 0)
         /\ type \in Signalling => \A n \in Nat : LoopMore(type, n) => n < 252
<1>1. Word \in Nat /\ Word > 1024 BY LowerMacAssumption
<1>2. 44 % Word = 44 /\ 108 % Word = 108 /\ 252 % Word = 252 BY <1>1
<1>3. (14 - 16) % Word > 0
  <2>1. (14 - 16) % Word = Word - 2 BY <1>1
  <2> QED BY <1>1, <2>1
<1>4. /\ 60 - 16 = 44 /\ 124 - 16 = 108 /\ 268 - 16 = 252
  OBVIOUS
<1> QED BY <1>2, <1>3, <1>4 DEF LoopMore, Type1Bits, Signalling

-----------------------------------------------------------------------------
(* Before the first burst.                                                 *)
LEMMA InitHolds == Init => MacInv
<1> SUFFICES ASSUME Init PROVE MacInv OBVIOUS
<1>1. phyTime = At(0, 0, 0) /\ cellTime = At(0, 0, 0)
  BY DEF Init, Zero, Tdma!ZeroTime, At
<1>2. At(0, 0, 0) \in ClockTime /\ airTime \in ClockTime /\ airTime.tn \in 1..4
  BY AtFields, LowerMacAssumption DEF Init, ClockTime
<1>3. calls \in Stages /\ calls = <<>> /\ calls \in Seq(CallType)
  BY StagesAreCalls DEF Init, Stages
<1>4. TypeOK
  <2>1. /\ prim \in [type : {"SB1", "SB2", "NDB", "SCH_F", "BBK", "NONE"}, blk : 0..2,
                     offset : 0..267]
        /\ curBurst \in [isTraffic : DlUsages, blk1Stolen : BOOLEAN, blk2Stolen : BOOLEAN]
        /\ dump \in [usage : DlUsages, tsn : 0..3, ssi : Ssis \cup {0}]
    BY DEF Init, NoPrim, NotTraffic, DlUsages, NoDump
  <2>2. {dumpDir, exited, synced} \subseteq BOOLEAN BY LowerMacAssumption DEF Init
  <2>3. ssi \in Ssis \cup {0} /\ tsn \in 0..3 /\ round \in 0..1 /\ prim = NoPrim BY DEF Init
  <2> QED BY <1>1, <1>2, <1>3, <2>1, <2>2, <2>3 DEF TypeOK, ClockTime, CallType
<1>5. BlockStage BY <1>3 DEF Init, BlockStage, NoPrim, Signalling, AachAhead
<1>6. SaidType BY DEF Init, SaidType
<1>7. OnTime BY <1>2, <1>3 DEF Init, OnTime
<1>8. AachNoted BY <1>3 DEF AachNoted
<1>9. FateFollowsBurst /\ DumpNamesItsBurst BY DEF Init, FateFollowsBurst, DumpNamesItsBurst
<1> QED BY <1>4, <1>5, <1>6, <1>7, <1>8, <1>9 DEF MacInv

(* A burst that comes in: the clock ticks, the last dump is forgotten, and *)
(* the calls for its blocks are due.                                       *)
LEMMA BurstStep ==
  ASSUME MacInv, NEW train \in {"SYNC", "NORM_1", "NORM_2"}, NEW aach \in AccessAssigns,
         RxBurst(train, aach)
  PROVE  MacInv'
<1> USE DEF MacInv, RxBurst
<1>1. calls' \in Stages /\ AachAhead(calls') /\ calls' \in Seq(CallType)
  BY BurstStage, StagesAreCalls
<1>2. phyTime' \in ClockTime /\ phyTime'.tn \in 1..4
  BY NextTime DEF TypeOK, ClockTime
<1>3. airTime' \in ClockTime /\ airTime'.tn \in 1..4
  BY NextTime DEF TypeOK, ClockTime
<1>4. prim = NoPrim /\ prim' = NoPrim BY DEF Between
<1>5. TypeOK'
  BY <1>1, <1>2, <1>3, <1>4 DEF TypeOK, ClockTime, CallType, NoDump, DlUsages
<1>6. BlockStage'
  BY <1>1, <1>4 DEF BlockStage, NoPrim, Signalling
<1>7. SaidType' BY DEF SaidType
<1>8. OnTime' BY <1>2, <1>3, <1>4 DEF OnTime
<1>9. AachNoted' BY <1>1 DEF AachNoted
<1>10. FateFollowsBurst' /\ DumpNamesItsBurst' BY DEF FateFollowsBurst, DumpNamesItsBurst
<1> QED BY <1>5, <1>6, <1>7, <1>8, <1>9, <1>10

(* What every call of tp_sap_udata_ind does to the calls that are left,    *)
(* the flags and the fates: the block is dumped exactly if its burst says  *)
(* so, and the blocks behind it find the flags as before.                  *)
LEMMA CallBegins ==
  ASSUME MacInv, Ready, NEW f \in {"dumped", "decoded"},
         BeginCall(Head(calls)), Fate(Head(calls), f), f = "dumped" <=> IsDumped(Head(calls)),
         airTime' = airTime, said' = said, cellTime' = phyTime',
         synced' => synced \/ Head(calls).type = "SB1"
  PROVE  /\ CallThenRest(Head(calls), calls')
         /\ calls' \in Seq(CallType) /\ curBurst' \in [isTraffic : DlUsages, blk1Stolen : BOOLEAN, blk2Stolen : BOOLEAN]
         /\ curBurst'.isTraffic = curBurst.isTraffic /\ curBurst'.blk2Stolen = curBurst.blk2Stolen
         /\ calls' # <<>> => \A g \in fates' : g.blk # 2 /\ g.type # "SCH_F"
         /\ FateFollowsBurst'
<1> DEFINE c == Head(calls)
<1>1. calls # <<>> /\ calls \in Stages /\ prim = NoPrim /\ ~exited
  BY DEF Ready, MacInv, BlockStage
<1>2. calls' = Tail(calls) BY DEF BeginCall
<1>3. CallThenRest(c, calls') BY <1>1, <1>2, StageCalls
<1>4. calls' \in Seq(CallType) BY <1>3, StagesAreCalls DEF CallThenRest
<1>5. /\ curBurst' \in [isTraffic : DlUsages, blk1Stolen : BOOLEAN, blk2Stolen : BOOLEAN]
      /\ curBurst'.isTraffic = curBurst.isTraffic /\ curBurst'.blk2Stolen = curBurst.blk2Stolen
  BY DEF BeginCall, MacInv, TypeOK
<1> DEFINE r == [type |-> c.type, blk |-> c.blk, fate |-> f]
<1>6. fates' = fates \cup {r} /\ r.type = c.type /\ r.blk = c.blk /\ r.fate = f
  BY DEF Fate
<1> HIDE DEF c, r
<1>7. calls' # <<>> => \A g \in fates' : g.blk # 2 /\ g.type # "SCH_F"
  BY <1>1, <1>3, <1>6 DEF CallThenRest, MacInv, BlockStage
<1>8. c \in CallType /\ (c.type = "SB1" => c.blk = 1) /\ (c.type = "BBK" => c.blk = 0)
  BY <1>3 DEF CallThenRest
<1>9. FateFollowsBurst'
  <2> SUFFICES ASSUME synced', NEW g \in fates'
               PROVE  g.fate = "dumped" <=>
                        /\ said.aach.hdr # DlccUlco /\ said.aach.field1 > 3 /\ airTime.fn # 18
                        /\ g.type = "SCH_F" \/ (g.blk = 2 /\ ~said.stolen2)
    BY DEF FateFollowsBurst
  <2>1. CASE c.type \in {"SB1", "BBK"}
    <3>1. ~IsDumped(c) BY <1>8, <2>1 DEF IsDumped
    <3>2. f = "decoded" BY <3>1 DEF c
    <3>3. g = r => g.blk # 2 /\ g.type # "SCH_F" /\ g.fate = "decoded"
      BY <1>6, <1>8, <2>1, <3>2
    <3>4. g # r => g \in fates /\ synced
      BY <1>1, <1>6 DEF c, MacInv, BlockStage
    <3> QED BY <3>3, <3>4 DEF MacInv, FateFollowsBurst
  <2>2. CASE c.type \notin {"SB1", "BBK"}
    <3>1. synced BY <2>2 DEF c
    <3>2. /\ curBurst.blk2Stolen = said.stolen2
          /\ curBurst.isTraffic # 0 <=>
               said.aach.hdr # DlccUlco /\ said.aach.field1 > 3 /\ airTime.fn # 18
      BY <1>1, <2>2, <3>1 DEF MacInv, AachNoted, AachAhead, c, NoPrim
    <3>3. CASE g = r
      BY <1>6, <3>2, <3>3 DEF IsDumped, c
    <3>4. CASE g \in fates
      BY <3>1, <3>4 DEF MacInv, FateFollowsBurst
    <3> QED BY <1>6, <3>3, <3>4
  <2> QED BY <2>1, <2>2
<1> QED BY <1>3, <1>4, <1>5, <1>7, <1>9 DEF c

-----------------------------------------------------------------------------
(* A call that hands nothing up: a block that is dumped as traffic ...     *)
LEMMA DumpStep == ASSUME MacInv, DumpTraffic PROVE MacInv'
<1> DEFINE c == Head(calls)
<1>1. /\ calls # <<>> /\ prim = NoPrim /\ prim' = NoPrim /\ IsDumped(c)
      /\ cellTime' = phyTime /\ phyTime' = phyTime /\ airTime' = airTime
      /\ synced' = synced /\ said' = said /\ ssi' = ssi /\ tsn' = tsn
      /\ round' = round /\ dumpDir' = dumpDir
  BY DEF DumpTraffic, Ready
<1>2. /\ CallThenRest(c, calls') /\ calls' \in Seq(CallType)
      /\ curBurst' \in [isTraffic : DlUsages, blk1Stolen : BOOLEAN, blk2Stolen : BOOLEAN]
      /\ curBurst'.isTraffic = curBurst.isTraffic /\ curBurst'.blk2Stolen = curBurst.blk2Stolen
      /\ calls' # <<>> => \A g \in fates' : g.blk # 2 /\ g.type # "SCH_F"
      /\ FateFollowsBurst'
  BY <1>1, CallBegins DEF DumpTraffic
<1> HIDE DEF c
<1>3. c.type \notin {"SB1", "BBK"} /\ curBurst.isTraffic # 0 /\ calls' = <<>>
  BY <1>1, <1>2 DEF CallThenRest, IsDumped, CallType, Signalling
<1>4. /\ curBurst.isTraffic = said.aach.field1 /\ tsn + 1 = phyTime.tn /\ phyTime.tn \in 1..4
  BY <1>1, <1>3 DEF MacInv, AachNoted, AachAhead, NoPrim, OnTime, c
<1>5. /\ dump' = IF dumpDir THEN [usage |-> curBurst.isTraffic, tsn |-> tsn, ssi |-> ssi] ELSE dump
      /\ exited' \in BOOLEAN
  BY DEF DumpTraffic, MacInv, TypeOK
<1>6. TypeOK'
  <2>1. dump' \in [usage : DlUsages, tsn : 0..3, ssi : Ssis \cup {0}]
    BY <1>5 DEF MacInv, TypeOK
  <2> QED BY <1>1, <1>2, <1>5, <2>1 DEF MacInv, TypeOK, CallType
<1>7. BlockStage'
  BY <1>1, <1>2, <1>3 DEF CallThenRest, BlockStage, NoPrim, Signalling, AachAhead
<1>8. SaidType' /\ OnTime' /\ AachNoted'
  BY <1>1, <1>3, <1>5 DEF MacInv, SaidType, OnTime, AachNoted
<1>9. DumpNamesItsBurst'
  BY <1>1, <1>4, <1>5 DEF MacInv, OnTime, DumpNamesItsBurst
<1> QED BY <1>2, <1>6, <1>7, <1>8, <1>9 DEF MacInv

(* ... or whose CRC is wrong, or one that is decoded and handed up.        *)
LEMMA DecodeStep ==
  ASSUME MacInv, DiscardBlock \/ DecodeBlock
  PROVE  MacInv'
<1> DEFINE c == Head(calls)
           NewPrim == [type |-> c.type, blk |-> c.blk, offset |-> 0]
<1>1. /\ Ready /\ calls # <<>> /\ prim = NoPrim /\ ~IsDumped(c) /\ BeginCall(c)
      /\ Fate(c, "decoded") /\ airTime' = airTime /\ dump' = NoDump
      /\ said' = said /\ ssi' = ssi /\ tsn' = tsn
      /\ round' = round /\ dumpDir' = dumpDir /\ exited' = exited
  BY DEF DiscardBlock, DecodeBlock, Ready
<1>2. \/ phyTime' = phyTime /\ synced' = synced
      \/ c.type = "SB1" /\ phyTime' = airTime /\ synced' = TRUE
  BY DEF DiscardBlock, DecodeBlock, TakeSyncTime, MacInv, TypeOK
<1>3. cellTime' = phyTime' BY DEF DiscardBlock, DecodeBlock, TakeSyncTime
<1>4. /\ CallThenRest(c, calls') /\ calls' \in Seq(CallType)
      /\ curBurst' \in [isTraffic : DlUsages, blk1Stolen : BOOLEAN, blk2Stolen : BOOLEAN]
      /\ curBurst'.isTraffic = curBurst.isTraffic /\ curBurst'.blk2Stolen = curBurst.blk2Stolen
      /\ calls' # <<>> => \A g \in fates' : g.blk # 2 /\ g.type # "SCH_F"
      /\ FateFollowsBurst'
  <2>1. synced' => synced \/ c.type = "SB1" BY <1>2
  <2> QED BY <1>1, <1>3, <2>1, CallBegins
<1>5. \/ prim' = NoPrim /\ c.type # "BBK"
      \/ prim' = NewPrim
  <2>1. c.type \in {"SB1", "SB2", "NDB", "SCH_F", "BBK"}
    BY <1>4 DEF CallThenRest, CallType
  <2> HIDE DEF c
  <2>2. LoopMore(c.type, 0) BY <2>1, Bounds
  <2> QED BY <1>1, <2>2 DEF DiscardBlock, DecodeBlock, c
<1> HIDE DEF c
<1>6. /\ NewPrim.type = c.type /\ NewPrim.blk = c.blk /\ NewPrim.offset = 0
      /\ c.type \in {"SB1", "SB2", "NDB", "SCH_F", "BBK"} /\ c.blk \in 0..2
      /\ NewPrim \in [type : {"SB1", "SB2", "NDB", "SCH_F", "BBK", "NONE"}, blk : 0..2,
                      offset : 0..267]
  BY <1>4 DEF CallThenRest, CallType
<1> HIDE DEF NewPrim
<1>7. phyTime' \in ClockTime /\ phyTime'.tn \in 1..4
  BY <1>1, <1>2 DEF MacInv, OnTime, TypeOK, ClockTime
<1>8. TypeOK'
  <2>1. dump' \in [usage : DlUsages, tsn : 0..3, ssi : Ssis \cup {0}]
    BY <1>1 DEF NoDump, DlUsages
  <2>3. {dumpDir', exited', synced'} \subseteq BOOLEAN
    BY <1>1, <1>2 DEF MacInv, TypeOK
  <2>2. prim' \in [type : {"SB1", "SB2", "NDB", "SCH_F", "BBK", "NONE"}, blk : 0..2,
                   offset : 0..267]
    BY <1>1, <1>5, <1>6 DEF NoPrim
  <2> QED BY <1>1, <1>3, <1>4, <1>7, <2>1, <2>2, <2>3 DEF MacInv, TypeOK, CallType, ClockTime
<1>9. calls' \in Stages
      /\ (AachAhead(calls') \/ prim'.type = "BBK") => ~said'.stolen2
  BY <1>1, <1>4, <1>5, <1>6
  DEF CallThenRest, MacInv, BlockStage, AachAhead, Signalling, c, NoPrim
<1>10. BlockStage'
  BY <1>1, <1>4, <1>5, <1>6, <1>9 DEF CallThenRest, BlockStage, NoPrim, Signalling, AachAhead
<1>11. SaidType' /\ DumpNamesItsBurst' BY <1>1 DEF MacInv, SaidType, DumpNamesItsBurst
<1>12. OnTime'
  BY <1>1, <1>2, <1>3, <1>7 DEF MacInv, OnTime
<1>13. AachNoted'
  <2> SUFFICES ASSUME calls' # <<>>, ~AachAhead(calls'), prim'.type # "BBK"
               PROVE  AachNoted'
    BY DEF AachNoted
  <2>1. c.type \in Signalling
    BY <1>4, <1>5, <1>6 DEF CallThenRest, AachAhead, Signalling
  <2>2. ~AachAhead(calls) /\ phyTime' = phyTime /\ synced' = synced
    BY <1>2, <2>1 DEF AachAhead, Signalling, c
  <2>3. prim.type # "BBK" BY <1>1 DEF NoPrim
  <2> QED BY <1>1, <1>4, <2>2, <2>3 DEF MacInv, AachNoted
<1> QED BY <1>4, <1>8, <1>10, <1>11, <1>12, <1>13 DEF MacInv

-----------------------------------------------------------------------------
(* A round of the loop over the PDUs of a block: the clocks stand still,   *)
(* and the timeslot is noted.                                              *)
LEMMA RoundBasics ==
  ASSUME MacInv, KeepParse, NoteTsn, prim # NoPrim
  PROVE  /\ cellTime = phyTime /\ dump = NoDump /\ phyTime.tn \in 1..4
         /\ tsn' \in 0..3 /\ tsn' + 1 = phyTime'.tn
<1>1. cellTime = phyTime /\ phyTime.tn \in 1..4 /\ dump = NoDump BY DEF MacInv, OnTime
<1>2. \A n \in 1..4 : (n - 1) % 256 = n - 1 OBVIOUS
<1>3. tsn' = phyTime.tn - 1 BY <1>1, <1>2 DEF NoteTsn
<1> QED BY <1>1, <1>3 DEF KeepParse

(* The AACH settles what the blocks behind it are.                         *)
LEMMA AachStep == ASSUME MacInv, RxAach PROVE MacInv'
<1>1. /\ prim.type = "BBK" /\ prim # NoPrim /\ prim' = NoPrim /\ round' = 0
      /\ ssi' = ssi /\ dump' = dump /\ said' = said /\ KeepParse /\ NoteTsn
  BY DEF RxAach, Parsing, NoPrim, Done
<1>2. /\ cellTime = phyTime /\ dump = NoDump /\ phyTime.tn \in 1..4
      /\ tsn' \in 0..3 /\ tsn' + 1 = phyTime'.tn
  BY <1>1, RoundBasics
<1> DEFINE usage == DlUsage(said.aach, cellTime.fn = 18)
<1>3. /\ said.aach \in AccessAssigns \cup {NoAach} /\ ~said.stolen2 /\ said.stolen2 \in BOOLEAN
      /\ said.aach.field1 \in DlUsages /\ said.aach.field1 \in 0..63
  BY <1>1, LowerMacAssumption DEF MacInv, SaidType, BlockStage, DlUsages, NoAach
<1>4. /\ usage \in {0, said.aach.field1}
      /\ usage > 3 <=> said.aach.hdr # DlccUlco /\ said.aach.field1 > 3 /\ cellTime.fn # 18
  BY <1>3 DEF DlUsage
<1>5. curBurst' = [NotTraffic EXCEPT !.isTraffic = IF usage > 3 THEN usage ELSE 0]
  BY DEF RxAach, AachState
<1> HIDE DEF usage
<1>6. /\ curBurst'.isTraffic = IF usage > 3 THEN usage ELSE 0
      /\ curBurst'.blk2Stolen = FALSE
      /\ curBurst' \in [isTraffic : DlUsages, blk1Stolen : BOOLEAN, blk2Stolen : BOOLEAN]
  BY <1>3, <1>4, <1>5 DEF NotTraffic, DlUsages
<1>7. TypeOK'
  <2>1. prim' \in [type : {"SB1", "SB2", "NDB", "SCH_F", "BBK", "NONE"}, blk : 0..2,
                   offset : 0..267]
    BY <1>1 DEF NoPrim
  <2> QED BY <1>1, <1>2, <1>6, <2>1 DEF MacInv, TypeOK, KeepParse
<1>8. BlockStage' BY <1>1 DEF MacInv, BlockStage, KeepParse, NoPrim, Signalling
<1>9. SaidType' /\ OnTime' /\ DumpNamesItsBurst'
  BY <1>1 DEF MacInv, SaidType, OnTime, DumpNamesItsBurst, KeepParse
<1>10. FateFollowsBurst' BY <1>1 DEF MacInv, FateFollowsBurst, KeepParse
<1>11. AachNoted'
  BY <1>1, <1>2, <1>3, <1>4, <1>6 DEF MacInv, AachNoted, OnTime, KeepParse
<1> QED BY <1>7, <1>8, <1>9, <1>10, <1>11 DEF MacInv

(* The other PDUs: a PDU may steal the second half slot, and gives where   *)
(* the next one starts if there is room for it.                            *)
Onward ==
  /\ round' \in {0, 1 - round}
  /\ \/ prim' = NoPrim
     \/ \E n \in Nat : prim' = [prim EXCEPT !.offset = n] /\ LoopMore(prim.type, n)

Steals ==
  /\ curBurst' = [curBurst EXCEPT !.blk2Stolen = TRUE]
  /\ said' = [said EXCEPT !.stolen2 = @ \/ prim.blk = 1]
  /\ prim' = NoPrim

PduRound ==
  /\ KeepParse /\ NoteTsn /\ Onward /\ ssi' \in {ssi} \cup Ssis /\ dump' = dump
  /\ \/ prim.type = "SB1" /\ prim' = NoPrim /\ UNCHANGED <<curBurst, said>>
     \/ prim.type \in Signalling /\ (UNCHANGED <<curBurst, said>> \/ Steals)

(* Every PDU but the access assignment advances in its block, and touches  *)
(* no more of the state than PduRound says.                                *)
LEMMA PduRounds == ASSUME MacInv, RxPdu, ~RxAach PROVE PduRound
<1>1. prim.offset \in Nat /\ PduBits \subseteq Nat
  <2>1. prim \in [type : {"SB1", "SB2", "NDB", "SCH_F", "BBK", "NONE"}, blk : 0..2,
                  offset : 0..267]
    BY DEF MacInv, TypeOK
  <2>2. prim.offset \in Nat BY <2>1
  <2> QED BY <2>2, LowerMacAssumption
<1>2. ASSUME NEW len \in PduBits, Advance(len) PROVE Onward
  <2>1. prim.offset + len \in Nat BY <1>1
  <2> QED BY <1>2, <2>1 DEF Advance, Onward
<1>3. Done => Onward BY DEF Done, Onward
<1>4. CASE RxSync BY <1>3, <1>4 DEF RxSync, Parsing, PduRound, Done
<1>5. CASE RxFill BY <1>3, <1>5 DEF RxFill, Parsing, PduRound
<1>6. ASSUME NEW len \in PduBits, RxMacEnd(len) PROVE PduRound
  BY <1>2, <1>6 DEF RxMacEnd, Parsing, PduRound
<1>7. ASSUME NEW to \in Ssis \cup {NoOne} PROVE Address(to) => ssi' \in {ssi} \cup Ssis
  BY <1>7 DEF Address
<1>8. ASSUME NEW to \in Ssis \cup {NoOne}, RxResrcStolen(to) PROVE PduRound
  BY <1>3, <1>7, <1>8 DEF RxResrcStolen, Parsing, PduRound, Steals, Done
<1>9. ASSUME NEW to \in Ssis \cup {NoOne}, RxResrcFill(to) PROVE PduRound
  BY <1>3, <1>7, <1>9 DEF RxResrcFill, Parsing, PduRound
<1>10. ASSUME NEW to \in Ssis \cup {NoOne}, NEW len \in PduBits, RxResrc(to, len)
       PROVE  PduRound
  BY <1>2, <1>3, <1>7, <1>10 DEF RxResrc, Parsing, PduRound
<1> QED BY <1>4, <1>5, <1>6, <1>8, <1>9, <1>10 DEF RxPdu

(* Such a round leaves the invariant, whichever PDU it was.                *)
LEMMA PduStep == ASSUME MacInv, PduRound PROVE MacInv'
<1>1. /\ KeepParse /\ NoteTsn /\ Onward /\ ssi' \in {ssi} \cup Ssis /\ dump' = dump
      /\ prim.type \in Signalling \cup {"SB1"} /\ prim # NoPrim
  BY DEF PduRound, NoPrim, Signalling
<1>2. /\ cellTime = phyTime /\ dump = NoDump /\ phyTime.tn \in 1..4
      /\ tsn' \in 0..3 /\ tsn' + 1 = phyTime'.tn
  BY <1>1, RoundBasics
<1>3. /\ prim \in [type : {"SB1", "SB2", "NDB", "SCH_F", "BBK", "NONE"}, blk : 0..2,
                   offset : 0..267]
      /\ curBurst \in [isTraffic : DlUsages, blk1Stolen : BOOLEAN, blk2Stolen : BOOLEAN]
      /\ said \in [aach : AccessAssigns \cup {NoAach}, stolen2 : BOOLEAN]
  BY DEF MacInv, TypeOK, SaidType
<1>4. \/ prim' = NoPrim
      \/ /\ prim.type \in Signalling /\ prim'.type = prim.type /\ prim'.blk = prim.blk
         /\ prim' \in [type : {"SB1", "SB2", "NDB", "SCH_F", "BBK", "NONE"}, blk : 0..2,
                       offset : 0..267]
         /\ UNCHANGED <<curBurst, said>>
  <2>1. CASE prim' # NoPrim
    <3>1. PICK n \in Nat : prim' = [prim EXCEPT !.offset = n] /\ LoopMore(prim.type, n)
      BY <2>1 DEF PduRound, Onward
    <3>2. prim.type \in Signalling /\ UNCHANGED <<curBurst, said>>
      BY <2>1 DEF PduRound, Steals
    <3>3. n \in 0..267 BY <3>1, <3>2, Bounds DEF Signalling
    <3> QED BY <1>3, <3>1, <3>2, <3>3
  <2> QED BY <2>1
<1>5. \/ UNCHANGED <<curBurst, said>>
      \/ /\ prim.type \in Signalling /\ prim' = NoPrim
         /\ curBurst' \in [isTraffic : DlUsages, blk1Stolen : BOOLEAN, blk2Stolen : BOOLEAN]
         /\ curBurst'.isTraffic = curBurst.isTraffic /\ curBurst'.blk2Stolen = TRUE
         /\ said' \in [aach : AccessAssigns \cup {NoAach}, stolen2 : BOOLEAN]
         /\ said'.aach = said.aach /\ said'.stolen2 = (said.stolen2 \/ prim.blk = 1)
  BY <1>3 DEF PduRound, Steals
<1>6. TypeOK'
  <2>1. prim' \in [type : {"SB1", "SB2", "NDB", "SCH_F", "BBK", "NONE"}, blk : 0..2,
                   offset : 0..267]
    BY <1>4 DEF NoPrim
  <2>2. curBurst' \in [isTraffic : DlUsages, blk1Stolen : BOOLEAN, blk2Stolen : BOOLEAN]
    BY <1>3, <1>5
  <2>3. round' \in 0..1 /\ ssi' \in Ssis \cup {0}
    BY <1>1 DEF Onward, MacInv, TypeOK
  <2> QED BY <1>1, <1>2, <2>1, <2>2, <2>3 DEF MacInv, TypeOK, KeepParse
<1>7. BlockStage'
  BY <1>1, <1>3, <1>4, <1>5 DEF MacInv, BlockStage, KeepParse, NoPrim, Signalling
<1>8. SaidType' BY <1>3, <1>5 DEF SaidType
<1>9. OnTime' BY <1>1, <1>2 DEF MacInv, OnTime, KeepParse
<1>10. DumpNamesItsBurst' BY <1>1, <1>2 DEF DumpNamesItsBurst
<1>11. FateFollowsBurst'
  <2>1. CASE said' = said BY <1>1, <2>1 DEF MacInv, FateFollowsBurst, KeepParse
  <2>2. CASE said' # said
    <3>1. /\ prim.type \in Signalling /\ said'.aach = said.aach
          /\ said'.stolen2 = (said.stolen2 \/ prim.blk = 1)
      BY <1>5, <2>2
    <3>2. CASE prim.blk = 1
      <4>1. \A f \in fates : f.blk # 2 /\ f.type # "SCH_F"
        BY <3>1, <3>2 DEF MacInv, BlockStage
      <4> QED BY <1>1, <3>1, <4>1 DEF MacInv, FateFollowsBurst, KeepParse
    <3>3. CASE prim.blk # 1
      BY <1>1, <1>3, <3>1, <3>3 DEF MacInv, FateFollowsBurst, KeepParse
    <3> QED BY <3>2, <3>3
  <2> QED BY <2>1, <2>2
<1>12. AachNoted'
  <2> SUFFICES ASSUME calls' # <<>>, ~AachAhead(calls') PROVE AachNoted' BY DEF AachNoted
  <2>1. calls # <<>> /\ ~AachAhead(calls) /\ prim.type # "BBK" /\ phyTime' = phyTime
        /\ airTime' = airTime /\ synced' = synced
    BY <1>1 DEF KeepParse, Signalling
  <2>2. prim.type \in Signalling => prim.blk = 1
    BY <2>1 DEF MacInv, BlockStage
  <2> QED BY <1>2, <1>5, <2>1, <2>2 DEF MacInv, AachNoted
<1> QED BY <1>6, <1>7, <1>8, <1>9, <1>10, <1>11, <1>12 DEF MacInv

-----------------------------------------------------------------------------
(* Every action leaves the invariant.                                      *)
LEMMA MacInvStep == MacInv /\ [Next]_vars => MacInv'
<1> SUFFICES ASSUME MacInv, [Next]_vars PROVE MacInv' OBVIOUS
<1>1. ASSUME NEW train \in {"SYNC", "NORM_1", "NORM_2"}, NEW aach \in AccessAssigns,
             RxBurst(train, aach)
      PROVE  MacInv'
  BY <1>1, BurstStep
<1>2. CASE DumpTraffic BY <1>2, DumpStep
<1>3. CASE DiscardBlock \/ DecodeBlock BY <1>3, DecodeStep
<1>4. CASE RxPdu BY <1>4, AachStep, PduRounds, PduStep
<1>5. CASE UNCHANGED vars
  BY <1>5 DEF vars, macVars, history, MacInv, TypeOK, BlockStage, SaidType, OnTime, AachNoted,
              FateFollowsBurst, DumpNamesItsBurst, AachAhead
<1> QED BY <1>1, <1>2, <1>3, <1>4, <1>5 DEF Next

LEMMA MacInvariant == Spec => []MacInv
BY InitHolds, MacInvStep, PTL DEF Spec

(* Types of the lower MAC; the timeslot that indexes the fragment slots is *)
(* 1..4 whenever a PDU is handed up.                                       *)
THEOREM LowerMacTypes == Spec => []TypeOK
<1>1. MacInv => TypeOK BY DEF MacInv
<1> QED BY <1>1, MacInvariant, PTL

(* A block is dumped as voice exactly when its own burst says so.          *)
THEOREM DumpedWhenSaid == Spec => []FateFollowsBurst
<1>1. MacInv => FateFollowsBurst BY DEF MacInv
<1> QED BY <1>1, MacInvariant, PTL

(* A dumped block goes to the file of its own usage marker and timeslot.   *)
THEOREM DumpsNamed == Spec => []DumpNamesItsBurst
<1>1. MacInv => DumpNamesItsBurst BY DEF MacInv
<1> QED BY <1>1, MacInvariant, PTL

(* Once a SYNC PDU was decoded, PDUs are handed up with the time on the    *)
(* air.                                                                    *)
THEOREM PdusOnTime == Spec => []PduTimeIsAirTime
<1>1. MacInv => PduTimeIsAirTime BY DEF MacInv, OnTime, PduTimeIsAirTime
<1> QED BY <1>1, MacInvariant, PTL
=============================================================================
