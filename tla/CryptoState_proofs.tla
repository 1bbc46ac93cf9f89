------------------------ MODULE CryptoState_proofs ------------------------
(***************************************************************************)
(* Proofs about CryptoState and FragKeys, for every set of cells and       *)
(* keystore files and every size of the fragment slots.                    *)
(*                                                                         *)
(* The invariant says what the crypto state has in common with the cell    *)
(* data and, once a SYSINFO was decoded, with the cell.  A PDU other than  *)
(* a SYNC PDU is only decoded when the cell data are those of the cell,    *)
(* so what is known of the cell data is then known of the cell.  Until the *)
(* keystore is loaded the crypto state is that of the beginning.           *)
(*                                                                         *)
(* Reassembly, the second half, leaves the crypto state alone: every step  *)
(* of it is one of CryptoState or changes nothing there (StepsOfCrypto-    *)
(* State), so what is proved of CryptoState holds of it.  The invariant    *)
(* SlotInv says of the slot that its key could decrypt when the message    *)
(* started and still can, and that the cipher the message started with is  *)
(* made of that key.                                                       *)
(***************************************************************************)
EXTENDS FragKeys, TLAPS, WellFoundedInduction

TcsType ==
  [net : Nat \cup {Unknown}, cckId : Nat \cup {Unknown}, hn : Nat \cup {Unknown},
   la : Nat \cup {Unknown}, cn : Nat, cc : Nat \cup {Unknown},
   network : {NoKey} \cup DOMAIN tcdb.nets, cck : {NoKey} \cup DOMAIN tcdb.keys]

(* The crypto state's network and colour code are the cell data's, except  *)
(* before the first burst.                                                 *)
FollowsCellData ==
  /\ tcs.net = Unknown => tcd.net = 0
  /\ tcs.net # Unknown => tcs.net = tcd.net /\ tcs.cc = tcd.cc

(* Nothing is known while the keystore is read; behind that each key has   *)
(* the network that update_current_network finds.                          *)
Waits == phase # "RUNNING" => tcs.net = Unknown /\ tcs.network = NoKey
                               /\ tcs.cck = NoKey /\ used = NotUsed

Linked ==
  phase = "RUNNING" => \A i \in DOMAIN tcdb.keys :
    tcdb.keys[i].network # NoKey /\ tcdb.keys[i].network = NetworkFor(tcdb.keys[i].net)

(* The arrays are whole blocks.                                            *)
Blocks ==
  /\ tcdb.keyRoom >= 16 /\ tcdb.keyRoom % 16 = 0
  /\ tcdb.netRoom >= 16 /\ tcdb.netRoom % 16 = 0

TcdbType == [keys : Seq(Key), keyRoom : Nat, nets : Seq(Network), netRoom : Nat]

Located == informed => tcs.la = cell.la /\ tcs.cn = cell.cn

CryptoInv == /\ TypeOK /\ KeyIsCurrent /\ FollowsCellData /\ Located
             /\ Waits /\ Linked /\ Blocks

-----------------------------------------------------------------------------
(* A nonempty set of positions has a first one.                            *)
LEMMA HasFirst ==
  ASSUME NEW S \in SUBSET Nat, S # {}
  PROVE  \E i \in S : \A j \in S : i <= j
<1>1. \E x \in S : \A y \in S : ~ (<<y, x>> \in OpToRel(<, Nat))
  BY NatLessThanWellFounded, WFMin, Zenon
<1>2. PICK x \in S : \A y \in S : ~ (<<y, x>> \in OpToRel(<, Nat))
  BY <1>1
<1>3. ASSUME NEW y \in S PROVE x <= y
  <2>1. ~ (y < x) BY <1>2, <1>3 DEF OpToRel
  <2> QED BY <2>1
<1> QED BY <1>3

LEMMA FirstIsMember ==
  ASSUME NEW S \in SUBSET Nat
  PROVE  /\ S # {} => FirstOf(S) \in S
         /\ S = {} => FirstOf(S) = NoKey
<1>1. CASE S = {} BY <1>1 DEF FirstOf
<1>2. CASE S # {}
  <2>1. \E i \in S : \A j \in S : i <= j BY <1>2, HasFirst
  <2>2. FirstOf(S) = CHOOSE i \in S : \A j \in S : i <= j BY <1>2 DEF FirstOf
  <2> HIDE DEF FirstOf
  <2>3. FirstOf(S) \in S BY <2>1, <2>2, Zenon
  <2> QED BY <1>2, <2>3
<1> QED BY <1>1, <1>2

(* The two searches of a keystore return an entry of it or nothing.        *)
KeysIn(db, net, id) ==
  {i \in DOMAIN db.keys : db.keys[i].net = net /\ db.keys[i].num = id
                          /\ db.keys[i].type = "CCK_SCK"}
NetsIn(db, net) == {i \in DOMAIN db.nets : db.nets[i].net = net}

LEMMA FoundIn ==
  ASSUME NEW db \in TcdbType, NEW net, NEW id
  PROVE  /\ FirstOf(KeysIn(db, net, id)) \in {NoKey} \cup DOMAIN db.keys
         /\ FirstOf(NetsIn(db, net)) \in {NoKey} \cup DOMAIN db.nets
         /\ FirstOf(KeysIn(db, net, id)) # NoKey
              => db.keys[FirstOf(KeysIn(db, net, id))].net = net
         /\ net = Unknown => /\ FirstOf(KeysIn(db, net, id)) = NoKey
                             /\ FirstOf(NetsIn(db, net)) = NoKey
<1> DEFINE K == KeysIn(db, net, id)
           N == NetsIn(db, net)
<1>1. /\ \A i \in DOMAIN db.keys : i \in Nat /\ i # 0 /\ db.keys[i].net \in Nat
      /\ \A i \in DOMAIN db.nets : i \in Nat /\ i # 0 /\ db.nets[i].net \in Nat
  <2>1. db.keys \in Seq(Key) /\ db.nets \in Seq(Network) BY DEF TcdbType
  <2>2. ASSUME NEW i \in DOMAIN db.keys PROVE i \in Nat /\ i # 0 /\ db.keys[i].net \in Nat
    <3>1. db.keys[i] \in Key /\ i \in Nat /\ i # 0 BY <2>1
    <3> QED BY <3>1 DEF Key
  <2>3. ASSUME NEW i \in DOMAIN db.nets PROVE i \in Nat /\ i # 0 /\ db.nets[i].net \in Nat
    <3>1. db.nets[i] \in Network /\ i \in Nat /\ i # 0 BY <2>1
    <3> QED BY <3>1 DEF Network
  <2> QED BY <2>2, <2>3
<1>2. K \in SUBSET Nat /\ N \in SUBSET Nat BY <1>1 DEF KeysIn, NetsIn
<1>3. /\ K \subseteq DOMAIN db.keys /\ \A i \in K : db.keys[i].net = net
      /\ N \subseteq DOMAIN db.nets
  BY DEF KeysIn, NetsIn
<1>4. FirstOf(K) \in K \/ (K = {} /\ FirstOf(K) = NoKey)
  BY <1>2, FirstIsMember, Zenon
<1>5. FirstOf(N) \in N \/ (N = {} /\ FirstOf(N) = NoKey)
  BY <1>2, FirstIsMember, Zenon
<1>6. net = Unknown => K = {} /\ N = {}
  BY <1>1 DEF KeysIn, NetsIn, Unknown
<1>7. \A i \in DOMAIN db.keys : i # NoKey
  BY <1>1 DEF NoKey
<1> HIDE DEF K, N
<1>8. FirstOf(K) \in {NoKey} \cup DOMAIN db.keys /\ FirstOf(N) \in {NoKey} \cup DOMAIN db.nets
  BY <1>3, <1>4, <1>5, Zenon
<1>9. FirstOf(K) # NoKey => db.keys[FirstOf(K)].net = net
  BY <1>3, <1>4, Zenon
<1>10. net = Unknown => FirstOf(K) = NoKey /\ FirstOf(N) = NoKey
  BY <1>4, <1>5, <1>6, Zenon
<1> QED BY <1>8, <1>9, <1>10, Zenon DEF K, N

LEMMA SearchesOf ==
  ASSUME NEW net, NEW id
  PROVE  /\ CckFor(net, id) = FirstOf(KeysIn(tcdb, net, id))
         /\ NetworkFor(net) = FirstOf(NetsIn(tcdb, net))
         /\ CckFor(net, id)' = FirstOf(KeysIn(tcdb', net, id))
         /\ NetworkFor(net)' = FirstOf(NetsIn(tcdb', net))
BY DEF CckFor, NetworkFor, KeysFor, KeysIn, NetsIn

LEMMA FoundInKeystore ==
  ASSUME tcdb \in TcdbType, NEW net, NEW id
  PROVE  /\ CckFor(net, id) \in {NoKey} \cup DOMAIN tcdb.keys
         /\ NetworkFor(net) \in {NoKey} \cup DOMAIN tcdb.nets
         /\ CckFor(net, id) # NoKey => tcdb.keys[CckFor(net, id)].net = net
         /\ net = Unknown => CckFor(net, id) = NoKey /\ NetworkFor(net) = NoKey
<1>1. /\ CckFor(net, id) = FirstOf(KeysIn(tcdb, net, id))
      /\ NetworkFor(net) = FirstOf(NetsIn(tcdb, net))
  BY SearchesOf, Zenon
<1>2. /\ FirstOf(KeysIn(tcdb, net, id)) \in {NoKey} \cup DOMAIN tcdb.keys
      /\ FirstOf(NetsIn(tcdb, net)) \in {NoKey} \cup DOMAIN tcdb.nets
      /\ FirstOf(KeysIn(tcdb, net, id)) # NoKey
           => tcdb.keys[FirstOf(KeysIn(tcdb, net, id))].net = net
      /\ net = Unknown => /\ FirstOf(KeysIn(tcdb, net, id)) = NoKey
                          /\ FirstOf(NetsIn(tcdb, net)) = NoKey
  BY FoundIn
<1> QED BY <1>1, <1>2

(* What the two updates do to each field.                                  *)
LEMMA UpdatesFields ==
  ASSUME NEW s \in TcsType, tcdb \in TcdbType, NEW net \in Nat, NEW id \in Nat
  PROVE  /\ UpdateCurrentNetwork(s, net) \in TcsType
         /\ UpdateCurrentNetwork(s, net).net = net
         /\ UpdateCurrentNetwork(s, net).network = NetworkFor(net)
         /\ UpdateCurrentNetwork(s, net).cck = CckFor(net, s.cckId)
         /\ \A f \in {"cckId", "la", "cn", "cc", "hn"} : UpdateCurrentNetwork(s, net)[f] = s[f]
         /\ NewCck(s, id) \in TcsType
         /\ NewCck(s, id).cckId = id
         /\ NewCck(s, id).cck = CckFor(s.net, id)
         /\ \A f \in {"net", "la", "cn", "cc", "hn", "network"} : NewCck(s, id)[f] = s[f]
<1> DEFINE nw == NetworkFor(net)
           ck == CckFor(net, s.cckId)
           ci == CckFor(s.net, id)
<1>1. /\ nw \in {NoKey} \cup DOMAIN tcdb.nets
      /\ ck \in {NoKey} \cup DOMAIN tcdb.keys
      /\ ci \in {NoKey} \cup DOMAIN tcdb.keys
  BY FoundInKeystore
<1>2. UpdateCurrentNetwork(s, net) = [s EXCEPT !.net = net, !.network = nw, !.cck = ck]
  BY DEF UpdateCurrentNetwork
<1>3. NewCck(s, id) = [s EXCEPT !.cckId = id, !.cck = ci]
  BY DEF NewCck
<1> HIDE DEF nw, ck, ci
<1>4. UpdateCurrentNetwork(s, net) \in TcsType
  BY <1>1, <1>2 DEF TcsType
<1>5. NewCck(s, id) \in TcsType
  BY <1>1, <1>3 DEF TcsType
<1>6. /\ UpdateCurrentNetwork(s, net).net = net
      /\ UpdateCurrentNetwork(s, net).network = nw
      /\ UpdateCurrentNetwork(s, net).cck = ck
      /\ \A f \in {"cckId", "la", "cn", "cc", "hn"} : UpdateCurrentNetwork(s, net)[f] = s[f]
  BY <1>2 DEF TcsType
<1>7. /\ NewCck(s, id).cckId = id
      /\ NewCck(s, id).cck = ci
      /\ \A f \in {"net", "la", "cn", "cc", "hn", "network"} : NewCck(s, id)[f] = s[f]
  BY <1>3 DEF TcsType
<1> QED BY <1>4, <1>5, <1>6, <1>7 DEF nw, ck, ci

(* What a broadcast PDU and the colour code of a SYNC PDU change.          *)
LEMMA CopiesFields ==
  ASSUME NEW s \in TcsType, NEW b \in Broadcast, NEW cc \in Nat
  PROVE  /\ Locate(s, b) \in TcsType
         /\ Locate(s, b).la = b.la /\ Locate(s, b).cn = b.cn
         /\ \A f \in {"net", "cckId", "hn", "cc", "network", "cck"} : Locate(s, b)[f] = s[f]
         /\ [s EXCEPT !.hn = b.number] \in TcsType
         /\ \A f \in {"net", "cckId", "la", "cn", "cc", "network", "cck"} :
              [s EXCEPT !.hn = b.number][f] = s[f]
         /\ [s EXCEPT !.cc = cc] \in TcsType
         /\ [s EXCEPT !.cc = cc].cc = cc
         /\ \A f \in {"net", "cckId", "la", "cn", "hn", "network", "cck"} :
              [s EXCEPT !.cc = cc][f] = s[f]
<1> DEFINE la == b.la
           cn == b.cn
           hn == b.number
<1>1. la \in Nat /\ cn \in Nat /\ hn \in Nat BY DEF Broadcast
<1>2. Locate(s, b) = [s EXCEPT !.la = la, !.cn = cn] BY DEF Locate
<1> HIDE DEF la, cn, hn
<1>3. Locate(s, b) \in TcsType BY <1>1, <1>2 DEF TcsType
<1>4. Locate(s, b).la = la /\ Locate(s, b).cn = cn BY <1>2 DEF TcsType
<1>5. \A f \in {"net", "cckId", "hn", "cc", "network", "cck"} : Locate(s, b)[f] = s[f]
  BY <1>2 DEF TcsType
<1>6. /\ [s EXCEPT !.hn = hn] \in TcsType
      /\ \A f \in {"net", "cckId", "la", "cn", "cc", "network", "cck"} :
              [s EXCEPT !.hn = hn][f] = s[f]
  BY <1>1 DEF TcsType
<1>7. /\ [s EXCEPT !.cc = cc] \in TcsType
      /\ [s EXCEPT !.cc = cc].cc = cc
      /\ \A f \in {"net", "cckId", "la", "cn", "hn", "network", "cck"} :
              [s EXCEPT !.cc = cc][f] = s[f]
  BY DEF TcsType
<1> QED BY <1>3, <1>4, <1>5, <1>6, <1>7 DEF la, cn, hn

LEMMA CckForSame ==
  ASSUME keystore' = keystore, NEW net, NEW id
  PROVE  CckFor(net, id)' = CckFor(net, id) /\ NetworkFor(net)' = NetworkFor(net)
BY DEF CckFor, NetworkFor, KeysFor, keystore

-----------------------------------------------------------------------------
LEMMA InitHolds == Init => CryptoInv
<1> SUFFICES ASSUME Init PROVE CryptoInv OBVIOUS
<1>1. /\ tcs.net = Unknown /\ tcs.cckId = Unknown
      /\ tcs.network = NoKey /\ tcs.cck = NoKey
      /\ tcd.net = 0 /\ informed = FALSE /\ phase = "LOADING"
  BY DEF Init
<1>a. /\ tcdb \in TcdbType /\ tcdb.keys = <<>> /\ tcdb.nets = <<>>
      /\ tcdb.keyRoom = 16 /\ tcdb.netRoom = 16
  BY DEF Init, TcdbType, TCDB_ALLOC_BLOCK_SIZE
<1>2. TypeOK
  <2>1. used \in [key : Nat, ksg : Nat, cc : Int, la : Int, cn : Int, hn : Int]
    BY DEF Init, Unknown, NoKey, NotUsed
  <2>2. tcs \in TcsType BY DEF Init, TcsType
  <2>3. tcd \in [net : Nat, cc : Nat] BY DEF Init
  <2>4. cell \in Cells /\ file \in Seq(Line) BY CryptoAssumption DEF Init
  <2>5. Len(tcdb.keys) <= tcdb.keyRoom /\ Len(tcdb.nets) <= tcdb.netRoom BY <1>a
  <2> QED BY <1>1, <1>a, <2>1, <2>2, <2>3, <2>4, <2>5 DEF TypeOK, TcsType, TcdbType
<1>3. KeyIsCurrent BY <1>1, <1>a, FoundInKeystore DEF KeyIsCurrent
<1>4. FollowsCellData /\ Located /\ Waits /\ Linked
  BY <1>1 DEF FollowsCellData, Located, Waits, Linked, Init
<1>5. Blocks BY <1>a DEF Blocks
<1> QED BY <1>2, <1>3, <1>4, <1>5 DEF CryptoInv

(* A new entry fits, and the arrays stay whole blocks.                     *)
LEMMA GrowsInTime ==
  ASSUME NEW size \in Nat, NEW n \in Nat, n <= size, size >= 16, size % 16 = 0
  PROVE  /\ Grown(size, n) \in Nat /\ n + 1 <= Grown(size, n)
         /\ Grown(size, n) >= 16 /\ Grown(size, n) % 16 = 0
<1>1. CASE n > 0 /\ n % 16 = 0 BY <1>1 DEF Grown, TCDB_ALLOC_BLOCK_SIZE
<1>2. CASE ~ (n > 0 /\ n % 16 = 0)
  <2>1. n # size BY <1>2
  <2> QED BY <1>2, <2>1 DEF Grown, TCDB_ALLOC_BLOCK_SIZE
<1> QED BY <1>1, <1>2

(* Before the program runs nothing depends on the keystore.                *)
LEMMA LoadKeeps ==
  ASSUME CryptoInv, phase = "LOADING", UNCHANGED air, tcdb' \in TcdbType,
         phase' \in {"LOADING", "RUNNING", "EXITED"}, file' \in Seq(Line),
         Len(tcdb'.keys) <= tcdb'.keyRoom, Len(tcdb'.nets) <= tcdb'.netRoom,
         Blocks', Linked'
  PROVE  CryptoInv'
<1>1. /\ tcs.net = Unknown /\ tcs.network = NoKey /\ tcs.cck = NoKey
      /\ tcs' = tcs /\ tcd' = tcd /\ cell' = cell /\ informed' = informed /\ used' = used
      /\ tcs \in TcsType
  BY DEF CryptoInv, Waits, air, TypeOK, TcsType
<1>2. TypeOK'
  BY <1>1 DEF CryptoInv, TypeOK, TcdbType, TcsType
<1>3. KeyIsCurrent'
  <2>1. /\ CckFor(tcs.net, tcs.cckId)' = FirstOf(KeysIn(tcdb', tcs'.net, tcs'.cckId))
        /\ NetworkFor(tcs.net)' = FirstOf(NetsIn(tcdb', tcs'.net))
    BY DEF CckFor, NetworkFor, KeysFor, KeysIn, NetsIn
  <2>2. tcs'.net = Unknown /\ tcs'.cck = NoKey /\ tcs'.network = NoKey BY <1>1
  <2>3. /\ FirstOf(KeysIn(tcdb', tcs'.net, tcs'.cckId)) = NoKey
        /\ FirstOf(NetsIn(tcdb', tcs'.net)) = NoKey
    BY <2>2, FoundIn
  <2>4. CckFor(tcs.net, tcs.cckId)' = NoKey /\ NetworkFor(tcs.net)' = NoKey
    BY <2>1, <2>3, Zenon
  <2> QED BY <2>2, <2>4, Zenon DEF KeyIsCurrent
<1>4. FollowsCellData' /\ Located' /\ Waits'
  BY <1>1 DEF CryptoInv, FollowsCellData, Located, Waits
<1> QED BY <1>2, <1>3, <1>4 DEF CryptoInv

(* One step of load_keystore.                                              *)
LEMMA LoadKeystoreKeeps ==
  ASSUME CryptoInv, LoadKeystore
  PROVE  CryptoInv'
<1>1. /\ phase = "LOADING" /\ UNCHANGED air /\ tcdb \in TcdbType /\ file \in Seq(Line)
      /\ Len(tcdb.keys) <= tcdb.keyRoom /\ Len(tcdb.nets) <= tcdb.netRoom /\ Blocks
  BY DEF CryptoInv, TypeOK, TcdbType, LoadKeystore, LoadNetwork, LoadKey, RejectLine,
         EndOfFile, Reads
<1>2. CASE LoadNetwork
  <2> DEFINE line == Head(file)
             net == [net |-> line.net, ksg |-> line.ksg]
             room == Grown(tcdb.netRoom, Len(tcdb.nets))
  <2>1. line \in Line /\ line.kind = "network" /\ Tail(file) \in Seq(Line)
    BY <1>1, <1>2 DEF LoadNetwork, Reads
  <2>2. net \in Network BY <2>1 DEF Line, NetworkLine, KeyLine, Network
  <2>3. tcdb' = [tcdb EXCEPT !.nets = Append(@, net), !.netRoom = room]
    BY <1>1, <1>2 DEF LoadNetwork, TcdbType
  <2>4. /\ room \in Nat /\ Len(tcdb.nets) + 1 <= room /\ room >= 16 /\ room % 16 = 0
    BY <1>1, GrowsInTime DEF TcdbType, Blocks
  <2> HIDE DEF net, room, line
  <2>5. /\ tcdb'.keys = tcdb.keys /\ tcdb'.keyRoom = tcdb.keyRoom
        /\ tcdb'.nets = Append(tcdb.nets, net) /\ tcdb'.netRoom = room
        /\ tcdb' = [keys |-> tcdb'.keys, keyRoom |-> tcdb'.keyRoom,
                    nets |-> tcdb'.nets, netRoom |-> tcdb'.netRoom]
    BY <1>1, <2>3 DEF TcdbType
  <2>a. tcdb.keys \in Seq(Key) /\ tcdb.nets \in Seq(Network)
        /\ tcdb.keyRoom \in Nat /\ tcdb.netRoom \in Nat
    BY <1>1 DEF TcdbType
  <2>b. /\ Append(tcdb.nets, net) \in Seq(Network)
        /\ Len(Append(tcdb.nets, net)) = Len(tcdb.nets) + 1
    BY <2>2, <2>a
  <2>6. tcdb' \in TcdbType /\ Len(tcdb'.nets) = Len(tcdb.nets) + 1
    BY <2>4, <2>5, <2>a, <2>b DEF TcdbType
  <2>7. Blocks' BY <1>1, <2>4, <2>5 DEF Blocks
  <2>8. phase' = phase /\ file' = Tail(file) BY <1>2 DEF LoadNetwork
  <2>9. file' \in Seq(Line) BY <2>1, <2>8 DEF line
  <2>10. Linked' BY <1>1, <2>8 DEF Linked
  <2>11. Len(tcdb'.keys) <= tcdb'.keyRoom /\ Len(tcdb'.nets) <= tcdb'.netRoom
    BY <1>1, <2>4, <2>5, <2>6
  <2> QED BY <1>1, <2>6, <2>7, <2>8, <2>9, <2>10, <2>11, LoadKeeps
<1>3. CASE LoadKey
  <2> DEFINE line == Head(file)
             key == [net |-> line.net, num |-> line.num, type |-> line.type,
                     network |-> NoKey]
             room == Grown(tcdb.keyRoom, Len(tcdb.keys))
  <2>1. line \in Line /\ line.kind = "key" /\ Tail(file) \in Seq(Line)
    BY <1>1, <1>3 DEF LoadKey, Reads
  <2>2. key \in Key BY <2>1 DEF Line, NetworkLine, KeyLine, Key, NoKey
  <2>3. tcdb' = [tcdb EXCEPT !.keys = Append(@, key), !.keyRoom = room]
    BY <1>1, <1>3 DEF LoadKey, TcdbType
  <2>4. /\ room \in Nat /\ Len(tcdb.keys) + 1 <= room /\ room >= 16 /\ room % 16 = 0
    BY <1>1, GrowsInTime DEF TcdbType, Blocks
  <2> HIDE DEF key, room, line
  <2>5. /\ tcdb'.nets = tcdb.nets /\ tcdb'.netRoom = tcdb.netRoom
        /\ tcdb'.keys = Append(tcdb.keys, key) /\ tcdb'.keyRoom = room
        /\ tcdb' = [keys |-> tcdb'.keys, keyRoom |-> tcdb'.keyRoom,
                    nets |-> tcdb'.nets, netRoom |-> tcdb'.netRoom]
    BY <1>1, <2>3 DEF TcdbType
  <2>a. tcdb.keys \in Seq(Key) /\ tcdb.nets \in Seq(Network)
        /\ tcdb.keyRoom \in Nat /\ tcdb.netRoom \in Nat
    BY <1>1 DEF TcdbType
  <2>b. /\ Append(tcdb.keys, key) \in Seq(Key)
        /\ Len(Append(tcdb.keys, key)) = Len(tcdb.keys) + 1
    BY <2>2, <2>a
  <2>6. tcdb' \in TcdbType /\ Len(tcdb'.keys) = Len(tcdb.keys) + 1
    BY <2>4, <2>5, <2>a, <2>b DEF TcdbType
  <2>7. Blocks' BY <1>1, <2>4, <2>5 DEF Blocks
  <2>8. phase' = phase /\ file' = Tail(file) BY <1>3 DEF LoadKey
  <2>9. file' \in Seq(Line) BY <2>1, <2>8 DEF line
  <2>10. Linked' BY <1>1, <2>8 DEF Linked
  <2>11. Len(tcdb'.keys) <= tcdb'.keyRoom /\ Len(tcdb'.nets) <= tcdb'.netRoom
    BY <1>1, <2>4, <2>5, <2>6
  <2> QED BY <1>1, <2>6, <2>7, <2>8, <2>9, <2>10, <2>11, LoadKeeps
<1>4. CASE RejectLine
  <2>1. phase' = "EXITED" /\ file' = file /\ tcdb' = tcdb BY <1>4 DEF RejectLine
  <2>2. Blocks' /\ Linked' BY <1>1, <2>1 DEF Blocks, Linked
  <2> QED BY <1>1, <2>1, <2>2, LoadKeeps
<1>5. CASE EndOfFile
  <2>1. file' = file /\ phase' \in {"RUNNING", "EXITED"} BY <1>5 DEF EndOfFile
  <2>2. CASE ~KeysOfNetworks
    <3>1. phase' = "EXITED" /\ tcdb' = tcdb BY <1>5, <2>2 DEF EndOfFile
    <3>2. Blocks' /\ Linked' BY <1>1, <3>1 DEF Blocks, Linked
    <3> QED BY <1>1, <2>1, <3>1, <3>2, LoadKeeps
  <2>3. CASE KeysOfNetworks
    <3> DEFINE nw(i) == NetworkFor(tcdb.keys[i].net)
               keys == [i \in DOMAIN tcdb.keys |-> [tcdb.keys[i] EXCEPT !.network = nw(i)]]
    <3>1. tcdb' = [tcdb EXCEPT !.keys = keys]
      BY <1>1, <1>5, <2>3 DEF EndOfFile, TcdbType
    <3>2. \A i \in DOMAIN tcdb.keys : nw(i) \in Nat /\ nw(i) # NoKey
      <4>1. \A i \in DOMAIN tcdb.keys : nw(i) \in {NoKey} \cup DOMAIN tcdb.nets
        BY <1>1, FoundInKeystore
      <4>2. DOMAIN tcdb.nets \subseteq Nat BY <1>1 DEF TcdbType
      <4> QED BY <2>3, <4>1, <4>2 DEF KeysOfNetworks, NoKey
    <3> HIDE DEF nw
    <3>3. \A i \in DOMAIN tcdb.keys :
            [tcdb.keys[i] EXCEPT !.network = nw(i)] \in Key
      <4>1. tcdb.keys \in Seq(Key) BY <1>1 DEF TcdbType
      <4>2. ASSUME NEW i \in DOMAIN tcdb.keys
            PROVE  [tcdb.keys[i] EXCEPT !.network = nw(i)] \in Key
        <5>1. tcdb.keys[i] \in Key /\ nw(i) \in Nat BY <3>2, <4>1
        <5> QED BY <5>1 DEF Key
      <4> QED BY <4>2
    <3>4. keys \in Seq(Key) /\ Len(keys) = Len(tcdb.keys) /\ DOMAIN keys = DOMAIN tcdb.keys
      <4> DEFINE n == Len(tcdb.keys)
      <4>1. n \in Nat /\ DOMAIN tcdb.keys = 1..n BY <1>1 DEF TcdbType
      <4>2. keys \in [1..n -> Key] BY <3>3, <4>1
      <4> HIDE DEF keys
      <4>3. keys \in Seq(Key) /\ Len(keys) = n /\ DOMAIN keys = 1..n BY <4>1, <4>2
      <4> QED BY <4>1, <4>3
    <3>5. \A i \in DOMAIN tcdb.keys : keys[i].network = nw(i) /\ keys[i].net = tcdb.keys[i].net
      BY <1>1 DEF TcdbType, Key
    <3> HIDE DEF keys
    <3>6. /\ tcdb'.keys = keys /\ tcdb'.nets = tcdb.nets /\ tcdb'.keyRoom = tcdb.keyRoom
          /\ tcdb'.netRoom = tcdb.netRoom /\ tcdb' \in TcdbType
      BY <1>1, <3>1, <3>4 DEF TcdbType
    <3>7. Blocks' BY <1>1, <3>6 DEF Blocks
    <3>8. \A net : NetworkFor(net)' = NetworkFor(net)
      BY <3>6 DEF NetworkFor
    <3>9. Linked'
      <4>1. \A i \in DOMAIN keys : keys[i].network # NoKey
                                  /\ keys[i].network = NetworkFor(keys[i].net)
        BY <3>2, <3>4, <3>5 DEF nw
      <4> QED BY <3>6, <3>8, <4>1 DEF Linked
    <3>10. Len(tcdb'.keys) <= tcdb'.keyRoom /\ Len(tcdb'.nets) <= tcdb'.netRoom
      BY <1>1, <3>4, <3>6
    <3> QED BY <1>1, <2>1, <3>6, <3>7, <3>9, <3>10, LoadKeeps
  <2> QED BY <2>2, <2>3
<1> QED BY <1>2, <1>3, <1>4, <1>5 DEF LoadKeystore

LEMMA KeystoreSame ==
  ASSUME keystore' = keystore, CryptoInv
  PROVE  Linked' /\ Blocks' /\ tcdb' \in TcdbType /\ tcdb' = tcdb /\ phase' = phase /\ file' = file
<1>1. /\ tcdb' = tcdb /\ phase' = phase /\ file' = file /\ tcdb \in TcdbType
  BY DEF keystore, CryptoInv, TypeOK, TcdbType
<1>2. \A net : NetworkFor(net)' = NetworkFor(net) BY CckForSame
<1> QED BY <1>1, <1>2 DEF Linked, Blocks, CryptoInv

(* A SYNC PDU, decoded or not.                                             *)
LEMMA SyncKeeps ==
  ASSUME CryptoInv, phase = "RUNNING", NEW crcOk \in BOOLEAN, RxSync(crcOk)
  PROVE  CryptoInv'
<1>1. /\ TypeOK /\ tcs \in TcsType /\ keystore' = keystore /\ cell' = cell
      /\ tcdb \in TcdbType /\ informed' = informed /\ used' = NotUsed /\ cell \in Cells
  BY DEF CryptoInv, TypeOK, TcsType, TcdbType, RxSync
<1>a. Linked' /\ Blocks' /\ tcdb' = tcdb /\ phase' = phase /\ file' = file
  BY <1>1, KeystoreSame
<1>2. tcd' \in [net : Nat, cc : Nat]
  <2>1. cell.net \in Nat /\ cell.cc \in Nat BY <1>1, CryptoAssumption
  <2> QED BY <2>1 DEF CryptoInv, TypeOK, RxSync
<1> DEFINE s == [tcs EXCEPT !.cc = tcd'.cc]
<1>3. /\ s \in TcsType /\ s.cc = tcd'.cc
      /\ \A f \in {"net", "cckId", "la", "cn", "hn", "network", "cck"} : s[f] = tcs[f]
  <2>1. tcd'.cc \in Nat BY <1>2
  <2>2. [la |-> 0, cn |-> 0, cck |-> TRUE, number |-> 0] \in Broadcast BY DEF Broadcast
  <2> QED BY <1>1, <2>1, <2>2, CopiesFields
<1>4. tcs' = IF tcs.net # tcd'.net THEN UpdateCurrentNetwork(s, tcd'.net) ELSE s
  BY DEF RxSync, SyncState
<1> HIDE DEF s
<1>5. /\ UpdateCurrentNetwork(s, tcd'.net) \in TcsType
      /\ UpdateCurrentNetwork(s, tcd'.net).net = tcd'.net
      /\ UpdateCurrentNetwork(s, tcd'.net).network = NetworkFor(tcd'.net)
      /\ UpdateCurrentNetwork(s, tcd'.net).cck = CckFor(tcd'.net, s.cckId)
      /\ \A f \in {"cckId", "la", "cn", "cc", "hn"} :
            UpdateCurrentNetwork(s, tcd'.net)[f] = s[f]
  <2>1. tcd'.net \in Nat BY <1>2
  <2> QED BY <1>1, <1>3, <2>1, UpdatesFields
<1>6. /\ tcs' \in TcsType /\ tcs'.net = tcd'.net /\ tcs'.cc = tcd'.cc
      /\ tcs'.la = tcs.la /\ tcs'.cn = tcs.cn /\ tcs'.cckId = tcs.cckId
  BY <1>3, <1>4, <1>5
<1>7. TypeOK'
  BY <1>1, <1>2, <1>6, <1>a DEF TypeOK, TcsType, NotUsed, NoKey, Unknown
<1>8. tcs'.network = NetworkFor(tcs'.net) /\ tcs'.cck = CckFor(tcs'.net, tcs'.cckId)
  BY <1>3, <1>4, <1>5, <1>6 DEF CryptoInv, KeyIsCurrent
<1>9. KeyIsCurrent'
  BY <1>1, <1>8, CckForSame DEF KeyIsCurrent
<1>10. FollowsCellData'
  BY <1>2, <1>6 DEF FollowsCellData, Unknown
<1>11. Located'
  BY <1>1, <1>6 DEF Located, CryptoInv
<1>12. Waits' BY <1>a DEF Waits
<1> QED BY <1>7, <1>9, <1>10, <1>11, <1>12, <1>a DEF CryptoInv

(* A broadcast PDU, whichever of the two it carries.                       *)
LEMMA BcastKeeps ==
  ASSUME CryptoInv, phase = "RUNNING", NEW b \in Broadcast, RxBcast(b),
         informed' \in BOOLEAN, informed' => b.la = cell.la /\ b.cn = cell.cn
  PROVE  CryptoInv'
<1>1. /\ tcs \in TcsType /\ keystore' = keystore /\ cell' = cell /\ tcdb \in TcdbType
      /\ used' = NotUsed /\ cell \in Cells /\ tcd' = tcd /\ tcd \in [net : Nat, cc : Nat]
  BY DEF CryptoInv, TypeOK, TcsType, TcdbType, RxBcast
<1>a. Linked' /\ Blocks' /\ tcdb' = tcdb /\ phase' = phase /\ file' = file
  BY <1>1, KeystoreSame
<1> DEFINE l == Locate(tcs, b)
           id == b.number
<1>2. /\ l \in TcsType /\ l.la = b.la /\ l.cn = b.cn
      /\ \A f \in {"net", "cckId", "hn", "cc", "network", "cck"} : l[f] = tcs[f]
  <2>1. 0 \in Nat OBVIOUS
  <2> QED BY <1>1, <2>1, CopiesFields, Zenon
<1>b. id \in Nat /\ b.cck \in BOOLEAN BY DEF Broadcast
<1>e. tcs' = CASE ~b.cck -> [l EXCEPT !.hn = id]
               [] b.cck /\ id = tcs.cckId -> l
               [] b.cck /\ id # tcs.cckId -> NewCck(l, id)
  BY DEF RxBcast
<1>c. tcs.cck = CckFor(tcs.net, tcs.cckId) BY DEF CryptoInv, KeyIsCurrent
<1> HIDE DEF l, id
<1>d. /\ NewCck(l, id) \in TcsType
      /\ NewCck(l, id).cckId = id
      /\ NewCck(l, id).cck = CckFor(l.net, id)
      /\ \A f \in {"net", "la", "cn", "cc", "hn", "network"} : NewCck(l, id)[f] = l[f]
  <2>1. l \in TcsType /\ tcdb \in TcdbType /\ id \in Nat BY <1>1, <1>2, <1>b
  <2>2. \A i \in Nat :
          /\ NewCck(l, i) \in TcsType
          /\ NewCck(l, i).cckId = i
          /\ NewCck(l, i).cck = CckFor(l.net, i)
          /\ \A f \in {"net", "la", "cn", "cc", "hn", "network"} : NewCck(l, i)[f] = l[f]
    BY <2>1, UpdatesFields, Zenon
  <2> QED BY <2>1, <2>2, Zenon
<1>3. /\ tcs' \in TcsType /\ tcs'.la = b.la /\ tcs'.cn = b.cn
      /\ tcs'.net = tcs.net /\ tcs'.cc = tcs.cc /\ tcs'.network = tcs.network
      /\ tcs'.cck = CckFor(tcs.net, tcs'.cckId)
  <2>1. CASE ~b.cck
    <3>1. tcs' = [l EXCEPT !.hn = id] BY <1>b, <1>e, <2>1
    <3>2. /\ tcs' \in TcsType
          /\ \A f \in {"net", "cckId", "la", "cn", "cc", "network", "cck"} : tcs'[f] = l[f]
      BY <1>2, <1>b, <3>1 DEF TcsType
    <3> QED BY <1>2, <1>c, <3>2
  <2>2. CASE b.cck /\ id = tcs.cckId
    <3>1. tcs' = l BY <1>b, <1>e, <2>2
    <3> QED BY <1>2, <1>c, <3>1
  <2>3. CASE b.cck /\ id # tcs.cckId
    <3>1. tcs' = NewCck(l, id) BY <1>b, <1>e, <2>3
    <3> QED BY <1>2, <1>d, <3>1
  <2> QED BY <1>b, <2>1, <2>2, <2>3
<1>4. TypeOK'
  BY <1>1, <1>3, <1>a DEF TypeOK, TcsType, NotUsed, NoKey, Unknown, CryptoInv
<1>5. tcs'.network = NetworkFor(tcs'.net) /\ tcs'.cck = CckFor(tcs'.net, tcs'.cckId)
  BY <1>3 DEF CryptoInv, KeyIsCurrent
<1>6. KeyIsCurrent'
  BY <1>1, <1>5, CckForSame DEF KeyIsCurrent
<1>7. FollowsCellData'
  BY <1>1, <1>3 DEF FollowsCellData, CryptoInv
<1>8. Located'
  BY <1>1, <1>3 DEF Located
<1>9. Waits' BY <1>a DEF Waits
<1> QED BY <1>4, <1>6, <1>7, <1>8, <1>9, <1>a DEF CryptoInv

(* The broadcast PDUs: only a SYSINFO has the cell's location.             *)
LEMMA SysinfoKeeps ==
  ASSUME CryptoInv, phase = "RUNNING",
         \/ \E id \in CckIds : RxSysinfoCck(id)
         \/ \E hn \in Hns : RxSysinfoHn(hn)
         \/ \E b \in AccessDefines : RxAccessDefine(b)
  PROVE  CryptoInv'
<1>1. ASSUME NEW number \in Nat, NEW cck \in BOOLEAN
      PROVE  /\ Sysinfo(cck, number) \in Broadcast
             /\ Sysinfo(cck, number).la = cell.la /\ Sysinfo(cck, number).cn = cell.cn
  <2>1. cell \in Cells BY DEF CryptoInv, TypeOK
  <2>2. cell.la \in Nat /\ cell.cn \in Nat BY <2>1, CryptoAssumption
  <2> QED BY <2>2 DEF Sysinfo, Broadcast
<1>2. CASE \E id \in CckIds : RxSysinfoCck(id)
  <2>1. PICK id \in CckIds : RxSysinfoCck(id) BY <1>2
  <2>2. id \in Nat BY CryptoAssumption
  <2>3. RxBcast(Sysinfo(TRUE, id)) /\ informed' = TRUE BY <2>1 DEF RxSysinfoCck
  <2> QED BY <1>1, <2>2, <2>3, BcastKeeps
<1>3. CASE \E hn \in Hns : RxSysinfoHn(hn)
  <2>1. PICK hn \in Hns : RxSysinfoHn(hn) BY <1>3
  <2>2. hn \in Nat BY CryptoAssumption
  <2>3. RxBcast(Sysinfo(FALSE, hn)) /\ informed' = TRUE BY <2>1 DEF RxSysinfoHn
  <2> QED BY <1>1, <2>2, <2>3, BcastKeeps
<1>4. CASE \E b \in AccessDefines : RxAccessDefine(b)
  <2>1. PICK b \in AccessDefines : RxAccessDefine(b) BY <1>4
  <2>2. b \in Broadcast BY CryptoAssumption
  <2>3. RxBcast(b) /\ informed' = FALSE BY <2>1 DEF RxAccessDefine
  <2> QED BY <2>2, <2>3, BcastKeeps
<1> QED BY <1>2, <1>3, <1>4

(* An encrypted PDU, and a change of the cell.                             *)
LEMMA OthersKeep ==
  ASSUME CryptoInv,
         \/ phase = "RUNNING" /\ RxEncrypted
         \/ phase = "RUNNING" /\ \E c \in Cells : ChangeCell(c)
         \/ UNCHANGED vars
  PROVE  CryptoInv'
<1>1. /\ tcs' = tcs /\ tcd' = tcd /\ keystore' = keystore /\ cell' \in Cells
      /\ tcs \in TcsType /\ informed' \in BOOLEAN
      /\ informed' => informed /\ cell' = cell
      /\ phase = "RUNNING" \/ used' = used
  <2>1. CASE phase = "RUNNING" /\ RxEncrypted
    BY <2>1 DEF RxEncrypted, CryptoInv, TypeOK, TcsType
  <2>2. CASE phase = "RUNNING" /\ \E c \in Cells : ChangeCell(c)
    BY <2>2 DEF ChangeCell, CryptoInv, TypeOK, TcsType
  <2>3. CASE UNCHANGED vars BY <2>3 DEF vars, air, CryptoInv, TypeOK, TcsType
  <2> QED BY <2>1, <2>2, <2>3
<1>a. Linked' /\ Blocks' /\ tcdb' = tcdb /\ phase' = phase /\ file' = file
  BY <1>1, KeystoreSame
<1>2. used' \in [key : Nat, ksg : Nat, cc : Int, la : Int, cn : Int, hn : Int]
  <2>1. CASE phase = "RUNNING" /\ RxEncrypted
    <3>a. tcs.cck \in {NoKey} \cup DOMAIN tcdb.keys /\ tcdb \in TcdbType
      BY <1>1 DEF CryptoInv, TypeOK, TcsType, TcdbType
    <3>c. tcs.cck \in Nat
      BY <3>a DEF NoKey, TcdbType
    <3>1. KsgKey \in Nat
      BY <3>c DEF KsgKey, NoKey
    <3>3. CanDecrypt => KsgOf(KsgKey) \in Nat
      BY DEF CanDecrypt, Supported
    <3>2. tcs.cc \in Int /\ tcs.la \in Int /\ tcs.cn \in Int /\ tcs.hn \in Int
      BY <1>1 DEF TcsType, Unknown
    <3> HIDE DEF KsgKey, KsgOf, CanDecrypt
    <3> QED BY <2>1, <3>1, <3>2, <3>3 DEF RxEncrypted, NotUsed, NoKey, Unknown
  <2>2. CASE phase = "RUNNING" /\ \E c \in Cells : ChangeCell(c)
    BY <2>2 DEF ChangeCell, NotUsed, NoKey, Unknown
  <2>3. CASE UNCHANGED vars
    BY <2>3 DEF vars, air, CryptoInv, TypeOK
  <2> QED BY <2>1, <2>2, <2>3
<1>3. TypeOK'
  BY <1>1, <1>2, <1>a DEF TypeOK, CryptoInv
<1>4. KeyIsCurrent'
  BY <1>1, CckForSame DEF KeyIsCurrent, CryptoInv
<1>5. FollowsCellData' /\ Located'
  BY <1>1 DEF FollowsCellData, Located, CryptoInv
<1>6. Waits' BY <1>1, <1>a DEF Waits, CryptoInv
<1> QED BY <1>3, <1>4, <1>5, <1>6, <1>a DEF CryptoInv

(* What an encrypted PDU is decrypted with, in a state of the invariant.   *)
LEMMA UsedIsOfTheCell ==
  ASSUME CryptoInv, phase = "RUNNING", RxEncrypted
  PROVE  DecryptsForCell' /\ DecryptsWithLocation'
<1>1. /\ tcd = [net |-> cell.net, cc |-> cell.cc] /\ cell' = cell /\ keystore' = keystore
      /\ informed' = informed /\ cell \in Cells /\ tcdb \in TcdbType /\ tcs \in TcsType
  BY DEF RxEncrypted, Descrambled, CryptoInv, TypeOK, TcsType, TcdbType
<1>a. tcdb' = tcdb /\ \A net : NetworkFor(net)' = NetworkFor(net)
  BY <1>1, KeystoreSame, CckForSame
<1>2. tcs.net = cell.net /\ tcs.cc = cell.cc
  BY <1>1, CryptoAssumption DEF CryptoInv, FollowsCellData
<1>3. CASE used' = NotUsed
  BY <1>3 DEF DecryptsForCell, DecryptsWithLocation
<1>4. CASE used' # NotUsed
  <2>1. /\ used'.key = tcs.cck /\ used'.ksg = KsgOf(tcs.cck) /\ used'.cc = tcs.cc /\ used'.la = tcs.la /\ used'.cn = tcs.cn
        /\ tcs.cck # NoKey /\ tcs.la >= 0
    BY <1>4 DEF RxEncrypted, CanDecrypt, KsgKey, InfoKnown
  <2>2. tcs.cck = CckFor(tcs.net, tcs.cckId)
    BY DEF CryptoInv, KeyIsCurrent
  <2>3. tcdb.keys[tcs.cck].net = tcs.net /\ tcs.cck \in DOMAIN tcdb.keys
    BY <1>1, <2>1, <2>2, FoundInKeystore
  <2>7. /\ NetworkFor(tcs.net) # NoKey
        /\ KsgOf(tcs.cck) = tcdb.nets[NetworkFor(tcs.net)].ksg
    BY <2>3 DEF CryptoInv, Linked, KsgOf
  <2>4. DecryptsForCell'
    BY <1>1, <1>2, <1>a, <2>1, <2>3, <2>7 DEF DecryptsForCell
  <2>5. tcs.la # Unknown
    BY <1>1, <2>1 DEF Unknown, TcsType
  <2>6. DecryptsWithLocation'
    BY <1>1, <2>1, <2>5 DEF DecryptsWithLocation, CryptoInv, Located
  <2> QED BY <2>4, <2>6
<1> QED BY <1>3, <1>4

LEMMA CryptoInvStep == CryptoInv /\ [Next]_vars => CryptoInv'
<1> SUFFICES ASSUME CryptoInv, [Next]_vars PROVE CryptoInv' OBVIOUS
<1>1. CASE LoadKeystore BY <1>1, LoadKeystoreKeeps
<1>2. CASE phase = "RUNNING" /\ OnAir
  BY <1>2, SyncKeeps, SysinfoKeeps, OthersKeep DEF OnAir
<1>3. CASE UNCHANGED vars BY <1>3, OthersKeep
<1> QED BY <1>1, <1>2, <1>3 DEF Next

(* update_current_network and update_current_cck keep the key and network  *)
(* in use those of the keystore, in whatever order their inputs change.    *)
THEOREM KeyStaysCurrent == Spec => []KeyIsCurrent
<1>1. CryptoInv => KeyIsCurrent BY DEF CryptoInv
<1> QED BY <1>1, InitHolds, CryptoInvStep, PTL DEF Spec

(* The crypto state has the values its C types and the keystore allow.     *)
THEOREM CryptoTypes == Spec => []TypeOK
<1>1. CryptoInv => TypeOK BY DEF CryptoInv
<1> QED BY <1>1, InitHolds, CryptoInvStep, PTL DEF Spec

(* The step that decrypts uses the key and colour code of the cell that    *)
(* sent the PDU and, once located, its location and carrier.               *)
LEMMA UsedInit == Init => DecryptsForCell /\ DecryptsWithLocation
BY DEF Init, DecryptsForCell, DecryptsWithLocation

LEMMA UsedStep ==
  CryptoInv /\ DecryptsForCell /\ DecryptsWithLocation /\ [Next]_vars
    => (DecryptsForCell /\ DecryptsWithLocation)'
<1> SUFFICES ASSUME CryptoInv, DecryptsForCell, DecryptsWithLocation, [Next]_vars
             PROVE  DecryptsForCell' /\ DecryptsWithLocation'
  OBVIOUS
<1>1. CASE phase = "RUNNING" /\ RxEncrypted BY <1>1, UsedIsOfTheCell
<1>2. CASE \/ \E crcOk \in BOOLEAN : RxSync(crcOk)
           \/ \E id \in CckIds : RxSysinfoCck(id)
           \/ \E hn \in Hns : RxSysinfoHn(hn)
           \/ \E b \in AccessDefines : RxAccessDefine(b)
           \/ \E c \in Cells : ChangeCell(c)
  <2>1. used' = NotUsed
    BY <1>2 DEF RxSync, RxBcast, RxSysinfoCck, RxSysinfoHn, RxAccessDefine, ChangeCell
  <2> QED BY <2>1 DEF DecryptsForCell, DecryptsWithLocation
<1>3. CASE UNCHANGED vars
  <2>1. used' = used /\ cell' = cell /\ informed' = informed /\ keystore' = keystore
    BY <1>3 DEF vars, air
  <2>2. tcdb' = tcdb /\ \A net : NetworkFor(net)' = NetworkFor(net)
    BY <2>1, KeystoreSame, CckForSame
  <2> QED BY <2>1, <2>2 DEF DecryptsForCell, DecryptsWithLocation
<1>4. CASE LoadKeystore
  <2>1. used' = used /\ phase = "LOADING"
    BY <1>4 DEF air, LoadKeystore, LoadNetwork, LoadKey, RejectLine, EndOfFile, Reads
  <2>2. used = NotUsed BY <2>1 DEF CryptoInv, Waits
  <2> QED BY <2>1, <2>2 DEF DecryptsForCell, DecryptsWithLocation
<1> QED BY <1>1, <1>2, <1>3, <1>4 DEF Next, OnAir

(* The receiver never decrypts with another cell's key or colour code.     *)
THEOREM DecryptsOwnCell == Spec => []DecryptsForCell
BY InitHolds, CryptoInvStep, UsedInit, UsedStep, PTL DEF Spec

(* Nor before a broadcast, nor with another location after a SYSINFO.      *)
THEOREM DecryptsLocated == Spec => []DecryptsWithLocation
BY InitHolds, CryptoInvStep, UsedInit, UsedStep, PTL DEF Spec

-----------------------------------------------------------------------------
(* The slot is a record; nothing is collected before the keystore is read. *)
SlotShape ==
  /\ DOMAIN fragslots = {1}
  /\ DOMAIN fragslots[1] = {"active", "age", "encryption", "key", "msgb"}
  /\ fragslots[1].active => phase = "RUNNING"

StartedWithKey ==
  fragslots[1].active /\ startedAs # Clear =>
    /\ fragslots[1].encryption /\ slotKey # NoKey
    /\ startedAs.net = tcdb.keys[slotKey].net /\ startedAs.num = tcdb.keys[slotKey].num

SlotInv == SlotShape /\ FragmentsCanBeDecrypted /\ StartedWithKey

-----------------------------------------------------------------------------
(* A step of the program with reassembly is, for the crypto state, one of  *)
(* its own steps or none.                                                  *)
LEMMA StepsOfCryptoState == [KeysNext]_allVars => [Next]_vars
<1> SUFFICES ASSUME [KeysNext]_allVars PROVE [Next]_vars OBVIOUS
<1>1. CASE LoadKeystore BY <1>1 DEF Next
<1>2. ASSUME phase = "RUNNING", NEW heard \in BOOLEAN, heard => Descrambled,
             (\E k \in CckIds \cup {0} : Start(k, heard)) \/ Frag(heard) \/ End(heard)
      PROVE  [Next]_vars
  <2>1. CASE \E k \in CckIds \cup {0} : Start(k, heard)
    <3>1. RxEncrypted \/ UNCHANGED vars BY <2>1 DEF Start
    <3> QED BY <1>2, <3>1 DEF Next, OnAir
  <2>2. CASE Frag(heard) BY <2>2 DEF Frag
  <2>3. CASE End(heard) BY <2>3 DEF End
  <2> QED BY <1>2, <2>1, <2>2, <2>3
<1>3. CASE phase = "RUNNING" /\ Age BY <1>3 DEF Age
<1>4. CASE /\ phase = "RUNNING"
           /\ \/ \E crcOk \in BOOLEAN : RxSync(crcOk) /\ Silence
              \/ \E id \in CckIds : RxSysinfoCck(id) /\ Silence
              \/ \E hn \in Hns : RxSysinfoHn(hn) /\ Silence
              \/ \E b \in AccessDefines : RxAccessDefine(b) /\ Silence
              \/ RxEncrypted /\ Silence
              \/ \E c \in Cells : Retune(c)
  BY <1>4 DEF Next, OnAir, Retune
<1>5. CASE UNCHANGED allVars BY <1>5 DEF allVars
<1> QED BY <1>1, <1>2, <1>3, <1>4, <1>5 DEF KeysNext

(* Reassembly and crypto state together implement the crypto state, and    *)
(* so keep what is proved of it.                                           *)
THEOREM ImplementsCryptoState == KeysSpec => Spec
<1>1. KeysInit => Init BY DEF KeysInit
<1> QED BY <1>1, StepsOfCryptoState, PTL DEF KeysSpec, Spec

(* The key in use stays the keystore's for what was received last, also    *)
(* while messages are reassembled.                                         *)
THEOREM KeyStaysCurrentWithSlots == KeysSpec => []KeyIsCurrent
BY ImplementsCryptoState, KeyStaysCurrent, PTL

-----------------------------------------------------------------------------
(* While the program runs the keystore stays as it is, and what TB5 needs  *)
(* is never forgotten.                                                     *)
LEMMA InfoStays ==
  ASSUME CryptoInv, phase = "RUNNING", [Next]_vars
  PROVE  keystore' = keystore /\ (InfoKnown => InfoKnown')
<1>1. tcs \in TcsType /\ tcdb \in TcdbType /\ tcd \in [net : Nat, cc : Nat] /\ cell \in Cells
  BY DEF CryptoInv, TypeOK, TcsType, TcdbType
<1>2. CASE \E crcOk \in BOOLEAN : RxSync(crcOk)
  <2>1. PICK crcOk \in BOOLEAN : RxSync(crcOk) BY <1>2
  <2>2. cell.net \in Nat /\ cell.cc \in Nat BY <1>1, CryptoAssumption
  <2>3. tcd'.net \in Nat /\ tcd'.cc \in Nat BY <1>1, <2>1, <2>2 DEF RxSync
  <2> DEFINE s == [tcs EXCEPT !.cc = tcd'.cc]
  <2>4. s \in TcsType /\ s.cc \in Nat /\ s.la = tcs.la /\ s.cn = tcs.cn
    BY <1>1, <2>3 DEF TcsType
  <2>5. tcs' = IF tcs.net # tcd'.net THEN UpdateCurrentNetwork(s, tcd'.net) ELSE s
    BY <2>1 DEF RxSync, SyncState
  <2> HIDE DEF s
  <2>6. \A f \in {"cckId", "la", "cn", "cc", "hn"} :
          UpdateCurrentNetwork(s, tcd'.net)[f] = s[f]
    BY <1>1, <2>3, <2>4, UpdatesFields
  <2>7. tcs'.la = tcs.la /\ tcs'.cn = tcs.cn /\ tcs'.cc \in Nat
    BY <2>4, <2>5, <2>6
  <2> QED BY <2>1, <2>7 DEF RxSync, InfoKnown
<1>3. ASSUME NEW b \in Broadcast, RxBcast(b)
      PROVE  keystore' = keystore /\ (InfoKnown => InfoKnown')
  <2> DEFINE l == Locate(tcs, b)
             id == b.number
  <2>1. /\ l \in TcsType /\ l.la = b.la /\ l.cn = b.cn
        /\ \A f \in {"net", "cckId", "hn", "cc", "network", "cck"} : l[f] = tcs[f]
    <3>1. 0 \in Nat OBVIOUS
    <3> QED BY <1>1, <1>3, <3>1, CopiesFields, Zenon
  <2>2. b.la \in Nat /\ b.cn \in Nat /\ id \in Nat /\ b.cck \in BOOLEAN
    BY <1>3 DEF Broadcast
  <2>3. tcs' = CASE ~b.cck -> [l EXCEPT !.hn = id]
                 [] b.cck /\ id = tcs.cckId -> l
                 [] b.cck /\ id # tcs.cckId -> NewCck(l, id)
    BY <1>3 DEF RxBcast
  <2>4. keystore' = keystore BY <1>3 DEF RxBcast
  <2> HIDE DEF l, id
  <2>5. \A f \in {"net", "la", "cn", "cc", "hn", "network"} : NewCck(l, id)[f] = l[f]
    <3>1. l \in TcsType /\ tcdb \in TcdbType /\ id \in Nat BY <1>1, <2>1, <2>2
    <3>2. \A i \in Nat : \A f \in {"net", "la", "cn", "cc", "hn", "network"} :
            NewCck(l, i)[f] = l[f]
      BY <3>1, UpdatesFields, Zenon
    <3> QED BY <3>1, <3>2, Zenon
  <2>6. [l EXCEPT !.hn = id].la = l.la /\ [l EXCEPT !.hn = id].cn = l.cn
        /\ [l EXCEPT !.hn = id].cc = l.cc
    BY <2>1 DEF TcsType
  <2>7. tcs'.la = l.la /\ tcs'.cn = l.cn /\ tcs'.cc = l.cc
    BY <2>2, <2>3, <2>5, <2>6
  <2> QED BY <2>1, <2>2, <2>4, <2>7 DEF InfoKnown
<1>4. CASE \/ \E id \in CckIds : RxSysinfoCck(id)
           \/ \E hn \in Hns : RxSysinfoHn(hn)
  <2>1. cell.la \in Nat /\ cell.cn \in Nat BY <1>1, CryptoAssumption
  <2>2. PICK cck \in BOOLEAN, number \in Nat : RxBcast(Sysinfo(cck, number))
    BY <1>4, CryptoAssumption DEF RxSysinfoCck, RxSysinfoHn
  <2>3. Sysinfo(cck, number) \in Broadcast BY <2>1, <2>2 DEF Sysinfo, Broadcast
  <2> QED BY <1>3, <2>2, <2>3
<1>5. CASE \E b \in AccessDefines : RxAccessDefine(b)
  BY <1>3, <1>5, CryptoAssumption DEF RxAccessDefine
<1>6. CASE RxEncrypted \/ \E c \in Cells : ChangeCell(c)
  BY <1>6 DEF RxEncrypted, ChangeCell, InfoKnown
<1>7. CASE UNCHANGED vars BY <1>7 DEF vars, air, InfoKnown
<1>8. ~LoadKeystore
  BY DEF LoadKeystore, LoadNetwork, LoadKey, RejectLine, EndOfFile, Reads
<1> QED BY <1>2, <1>4, <1>5, <1>6, <1>7, <1>8 DEF Next, OnAir

(* A key that can decrypt can do so after any step.                        *)
LEMMA KeyStaysGood ==
  ASSUME CryptoInv, phase = "RUNNING", [Next]_vars, NEW key, CanDecryptWith(key)
  PROVE  CanDecryptWith(key)'
<1>1. keystore' = keystore /\ InfoKnown'
  BY InfoStays DEF CanDecryptWith
<1>2. tcdb' = tcdb BY <1>1 DEF keystore
<1> QED BY <1>1, <1>2 DEF CanDecryptWith, KsgOf

-----------------------------------------------------------------------------
(* No message is being collected at the start.                             *)
LEMMA SlotInit == KeysInit => SlotInv
BY DEF KeysInit, F!Init, F!Cleared, SlotInv, SlotShape, FragmentsCanBeDecrypted, StartedWithKey

(* A slot whose flags, key and cipher stay as they are, or that is given   *)
(* up, keeps the invariant whatever happens to the crypto state.           *)
LEMMA SlotKept ==
  ASSUME CryptoInv, SlotInv, [Next]_vars,
         DOMAIN fragslots' = {1},
         DOMAIN (fragslots'[1]) = {"active", "age", "encryption", "key", "msgb"},
         \/ ~fragslots'[1].active
         \/ /\ fragslots'[1].active = fragslots[1].active
            /\ fragslots'[1].encryption = fragslots[1].encryption
            /\ fragslots'[1].key = fragslots[1].key
            /\ UNCHANGED slot
  PROVE  SlotInv'
<1>1. CASE ~fragslots'[1].active
  BY <1>1 DEF SlotInv, SlotShape, FragmentsCanBeDecrypted, StartedWithKey
<1>2. CASE fragslots'[1].active
  <2>1. /\ fragslots[1].active /\ phase = "RUNNING"
        /\ fragslots'[1].encryption = fragslots[1].encryption
        /\ fragslots'[1].key = fragslots[1].key
        /\ slotKey' = slotKey /\ startedAs' = startedAs
    BY <1>2 DEF SlotInv, SlotShape, slot
  <2>2. keystore' = keystore BY <2>1, InfoStays
  <2>3. tcdb' = tcdb /\ phase' = phase BY <2>2 DEF keystore
  <2>4. fragslots[1].encryption => CanDecryptWith(slotKey)
    BY <2>1 DEF SlotInv, FragmentsCanBeDecrypted
  <2>5. CanDecryptWith(slotKey) => CanDecryptWith(slotKey)'
    BY <2>1, KeyStaysGood
  <2>6. FragmentsCanBeDecrypted'
    BY <2>1, <2>4, <2>5 DEF SlotInv, FragmentsCanBeDecrypted, CanDecryptWith
  <2>7. StartedWithKey' BY <2>1, <2>3 DEF SlotInv, StartedWithKey, Clear, CipherOf
  <2>8. SlotShape' BY <2>1, <2>3 DEF SlotShape
  <2> QED BY <2>6, <2>7, <2>8 DEF SlotInv
<1> QED BY <1>1, <1>2

(* A message that starts in the clear or under a key that can decrypt it   *)
(* brings the invariant about, whatever was in the slot.                   *)
LEMMA SlotStarted ==
  ASSUME CryptoInv, SlotInv, [Next]_vars, phase = "RUNNING",
         NEW k \in CckIds \cup {0}, Start(k, TRUE), Kind(k # 0) # "keyless"
  PROVE  SlotInv'
<1> DEFINE kind == Kind(k # 0)
           key == IF kind = "keyed" THEN KsgKey ELSE NoKey
           cipher == IF kind = "clear" THEN Clear ELSE AirCipher(k)
<1>1. /\ DOMAIN fragslots' = {1}
      /\ DOMAIN (fragslots'[1]) = {"active", "age", "encryption", "key", "msgb"}
      /\ fragslots'[1].active /\ fragslots'[1].encryption = (kind = "keyed")
      /\ fragslots'[1].key = (kind = "keyed")
  BY DEF Start, F!StartFrag, F!Put, SlotInv, SlotShape
<1>2. slotKey' = key /\ startedAs' = IF DecryptWith(key) = cipher THEN cipher ELSE Clear
  BY DEF Start
<1>3. phase' = "RUNNING" /\ tcdb' = tcdb
  BY DEF Start, RxEncrypted, keystore, vars
<1>4. kind \in {"clear", "keyed"} /\ (kind = "keyed" => CanDecrypt) BY DEF Kind
<1>5. CASE kind = "clear"
  <2>1. startedAs' = Clear BY <1>2, <1>5 DEF DecryptWith, CanDecryptWith
  <2>2. StartedWithKey' BY <2>1 DEF StartedWithKey, Clear, CipherOf
  <2>3. FragmentsCanBeDecrypted' BY <1>1, <1>2, <1>5 DEF FragmentsCanBeDecrypted
  <2> QED BY <1>1, <1>3, <2>2, <2>3 DEF SlotInv, SlotShape
<1>6. CASE kind = "keyed"
  <2>1. CanDecryptWith(KsgKey)
    BY <1>4, <1>6 DEF CanDecrypt, CanDecryptWith
  <2>2. CanDecryptWith(KsgKey) => KsgKey # NoKey BY DEF CanDecryptWith
  <2>3. PICK g : g = KsgKey OBVIOUS
  <2>4. CanDecryptWith(g) /\ g # NoKey /\ slotKey' = g
    BY <1>2, <1>6, <2>1, <2>2, <2>3
  <2>5. CanDecryptWith(g)' BY <2>4, KeyStaysGood
  <2>6. FragmentsCanBeDecrypted'
    BY <1>1, <1>6, <2>4, <2>5 DEF FragmentsCanBeDecrypted, CanDecryptWith
  <2>7. startedAs' # Clear => startedAs' = CipherOf(tcdb.keys[g].net, tcdb.keys[g].num, tcs)
    BY <1>2, <1>6, <2>3, <2>4 DEF DecryptWith
  <2>8. startedAs' # Clear =>
          startedAs'.net = tcdb.keys[g].net /\ startedAs'.num = tcdb.keys[g].num
    BY <2>7 DEF CipherOf
  <2>9. Clear' = Clear BY DEF Clear, CipherOf
  <2> HIDE DEF kind, key, cipher
  <2>10. StartedWithKey'
    BY <1>1, <1>3, <1>6, <2>4, <2>8, <2>9 DEF StartedWithKey
  <2> QED BY <1>1, <1>3, <2>6, <2>10 DEF SlotInv, SlotShape
<1> QED BY <1>4, <1>5, <1>6

(* Every step keeps the invariant of the slot.                             *)
LEMMA SlotStep == CryptoInv /\ SlotInv /\ [KeysNext]_allVars => SlotInv'
<1> SUFFICES ASSUME CryptoInv, SlotInv, [KeysNext]_allVars PROVE SlotInv' OBVIOUS
<1>1. [Next]_vars BY StepsOfCryptoState
<1>2. CASE /\ UNCHANGED <<fragslots, slot>>
  BY <1>1, <1>2, SlotKept DEF SlotInv, SlotShape
<1>3. CASE LoadKeystore /\ UNCHANGED <<frag, slot>> BY <1>2, <1>3 DEF frag
<1>4. ASSUME phase = "RUNNING", NEW heard \in BOOLEAN, NEW k \in CckIds \cup {0},
             Start(k, heard)
      PROVE  SlotInv'
  <2>1. CASE heard /\ Kind(k # 0) # "keyless" BY <1>1, <1>4, <2>1, SlotStarted
  <2>2. CASE ~heard \/ Kind(k # 0) = "keyless"
    BY <1>2, <1>4, <2>2 DEF Start, F!StartFrag, F!Lose
  <2> QED BY <2>1, <2>2
<1>5. ASSUME NEW heard \in BOOLEAN, Frag(heard) PROVE SlotInv'
  <2>1. CASE heard /\ fragslots[1].active
    <3>1. fragslots' = [fragslots EXCEPT ![1] = F!Appended(fragslots[1], F!NextPiece(1, "FRAG"))]
      BY <1>5, <2>1 DEF Frag, F!RxMacFrag, F!Put
    <3>2. UNCHANGED slot BY <1>5 DEF Frag
    <3> QED BY <1>1, <3>1, <3>2, SlotKept DEF F!Appended, SlotInv, SlotShape
  <2>2. CASE ~(heard /\ fragslots[1].active)
    BY <1>2, <1>5, <2>2 DEF Frag, F!RxMacFrag, F!Lose
  <2> QED BY <2>1, <2>2
<1>6. ASSUME NEW heard \in BOOLEAN, End(heard) PROVE SlotInv'
  <2>1. CASE heard
    <3>1. fragslots' = [fragslots EXCEPT ![1] = F!Cleared]
      BY <1>6, <2>1 DEF End, F!RxMacEnd, F!Put
    <3> QED BY <1>1, <3>1, SlotKept DEF F!Cleared, SlotInv, SlotShape
  <2>2. CASE ~heard BY <1>2, <1>6, <2>2 DEF End, F!Lose
  <2> QED BY <2>1, <2>2
<1>7. CASE Age
  <2>1. fragslots' = [s \in {1} |-> F!Aged(fragslots[s])] BY <1>7 DEF Age, F!AgeFragslots
  <2>2. F!Aged(fragslots[1]) = F!Cleared
        \/ /\ DOMAIN F!Aged(fragslots[1]) = DOMAIN fragslots[1]
           /\ \A f \in {"active", "encryption", "key"} :
                F!Aged(fragslots[1])[f] = fragslots[1][f]
    BY DEF F!Aged, SlotInv, SlotShape
  <2>3. fragslots'[1].active => UNCHANGED slot BY <1>7 DEF Age
  <2> QED BY <1>1, <2>1, <2>2, <2>3, SlotKept DEF F!Cleared, SlotInv, SlotShape
<1>8. CASE Silence \/ \E c \in Cells : Retune(c) BY <1>2, <1>8 DEF Silence, Retune
<1>9. CASE UNCHANGED allVars BY <1>2, <1>9 DEF allVars, frag
<1> QED BY <1>3, <1>4, <1>5, <1>6, <1>7, <1>8, <1>9 DEF KeysNext

-----------------------------------------------------------------------------
(* The slot and the crypto state at every moment.                          *)
LEMMA KeysInvariant == KeysSpec => [](CryptoInv /\ SlotInv)
<1>1. KeysInit => CryptoInv /\ SlotInv BY InitHolds, SlotInit DEF KeysInit
<1>2. CryptoInv /\ SlotInv /\ [KeysNext]_allVars => (CryptoInv /\ SlotInv)'
  BY StepsOfCryptoState, CryptoInvStep, SlotStep
<1> QED BY <1>1, <1>2, PTL DEF KeysSpec

(* rx_macfrag and rx_macend may ignore the result of decrypt_mac_element.  *)
THEOREM SlotsCanDecrypt == KeysSpec => []FragmentsCanBeDecrypted
<1>1. CryptoInv /\ SlotInv => FragmentsCanBeDecrypted BY DEF SlotInv
<1> QED BY <1>1, KeysInvariant, PTL

(* A message that was understood at its start is understood to its end,    *)
(* whatever was announced and wherever the receiver was in between.        *)
THEOREM SlotsKeepTheirKey == KeysSpec => []MessageKeepsItsKey
<1>1. CryptoInv /\ SlotInv => MessageKeepsItsKey
  <2> SUFFICES ASSUME CryptoInv, SlotInv, fragslots[1].active, startedAs # Clear,
                      Descrambled, informed, NEW k \in CckIds, AirCipher(k) = startedAs
               PROVE  FragCipher = startedAs
    BY DEF MessageKeepsItsKey
  <2>1. tcs.cc = cell.cc /\ tcs.la = cell.la /\ tcs.cn = cell.cn
    <3>1. cell.net # 0 BY CryptoAssumption DEF CryptoInv, TypeOK
    <3> QED BY <3>1 DEF CryptoInv, FollowsCellData, Located, Descrambled
  <2>2. /\ fragslots[1].encryption /\ slotKey # NoKey /\ CanDecryptWith(slotKey)
        /\ startedAs.net = tcdb.keys[slotKey].net /\ startedAs.num = tcdb.keys[slotKey].num
    BY DEF SlotInv, StartedWithKey, FragmentsCanBeDecrypted
  <2>3. FragCipher = CipherOf(tcdb.keys[slotKey].net, tcdb.keys[slotKey].num, tcs)
    BY <2>2 DEF FragCipher, DecryptWith
  <2>4. startedAs.net = cell.net /\ startedAs.num = k BY DEF AirCipher, CipherOf
  <2> QED BY <2>1, <2>2, <2>3, <2>4 DEF AirCipher, CipherOf
<1> QED BY <1>1, KeysInvariant, PTL
=============================================================================
