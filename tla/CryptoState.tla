---------------------------- MODULE CryptoState ----------------------------
(***************************************************************************)
(* What the receiver knows of the network for the air interface cipher:    *)
(* struct tetra_crypto_state and its keystore (src/crypto/tetra_crypto.c), *)
(* updated piecemeal by SYNC PDUs (src/lower_mac/tetra_lower_mac.c) and    *)
(* SYSINFO PDUs (rx_bcast, src/tetra_upper_mac.c), and used whenever a     *)
(* MAC-RESOURCE is encrypted (rx_resrc, decrypt_mac_element).  Before the  *)
(* first burst load_keystore reads the keystore file, line by line.        *)
(*                                                                         *)
(* The ciphers themselves are external: a decryption is a record of what   *)
(* went into it.  The carrier may change to another cell at any time.      *)
(***************************************************************************)
EXTENDS Integers, Sequences

CONSTANTS
  Cells,       \* the cells a carrier can come from: net, cc, la, cn
  CckIds,      \* CCK identifiers a SYSINFO may carry
  Hns,         \* hyperframe numbers a SYSINFO may carry
  AccessDefines,   \* what an ACCESS-DEFINE has where a SYSINFO has these fields
  KeyFiles     \* keystore files, as sequences of lines (<<>> without -k)

(* A line defines a network or a key, or it does not parse.  The pair      *)
(* (mcc, mnc) is one value, net.                                           *)
KeyTypes == {"CCK_SCK", "DCK", "MGCK", "GCK"}
NetworkLine == [kind : {"network"}, net : Nat, ksg : Nat]
KeyLine == [kind : {"key"}, net : Nat, num : Nat, type : KeyTypes]
Line == NetworkLine \cup KeyLine \cup [kind : {"other"}]

(* What rx_bcast uses of a SYSINFO: location area, carrier, and a CCK      *)
(* identifier or a hyperframe number.                                      *)
Broadcast == [la : Nat, cn : Nat, cck : BOOLEAN, number : Nat]

ASSUME CryptoAssumption ==
  /\ \A c \in Cells : /\ {c.net, c.cc, c.la, c.cn} \subseteq Nat /\ c.net # 0
                      /\ c = [net |-> c.net, cc |-> c.cc, la |-> c.la, cn |-> c.cn]
  /\ CckIds \subseteq Nat /\ Hns \subseteq Nat /\ AccessDefines \subseteq Broadcast
  /\ KeyFiles \subseteq Seq(Line)

(* struct tetra_netinfo, struct tetra_key; a key's network is a position.  *)
Network == [net : Nat, ksg : Nat]
Key == [net : Nat, num : Nat, type : KeyTypes, network : Nat]

VARIABLES
  cell,        \* the cell on the air
  file,        \* the lines of the keystore file that are not read yet
  phase,       \* of the program: LOADING, RUNNING or EXITED
  tcdb,        \* the keystore
  tcd,         \* tcd: network, colour code; both decide the scrambling code
  tcs,         \* tms->tcs
  informed,    \* history: since the cell changed broadcast PDUs were decoded,
               \* and the last of them was a SYSINFO
  used         \* what the last encrypted PDU was decrypted with, if nothing
               \* was learnt since

air == <<cell, tcd, tcs, informed, used>>
keystore == <<file, phase, tcdb>>
vars == <<keystore, air>>

Unknown == -1
NoKey == 0      \* keys and networks are positions in the keystore, from 1
NotUsed == [key |-> NoKey, ksg |-> NoKey, cc |-> Unknown, la |-> Unknown, cn |-> Unknown, hn |-> Unknown]

(* The first match in the keystore's order.                                *)
FirstOf(S) == IF S = {} THEN NoKey ELSE CHOOSE i \in S : \A j \in S : i <= j

-----------------------------------------------------------------------------
(* load_keystore.  The arrays of networks and of keys grow by a block when *)
(* a new entry would be the first of the next block.                       *)
TCDB_ALLOC_BLOCK_SIZE == 16

GrownLate(size, n) == IF n > size THEN n + TCDB_ALLOC_BLOCK_SIZE ELSE size

Grown(size, n) ==
  IF n > 0 /\ n % TCDB_ALLOC_BLOCK_SIZE = 0 THEN n + TCDB_ALLOC_BLOCK_SIZE ELSE size

Reads(kind) == phase = "LOADING" /\ file # <<>> /\ Head(file).kind = kind

LoadNetwork ==
  /\ Reads("network")
  /\ tcdb' = [tcdb EXCEPT !.nets = Append(@, [net |-> Head(file).net, ksg |-> Head(file).ksg]),
                          !.netRoom = Grown(@, Len(tcdb.nets))]
  /\ file' = Tail(file)
  /\ UNCHANGED <<phase, air>>

(* The key's network is looked up when all lines are read.                 *)
LoadKey ==
  /\ Reads("key")
  /\ tcdb' = [tcdb EXCEPT !.keys = Append(@, [net |-> Head(file).net, num |-> Head(file).num,
                                              type |-> Head(file).type, network |-> NoKey]),
                          !.keyRoom = Grown(@, Len(tcdb.keys))]
  /\ file' = Tail(file)
  /\ UNCHANGED <<phase, air>>

RejectLine ==
  /\ Reads("other")
  /\ phase' = "EXITED"
  /\ UNCHANGED <<file, tcdb, air>>

-----------------------------------------------------------------------------
(* update_current_cck: the CCK or SCK of the network that has the number   *)
(* SYSINFO names.                                                          *)
KeysFor(net, id) ==
  {i \in DOMAIN tcdb.keys : /\ tcdb.keys[i].net = net
                            /\ tcdb.keys[i].num = id
                            /\ tcdb.keys[i].type = "CCK_SCK"}

CckFor(net, id) == FirstOf(KeysFor(net, id))

(* update_current_network and get_network_info.                            *)
NetworkFor(net) == FirstOf({i \in DOMAIN tcdb.nets : tcdb.nets[i].net = net})

(* The end of the file: a key without its network ends the program.        *)
KeysOfNetworks == \A i \in DOMAIN tcdb.keys : NetworkFor(tcdb.keys[i].net) # NoKey

EndOfFile ==
  /\ phase = "LOADING" /\ file = <<>>
  /\ IF KeysOfNetworks
       THEN /\ phase' = "RUNNING"
            /\ tcdb' = [tcdb EXCEPT !.keys = [i \in DOMAIN @ |->
                          [@[i] EXCEPT !.network = NetworkFor(tcdb.keys[i].net)]]]
       ELSE phase' = "EXITED" /\ UNCHANGED tcdb
  /\ UNCHANGED <<file, air>>

UpdateNetworkKeepCck(s, net) ==
  [s EXCEPT !.net = net, !.network = NetworkFor(net)]

UpdateCurrentNetwork(s, net) ==
  [s EXCEPT !.net = net, !.network = NetworkFor(net), !.cck = CckFor(net, s.cckId)]

(* tp_sap_udata_ind, SB1: cell data only from a SYNC PDU that decodes, but *)
(* they are copied to the crypto state either way.                         *)
SyncState(d) ==
  LET s == [tcs EXCEPT !.cc = d.cc]
  IN  IF tcs.net # d.net THEN UpdateCurrentNetwork(s, d.net) ELSE s

RxSync(crcOk) ==
  /\ tcd' = IF crcOk THEN [net |-> cell.net, cc |-> cell.cc] ELSE tcd
  /\ tcs' = SyncState(tcd')
  /\ used' = NotUsed
  /\ UNCHANGED <<keystore, cell, informed>>

(* Anything but a SYNC PDU is only decoded with the cell's scrambling code.*)
Descrambled == tcd = [net |-> cell.net, cc |-> cell.cc]

(* rx_bcast.                                                               *)
LocateStale(s, b) == [s EXCEPT !.la = IF @ = Unknown THEN b.la ELSE @, !.cn = b.cn]
Locate(s, b) == [s EXCEPT !.la = b.la, !.cn = b.cn]

NewCckStale(s, id) == [s EXCEPT !.cckId = id]
NewCck(s, id) == [s EXCEPT !.cckId = id, !.cck = CckFor(s.net, id)]

RxBcast(b) ==
  /\ Descrambled
  /\ tcs' = CASE ~b.cck -> [Locate(tcs, b) EXCEPT !.hn = b.number]
              [] b.cck /\ b.number = tcs.cckId -> Locate(tcs, b)
              [] b.cck /\ b.number # tcs.cckId -> NewCck(Locate(tcs, b), b.number)
  /\ used' = NotUsed
  /\ UNCHANGED <<keystore, cell, tcd>>

Sysinfo(cck, number) == [la |-> cell.la, cn |-> cell.cn, cck |-> cck, number |-> number]
RxSysinfoCck(id) == RxBcast(Sysinfo(TRUE, id)) /\ informed' = TRUE
RxSysinfoHn(hn) == RxBcast(Sysinfo(FALSE, hn)) /\ informed' = TRUE

(* Nothing looks at the type of a broadcast PDU, so that an ACCESS-DEFINE  *)
(* is read as a SYSINFO.                                                   *)
RxAccessDefine(b) == RxBcast(b) /\ informed' = FALSE

(* rx_resrc on an encrypted PDU: get_ksg_key, decrypt_mac_element.         *)
KsgKey == IF tcs.network = NoKey THEN NoKey ELSE tcs.cck

InfoKnown == tcs.cn >= 0 /\ tcs.la >= 0 /\ tcs.cc >= 0

(* generate_keystream: the cipher is that of the key's network.            *)
KsgOf(key) == tcdb.nets[tcdb.keys[key].network].ksg
Supported == {1, 2, 3}     \* KSG_TEA1, KSG_TEA2, KSG_TEA3

CanDecrypt == /\ Len(tcdb.keys) > 0 /\ KsgKey # NoKey /\ InfoKnown
              /\ KsgOf(KsgKey) \in Supported

RxEncrypted ==
  /\ Descrambled
  /\ used' = IF CanDecrypt
               THEN [key |-> KsgKey, ksg |-> KsgOf(KsgKey), cc |-> tcs.cc, la |-> tcs.la, cn |-> tcs.cn, hn |-> tcs.hn]
               ELSE NotUsed
  /\ UNCHANGED <<keystore, cell, tcd, tcs, informed>>

(* The receiver is tuned to another cell, or the cell changes.             *)
ChangeCell(c) ==
  /\ c # cell
  /\ cell' = c
  /\ informed' = FALSE
  /\ used' = NotUsed
  /\ UNCHANGED <<keystore, tcd, tcs>>

-----------------------------------------------------------------------------
(* tetra_crypto_state_init leaves cn as it was allocated, 0; tcd is zero.  *)
Init ==
  /\ cell \in Cells /\ file \in KeyFiles /\ phase = "LOADING"
  /\ tcdb = [keys |-> <<>>, keyRoom |-> TCDB_ALLOC_BLOCK_SIZE,
             nets |-> <<>>, netRoom |-> TCDB_ALLOC_BLOCK_SIZE]
  /\ tcd = [net |-> 0, cc |-> 0]
  /\ tcs = [net |-> Unknown, cckId |-> Unknown, hn |-> Unknown, la |-> Unknown,
            cn |-> 0, cc |-> Unknown, network |-> NoKey, cck |-> NoKey]
  /\ informed = FALSE /\ used = NotUsed

LoadKeystore == LoadNetwork \/ LoadKey \/ RejectLine \/ EndOfFile

OnAir ==
  \/ \E crcOk \in BOOLEAN : RxSync(crcOk)
  \/ \E id \in CckIds : RxSysinfoCck(id)
  \/ \E hn \in Hns : RxSysinfoHn(hn)
  \/ \E b \in AccessDefines : RxAccessDefine(b)
  \/ RxEncrypted
  \/ \E c \in Cells : ChangeCell(c)

Next == LoadKeystore \/ (phase = "RUNNING" /\ OnAir)

Spec == Init /\ [][Next]_vars

-----------------------------------------------------------------------------
(* Types, and that no entry of the keystore was written behind its array.  *)
TypeOK ==
  /\ cell \in Cells /\ file \in Seq(Line) /\ phase \in {"LOADING", "RUNNING", "EXITED"}
  /\ tcdb \in [keys : Seq(Key), keyRoom : Nat, nets : Seq(Network), netRoom : Nat]
  /\ Len(tcdb.keys) <= tcdb.keyRoom /\ Len(tcdb.nets) <= tcdb.netRoom
  /\ tcd \in [net : Nat, cc : Nat]
  /\ tcs \in [net : Nat \cup {Unknown}, cckId : Nat \cup {Unknown}, hn : Nat \cup {Unknown},
              la : Nat \cup {Unknown}, cn : Nat, cc : Nat \cup {Unknown},
              network : {NoKey} \cup DOMAIN tcdb.nets, cck : {NoKey} \cup DOMAIN tcdb.keys]
  /\ informed \in BOOLEAN
  /\ used \in [key : Nat, ksg : Nat, cc : Int, la : Int, cn : Int, hn : Int]

(* The key and the network in use are those the keystore has for what was  *)
(* received last, whichever of the network and the CCK identifier changed, *)
(* in whatever order: update_current_network and update_current_cck run    *)
(* only on a change, and never miss one.                                   *)
KeyIsCurrent ==
  /\ tcs.cck = CckFor(tcs.net, tcs.cckId)
  /\ tcs.network = NetworkFor(tcs.net)

(* A PDU is only decrypted with a key of the cell that sent it, the cipher *)
(* that the file has first for its network and its colour code, however    *)
(* the receiver came from another cell and in whatever order the lines are.*)
DecryptsForCell ==
  used # NotUsed =>
    /\ tcdb.keys[used.key].net = cell.net /\ used.cc = cell.cc
    /\ NetworkFor(cell.net) # NoKey /\ used.ksg = tcdb.nets[NetworkFor(cell.net)].ksg

(* Nor before a broadcast was received, although the carrier number is     *)
(* never unknown (it is not among the fields that are set to -1); and with *)
(* the cell's location when the last one was a SYSINFO of the cell.        *)
DecryptsWithLocation ==
  /\ used # NotUsed => used.la # Unknown
  /\ used # NotUsed /\ informed => used.la = cell.la /\ used.cn = cell.cn
=============================================================================
