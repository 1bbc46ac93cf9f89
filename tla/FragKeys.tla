------------------------------ MODULE FragKeys ------------------------------
(***************************************************************************)
(* Reassembly (FragSlots, in one timeslot) and the crypto state together.  *)
(* rx_resrc gives the slot the key that is selected when a fragmented      *)
(* message starts; rx_macfrag and rx_macend decrypt with that key, but     *)
(* with the location of the moment, and ignore whether decrypt_mac_element *)
(* succeeds (src/tetra_upper_mac.c).  Meanwhile SYNC and SYSINFO PDUs,     *)
(* also of another cell, change the crypto state.                          *)
(***************************************************************************)
EXTENDS CryptoState

CONSTANTS N203, Capacity, MaxMsgs, MaxPieces      \* of FragSlots

VARIABLES
  fragslots, sending, sent, missed, sdu,          \* of FragSlots
  slotKey,      \* fragslots[].key, the position in the keystore
  startedAs     \* history: the cipher of the message in the slot, if its start
                \* was decrypted as it was encrypted

frag == <<fragslots, sending, sent, missed, sdu>>
slot == <<slotKey, startedAs>>
allVars == <<vars, frag, slot>>

F == INSTANCE FragSlots WITH Slots <- {1}

-----------------------------------------------------------------------------
(* A cipher: the key by its network and number, and what tb5 adds to it.   *)
CipherOf(net, num, l) == [net |-> net, num |-> num, cc |-> l.cc, la |-> l.la, cn |-> l.cn]
Clear == CipherOf(0, 0, [cc |-> 0, la |-> 0, cn |-> 0])

(* The base station's, under its CCK number k.                             *)
AirCipher(k) == CipherOf(cell.net, k, cell)

(* decrypt_mac_element with a given key; its result is whether it can.     *)
CanDecryptWith(key) == key # NoKey /\ InfoKnown /\ KsgOf(key) \in Supported
DecryptWith(key) ==
  IF CanDecryptWith(key) THEN CipherOf(tcdb.keys[key].net, tcdb.keys[key].num, tcs) ELSE Clear

(* What rx_macfrag and rx_macend do to the bits of a fragment.             *)
FragCipherCurrent ==
  IF fragslots[1].encryption /\ slotKey # NoKey THEN DecryptWith(KsgKey) ELSE Clear
FragCipher ==
  IF fragslots[1].encryption /\ slotKey # NoKey THEN DecryptWith(slotKey) ELSE Clear

-----------------------------------------------------------------------------
Kind(encrypted) ==
  CASE ~encrypted -> "clear"
    [] encrypted /\ CanDecrypt -> "keyed"
    [] encrypted /\ ~CanDecrypt -> "keyless"

(* The start of a message, in the clear (k = 0) or encrypted.              *)
Start(k, heard) ==
  LET kind == Kind(k # 0)
      p == F!NextPiece(1, "START")
      key == IF kind = "keyed" THEN KsgKey ELSE NoKey
      cipher == IF kind = "clear" THEN Clear ELSE AirCipher(k)
  IN  /\ F!StartSent(1, kind)
      /\ IF heard THEN F!StartFrag(1, p, kind) ELSE F!Lose(1, p)
      /\ IF heard /\ kind # "clear" THEN RxEncrypted ELSE UNCHANGED vars
      /\ IF heard /\ kind # "keyless"
           THEN /\ slotKey' = key
                /\ startedAs' = IF DecryptWith(key) = cipher THEN cipher ELSE Clear
           ELSE UNCHANGED slot

Frag(heard) ==
  /\ F!FragSent(1)
  /\ LET p == F!NextPiece(1, "FRAG")
     IN  IF heard THEN F!RxMacFrag(1, p) ELSE F!Lose(1, p)
  /\ UNCHANGED <<vars, slot>>

End(heard) ==
  /\ F!EndSent(1)
  /\ LET p == F!NextPiece(1, "END")
     IN  IF heard
           THEN F!RxMacEnd(1, p) /\ slotKey' = NoKey /\ startedAs' = Clear
           ELSE F!Lose(1, p) /\ UNCHANGED slot
  /\ UNCHANGED vars

Age ==
  /\ F!AgeFragslots
  /\ IF fragslots'[1].active THEN UNCHANGED slot ELSE slotKey' = NoKey /\ startedAs' = Clear
  /\ UNCHANGED vars

(* The other actions of the crypto state; a cell's message ends with it.   *)
Silence == sdu' = F!NoSdu /\ UNCHANGED <<fragslots, sending, sent, missed, slot>>

Retune(c) ==
  /\ ChangeCell(c)
  /\ sending' = [sending EXCEPT ![1].idx = 0, ![1].kind = "none"]
  /\ sdu' = F!NoSdu /\ UNCHANGED <<fragslots, sent, missed, slot>>

KeysInit == Init /\ F!Init /\ slotKey = NoKey /\ startedAs = Clear

KeysNext ==
  \/ LoadKeystore /\ UNCHANGED <<frag, slot>>
  \/ phase = "RUNNING" /\
       \/ \E heard \in BOOLEAN :
            /\ heard => Descrambled
            /\ (\E k \in CckIds \cup {0} : Start(k, heard)) \/ Frag(heard) \/ End(heard)
       \/ Age
       \/ \E crcOk \in BOOLEAN : RxSync(crcOk) /\ Silence
       \/ \E id \in CckIds : RxSysinfoCck(id) /\ Silence
       \/ \E hn \in Hns : RxSysinfoHn(hn) /\ Silence
       \/ \E b \in AccessDefines : RxAccessDefine(b) /\ Silence
       \/ RxEncrypted /\ Silence
       \/ \E c \in Cells : Retune(c)

KeysSpec == KeysInit /\ [][KeysNext]_allVars

-----------------------------------------------------------------------------
(* A message that was understood at its start is understood to its end:    *)
(* a fragment encrypted as the start was is decrypted as it was, although  *)
(* the network announced another key or the receiver was at another cell   *)
(* in between; it takes a SYSINFO of the cell after a change of cell or an *)
(* ACCESS-DEFINE, since the location is that of the moment.                *)
MessageKeepsItsKey ==
  (fragslots[1].active /\ startedAs # Clear /\ Descrambled /\ informed)
    => \A k \in CckIds : AirCipher(k) = startedAs => FragCipher = startedAs

(* rx_macfrag and rx_macend may ignore the result of decrypt_mac_element:  *)
(* a slot that collects an encrypted message has its key, whose cipher is  *)
(* known, and no location is ever forgotten.                               *)
FragmentsCanBeDecrypted ==
  fragslots[1].active =>
    /\ fragslots[1].key <=> slotKey # NoKey
    /\ fragslots[1].encryption => CanDecryptWith(slotKey)
=============================================================================
