# A formal model of osmo-tetra's receiver

TLA+ modules, TLC configurations and TLAPS proofs for `tetra-rx`, the receiver
of osmo-tetra: from the demodulated bit stream to the messages that leave the
MAC and the LLC. Paths are relative to the repository's `src/` directory unless
they name another one.

## 1. The system

`tetra-rx` is one process with one thread. `main` (`tetra-rx.c`) reads up to 64
bits at a time and calls `tetra_burst_sync_in`; everything else happens inside
that call:

    main: read(64 bits)
      tetra_burst_sync_in           phy/tetra_burst_sync.c   find and cut bursts
        tetra_burst_rx_cb           phy/tetra_burst.c        burst -> blocks
          tp_sap_udata_ind          lower_mac/tetra_lower_mac.c
            descramble, deinterleave, Viterbi, CRC           block -> type-1 bits
            SYNC PDU: time and cell data
            upper_mac_prim_recv     tetra_upper_mac.c        loop over the PDUs
              rx_aach, rx_resrc, rx_bcast, rx_macfrag, rx_macend, rx_suppl
                decrypt             crypto/tetra_crypto.c
                rx_tm_sdu -> rx_tl_sdu   tetra_llc.c, tetra_mle*.c

No two things run at once, no acknowledgement is ever sent, nothing is stored
over a restart. What is hard is *state that is left behind by one call and used
by a later one*: the stream is lossy, a block means what earlier blocks said it
means, and five layers keep such state.

| component | state | operations | what makes it correct |
|---|---|---|---|
| TDMA time (`tetra_tdma.c`) | `t_phy_state.time`, `tcd->time` | add a slot, frame or symbol, carry | fields stay in range; a carry is never lost or doubled |
| burst synchroniser (`phy/tetra_burst_sync.c`) | 4096-bit buffer, stream position of its head, expected frame start, UNLOCKED / KNOW_FSTART / LOCKED | one call per read | frames are cut where bursts start; no bit is skipped or counted twice; it keeps up; it finds back after losses |
| training sequences, bursts (`phy/tetra_burst.c`) | none | search; split into blocks; build | finds the first sequence |
| lower MAC (`lower_mac/tetra_lower_mac.c`) | `cur_burst`, `tsn`, `ssi`, cell data | one call per block | a block is decoded or dumped as its own burst says; time and cell data come from good SYNC PDUs |
| channel coding (`lower_mac/*.c`) | none | scramble, interleave, code, puncture, CRC | decoding inverts coding |
| upper MAC (`tetra_upper_mac.c`) | fragment slots by timeslot, `cur_burst` | one call per PDU | a message is reassembled from its own fragments; the loop over a block ends |
| MAC PDUs (`tetra_mac_pdu.c`) | none | decode | every PDU of a block is found, its TM-SDU is cut out as it was put in |
| LLC (`tetra_llc.c`, `tetra_llc_pdu.c`) | list of unfinished SDUs by N(S) | one call per TM-SDU | an SDU is handed on as it was sent |
| crypto state (`crypto/tetra_crypto.c`) | keystore, network, CCK, location, hyperframe | updates by SYNC, SYSINFO; use by MAC-RESOURCE and fragments | the key in use belongs to the cell and to what it said last, or to the start of the message; the keystream is that of the slot |
| key algorithms (`crypto/taa1.c`, `hurdle.c`) | none | seal and unseal keys, derive keys | unsealing undoes sealing, and flags what sealing did not produce |
| ciphers (`crypto/tea*.c`) | none | keystream | equals the standard's |
| upper layers (`tetra_mle*.c`, `tetra_cmce_pdu.c`, `tetra_mm_pdu.c`, `tetra_sndcp_pdu.c`) | none | print the type of a PDU, and the IP packet of an SN-PDU | a PDU is taken for what it is |
| GSMTAP, tunnel (`tetra_gsmtap.c`, `tun-rx`, `c-src`) | a socket | format and send | - |
| demodulators (`demod/`) | GNU Radio graphs | deliver bits | - |

The hard behaviours, each at its line, are the `hazards` of `PROJECT.json`.

## 2. The modules

| module | models | composed from |
|---|---|---|
| `SlotClock` | abstract: a counter of timeslots modulo a cycle | |
| `TetraTdma` | `tetra_tdma.c`; the receiver's clock, stepped per burst | refines `SlotClock` |
| `SlotCipher` | `tea_build_iv`, `tb5` and the place in the keystream (`decrypt_mac_element`), next to a base station that counts slots and hyperframes | extends `TetraTdma` |
| `BurstSync` | `tetra_burst_sync_in`, `make_bitbuf_space`, the read of `main`, `tetra_find_train_seq` | |
| `AirLink` | a base station, a lossy demodulator and the receiver's slot count around it | extends `BurstSync` |
| `LowerMac` | `tetra_burst_rx_cb`, `tp_sap_udata_ind`, the loop over the PDUs of a block and what each PDU handler does to the state that later blocks depend on | uses `TetraTdma` |
| `FragSlots` | `rx_resrc` (fragment start), `rx_macfrag`, `rx_macend`, `append_frag_bits`, `age_fragslots`, fed by a base station over a lossy channel | |
| `LlcDefrag` | `tllc_defrag_in`, `tllc_defrag_out`, `rx_tm_sdu` for segmented SDUs, fed by several links over a lossy channel | |
| `BlockCoding` | the way of every bit of a burst through CRC, code, puncturing, interleaving, scrambling and burst layout, and back; `tetra_punct_test` with all puncturers; the order of the bits of a speech frame | |
| `LlcPdu` | `tetra_llc_pdu_parse`, the frame check sequence, `rx_tm_sdu`'s use of them and `rx_tl_sdu` behind it; what a sending LLC and MLE form | |
| `MacPdu` | the bits of MAC-RESOURCE, MAC-FRAG, MAC-END, channel allocation and SYSINFO: a base station that puts them into blocks, and the way of the receiver through them | extends `LlcPdu` |
| `CryptoState` | `load_keystore`, `update_current_network`, `update_current_cck`, the SYNC and broadcast PDUs that feed them, `get_ksg_key`, the checks of `decrypt_mac_element` and the choice of the cipher | |
| `FragKeys` | reassembly and crypto state together: the key that a fragment slot keeps | composes `CryptoState` (extended) and `FragSlots` (instance) |
| `KeySealing` | `HURDLE_encrypt` round by round, `HURDLE_enc_cbc`, `HURDLE_dec_cts`, the key schedule, and TA31/32, TA51/52, TA81/82, TA91/92 around them | |
| `*_proofs` | theorems about the component they are named after; `TetraTdma_proofs` also about `SlotCipher`, `BurstSync_proofs` about `AirLink`, `CryptoState_proofs` about `FragKeys` | extend it and TLAPS |
| `MC*` | TLC instances | |

`map` in `PROJECT.json` gives the source lines of every definition. The
correspondence is one action per outcome of a handler: an action is a whole call
of the handler along one of its paths.

**BurstSync.** One action is one call of `tetra_burst_sync_in` with 1 to
`ReadSize` new bits. The bits themselves are abstracted to the training
sequences in the buffer (the only thing the code looks at), each with its offset.
`startBit`, `bitsInBuf` and `nextFrame` are the C fields, the first and last
modulo `BitnumSize` because they are `unsigned int`. A case of the `switch` is
one or more actions; RX_S_KNOW_FSTART falls through to RX_S_LOCKED, so
`AlignToFrame` includes a round of the latter. `memmove` with a negative length
ends in the state `WILD`. `SeenFrom` says from which offset on the search sees a
training sequence (finding 1 below): it is set per sequence because at offsets
19 and 20 it depends on the bit before.

**AirLink.** Adds what the synchroniser is for: a carrier of consecutive bursts,
SYNC at least every `SyncPeriod` normal bursts, of which any may be garbled
(`HOLE`), and a demodulator that may lose bits (`Slip`) `MaxSlips` times.
Training sequences appear in the buffer exactly where the base station sent
them. `clock` is `t_phy_state.time` as a slot number (justified by
`ClockImplementsSlotCount`). `clean` counts the bursts since something last went
wrong: a garbled burst, lost bits, a SYNC block that did not decode, or a lost
lock. False training sequences in payload are left to
`BurstSync`, whose input is arbitrary.

**LowerMac.** A burst leaves two or three calls of `tp_sap_udata_ind` in `calls`;
each is one of `DumpTraffic`, `DiscardBlock` (bad CRC) or `DecodeBlock`; a
decoded block leaves `prim`, and each round of the loop in `tp_sap_udata_ind`
(line 330) is one `Rx*` action. What a PDU says is chosen freely; of the access
assignment that is its header and field 1, from which `DlUsage` and `AachState`
get the usage marker as `macpdu_decode_access_assign` and `rx_aach` do. `said` and
`fates` are history variables that remember what this burst's blocks said and
what became of them; `round` makes a round of the loop that changes nothing
visible, which is the case that never ends.

**FragSlots, LlcDefrag.** Fragments are `[msg, idx, type]`, segments
`[link, sdu, ss, final]`: the numbers the receiver does *not* have are in the
pieces, so that a property can say which messages got mixed. The sending side is
part of the module, because without it the receiver would be fed with input no
base station sends. Buffers are counted in pieces. In `LlcDefrag` a segment
stands for its bits and for the junk that `tllc_defrag_in` copies behind it.

**MacPdu, LlcPdu.** The one place where bits are counted inside PDUs. The base
station puts fields one behind the other and computes length fields from what it
put; the receiver has nothing but the block, a cursor and the numbers it reads.
`pdus` remembers at which bit each PDU begins and what should come of it. One
timeslot, and every block is received: losses are in `FragSlots`, so the slot
needs no age here. Fields nobody reads are `Unread` bits. The cipher is a
keystream of ones, which is enough to spoil every field that is read before
decryption; an encrypted PDU is `enc` in the header, and its channel allocation
is encrypted, as the receiver believes. Length indicators that `decode_length`
calls invalid are never sent. The frame check sequence is computed by the
receiver bit by bit, as the code does, and by the sender as the remainder of a
polynomial. What comes out at the end is what `rx_tl_sdu` prints: protocol, type,
and of an SN-PDU its header and the packet's version, header length and protocol.

**CryptoState.** First the keystore file is read, one line per action. A line is
a network, a key, or does not parse, which ends the program (`phase` EXITED), as
does a key without a network at the end of the file; empty lines and comments
are left out, and a receiver without `-k` has the empty file. `keyRoom` and
`netRoom` are the lengths of the two arrays, which grow by blocks. Then bursts
come. `(mcc, mnc)` is one value, a key is a position in the keystore
and a decryption is a record of what went into it. `tcd` decides whether a block
can be descrambled at all, and with that whether a SYSINFO of the present cell
can be received. `rx_tmv_unitdata_ind` gives every broadcast PDU to `rx_bcast`
without a look at its type, so an ACCESS-DEFINE is a SYSINFO with some other
location and number (`AccessDefines`).

**FragKeys.** `CryptoState`'s variables and actions, and `FragSlots` for one
timeslot beside them; every action of one is joined with what it does to the
other (`Start` decrypts and takes the selected key, `Frag` and `End` decrypt with
the slot's key and the location of the moment, a cell that goes off the air takes
its unfinished message with it). A PDU is only heard while it can be
descrambled. `slotKey` is `fragslots[].key`; `startedAs` is a history variable:
the cipher of the message, if its start was decrypted as it was encrypted.

**SlotCipher.** A word is the set of its bits that are 1, so that `|` is a union
as in the code. The base station has a number for the slot in the hyperframe
and one for the hyperframe, and derives IV and mask from the layouts that are
documented (the comment in `tb5`, the bit ranges of the IV); the receiver has
its clock and `tcs->hn`. A block's `lchan` decides about the place in the
keystream, as in `decrypt_mac_element`.

**BlockCoding.** `Encode` is one type-2 bit through the encoder chain, `Scramble`
and `Receive` are one bit on its way out and in. A bit in `air` carries its
origin (block and number in the mother code), and `heard` is what the receiver
puts into the Viterbi decoder for it; the decoder itself is libosmocore's. The
sender's code is the encoder of `conv_enc_test.c` with the scrambling code of the
cell, which that program leaves out. Offsets are written as in the source on
both sides, in bits by the builders and in symbols by `tetra_burst_rx_cb`, since
that they agree is one of the questions. Two separate beginnings come first, since
nothing else needs them: `Puncture` is one symbol through `test_one_punct`,
`Reorder` one bit through `tetra_acelp_type2_to_codec`.

**KeySealing.** An action is one round of the cipher, or what is done before,
between and behind the two blocks; `step` says which block is worked on. One
behaviour seals a given key, unseals the result and so on, or unseals a received
text and, if it was not flagged, seals what came out. `Layout` and `PlaceOf` are
the hand-written index lists of padding and unpadding for the three kinds of key
(a GSKO is sealed like a GCK). `trace` is a history variable: the halves before
each round, in the order of enciphering, which the operation that follows has to
go through again. Exclusive or, S-box and constants of the key schedule are
constants of the module, as no property depends on their values. Only TB5 of
`taa1.c` is called by `tetra-rx`; these functions are a library for those who
have keys to unseal.

### Bounds

| run | instance | why it is enough |
|---|---|---|
| `slot_cipher` | all slots of two hyperframes, 65535 and 0; six locations | a hyperframe ends and its number wraps; the locations have a code in which no two bits of `la`, `cn`, `cc` are alike, so a bit in a wrong place is seen |
| `burst_sync` | bursts of 8 bits, buffer of 19, reads of 1-2, one or two training sequences, 62 bits | seven bursts; the buffer overflows, two searches and two locks fit in; `BitnumSize` = 58 is passed, so the behaviour around the wrap is in it too. Offsets keep the order of the real ones (a SYNC sequence before a normal one, `NextOffset` < burst, two reads fit into it). |
| `air_link` | bursts of 7 bits, reads of 1-2, 55 bits, one slip, one normal burst between two SYNC bursts | nearly eight bursts: a lock takes three, and bits lost under it leave enough to lose the lock, to lock again (four) and to correct the time (five); a read is longer than what lies in front of a SYNC sequence, so sequences straddle reads and frame boundaries |
| `frag_slots` | slots 1 and 3, two messages of three pieces, buffers of three pieces, N203 = 1 | two slots to see that they are independent, two messages to splice, a buffer that is exactly full; N203 only scales aging |
| `lower_mac` | six bursts around frames 17/18/1, four access assignments (a header with no downlink marker, a marker that is not traffic, two that are), two addresses, PDU lengths of 104 and 112 bits | a history of two SYNC bursts with traffic between them; lengths that need two and three rounds to fill a block |
| `block_coding` | real lengths and tables; five payloads, two cells | where a bit goes does not depend on the payload, and the codes are linear (the CRC affine), so payloads with one bit set stand for others; the bits at the ends of each field are among them, and every bit of the scrambler's start value is 0 in one cell and 1 in the other; all nine tests of `tetra_punct_test` at their lengths, all 274 speech bits |
| `frag_keys` | three cells, two of one network, seven keystore files (order, type and absence of keys and networks, a network defined twice, a line that does not parse, one file of 17 keys and 17 networks), one ACCESS-DEFINE; two messages of up to three pieces, N203 = 1 | all interleavings of SYNC, SYSINFO, ACCESS-DEFINE and cell change, whose number has no bound, with the pieces of the messages; both arrays grow |
| `mac_pdu` | real lengths; blocks of 124 and 268 bits, two messages, at most one of them with an unusual header or SDU (any address type, element or flag), with and without the key | each PDU is cut out by itself, so one unusual PDU among plain ones shows what it does to those before and behind it; a PDU of each upper protocol and of one unknown; a message of 231 bits takes up to three blocks, in which case start, fragment and end are all there |
| `key_sealing` | real lengths, rounds and places; bytes of four bits, two keys, two versions, 12 to 14 keys of each kind to seal (each byte alone among them), 252 texts, 12 of them sealed keys (one of each kind under each key and version) | the places do not depend on the values; the sealed keys are accepted as they arrive, and some of the other texts are flagged by one check byte only |
| `llc` | two links, N(S) modulo 2, two SDUs each of up to three segments, one repetition | reuse of an N(S) by the same and by another link, a full buffer |

Every constant that exists only to make the state space finite is marked
`bound:` where it is declared.

### Fairness

* `FragSlots!FairSpec`: `WF_vars(AgeFragslots)`. As long as the receiver hears a
  carrier, frame 18 comes round each multiframe and its AACH blocks, which have
  no CRC, are handed up and call `age_fragslots`. No fairness is assumed of the
  base station.
* `LowerMac!FairSpec`: `WF_vars(Next)`. One thread, no blocking call between the
  PDUs of a block: as long as there is a next step it is taken.

Everything else is safety and needs none. Deadlock is not checked where a bound
ends the input, or where the program stops (`exit(1)`, an abort); `slot_cipher`
has no such end (SYSINFOs go on) and is checked for deadlock.

## 3. What the runs show

**slot_cipher.** `TimeInRange`: no timeslot 0, frame 19 or multiframe 61.
`ClockImplementsSlotCount`: the nested carries implement a counter modulo 4320.
`KeystreamInStep`: in every slot, once this hyperframe's number was received, IV,
key and place in the keystream are the base station's for whole slots, both
halves of a divided slot and the second block of a SYNC burst. The place depends
on `lchan` being TETRA_LC_UNKNOWN for a second block, which `tp_sap_udata_ind`
never sets to anything else unless the block is the BNCH, which is not
encrypted. `IvNamesSlot`: within a hyperframe the IV grows from slot to slot, so
no two slots share one, whatever hyperframe number the receiver believes in.

**burst_sync**, for every bit stream. `FrameStartInBuffer`: the frame start is
in the buffer when the code believes so. This needs the bit numbers not to have
wrapped: behind the wrap the action `AlignBeyondBuffer` is reached, in which
`memmove` gets a negative length (`tetra_burst_sync.c:93`).
`BitnumsFollowStream`: no path that removes bits forgets to count them; that the
clock moves with the bits (`OneTickPerBurst`) is proved and not run. `LockedKeepsUp`,
`FrameStartAhead`: one burst per call is enough, so the buffer is never cut under
a lock. `SearchedHasNoSync`: a visible SYNC sequence is never left behind.

**air_link**, against a base station. `FramesAreBursts`: whatever is garbled, frames are cut at burst
boundaries, unless bits are lost between the SYNC sequence and the frame start
computed from it (`trusted`). In that case the lock is off, and since a normal
training sequence in the wrong place is only reported
(`tetra_burst_sync.c:130-137`), it stays so until a SYNC sequence or no sequence
is first in a frame. `LockHolds`: a trusted lock is lost to a garbled burst only.
`RelocksInTime`: `SyncPeriod` + 3 bursts after a lock was lost or the air last
disturbed, the receiver is locked; one burst less is not enough.
`ClockCatchesUp`: after 2 * `SyncPeriod` + 3 such bursts the time of a trusted
lock is right; between the lock and the first decoded SYNC PDU it is not, since
the clock stood still.

**lower_mac.** `FateFollowsBurst`: flags of earlier bursts never send a block to
the wrong place, although SB1 is handled before the AACH of its burst.
`DumpNamesItsBurst`, `PduTimeIsAirTime`; `TypeOK`: the timeslot that indexes the
fragment slots is never 0; `BlockEnds`: the loop over a block ends, if every PDU
with a length has one.

**block_coding.** `TrellisFollowsEncoder`: the hand-made tables of
`viterbi_cch.c` are the encoder of `tetra_conv_enc.c`, those of
`viterbi_tch.c` the code that the comment above them states. `CrcResidue`: 0x1d0f is
what a good block of any length leaves. `ReceiverUndoes`: every symbol reaches the decoder
in the place it was made for and with its value, in all three kinds of bursts;
the access assignment, whose Reed-Muller code the receiver does not decode
(`tetra_lower_mac.c:271`), can be read off its first 14 bits. All nine modes of
the puncturers get back what they let through, and the type-2 bits of two speech
frames come back from the codec's order, except where the table of class 0 is
wrong (below). `TypeOK`: no puncturer writes outside the mother code.

**frag_slots.** `SduIsWhatWasHeard`: a message is what was sent in its slot since
its start, less what was lost. `NoSplice`: two messages are joined only if an end
*and* the next start were missed (which the code cannot notice). `LeftoversGo`: what
is left of a message without an end is aged out.

**llc.** `NoLateGap`: behind segment 1 no gap or repetition is accepted, and
behind a final segment nothing. `ExactWhenUndisturbed`: an SDU heard once, whole
and without others that use its N(S) is passed on as sent.

**frag_keys.** `TypeOK`: no entry of the keystore is written behind its array.
`KeyIsCurrent`: the selected key is a function of what was received
last, in whatever order. `DecryptsForCell`: no key, cipher or colour code of
another cell survives a change of cell, and the cipher is that of the first line
of the file for the network, wherever the key stands. `DecryptsWithLocation`: the
location is the cell's when the last broadcast PDU was a SYSINFO of it.
`MessageKeepsItsKey`: a message that was understood at its start is understood to
its end, although another key was announced, or another cell heard, in between.
`FragmentsCanBeDecrypted`: `rx_macfrag` and `rx_macend` never meet an encrypted
message without a key, nor one that `decrypt_mac_element` would refuse, so it
does no harm that they ignore its result.

**mac_pdu.** `SdusAsSent`: whatever elements, fill bits and encryption are around
a TM-SDU and in however many fragments it came, the LLC gets it bit by bit as it
was sent, parses it as what it is, and the MLE finds the protocol, the type and the
IP packet that were put in, although the defragmenter copies bits from behind a
segment; what cannot be decrypted is taken for
nothing; SYSINFO's fields are read where they are. `CursorOnPdu`: the loop over a
block goes from PDU to PDU and stops behind the last one, although fill bits,
which the code strips from a copy of the length, lie between them.

**key_sealing.** `UnsealUndoesSeal`: what was sealed comes out again, unflagged.
`AcceptedReseals`: a text that is not flagged is exactly what sealing its key
gives, so no two texts stand for one key.

### Where the code and its documents disagree

Two runs check what a comment says and show that the code does otherwise:

1. `burst_sync_search`: `tetra_find_train_seq` does not find a sequence at
   offsets 0 to 18, nor always at 19 and 20, because its filter starts one bit
   short.
2. `zero_len`: a MAC-END with length 0 is parsed again and again.

Further observations, for which no run was made:

* Synchroniser: its bit numbers wrap after 2^32 bits (33 hours), and a frame
  start computed just before is then misjudged, with a huge `memmove`.
  A lock that is off after a loss of bits need not go with the next SYNC burst,
  which is why `clean` starts anew when a lock is lost: a call leaves up to a read
  of bits in the buffer, so a normal sequence may be first in the frame that the
  SYNC sequence is in, or that sequence may straddle two frames or begin where the
  search is blind. With reads of one bit the SYNC sequence ends such a lock.
* Lower MAC: `-d DUMPDIR` looks optional, but the first traffic burst without it
  ends the program (`DumpTraffic` has it); the "used ssi" of a dump is the last
  address heard in *any* slot; a bad SB1 copies the old colour code.
  A dump always has 432 bits, the second half of which nobody wrote if only a half
  slot is dumped (`lower_mac/tetra_lower_mac.c:225`).
* Upper MAC: `rx_bcast` is called for an ACCESS-DEFINE too
  (`tetra_upper_mac.c:505`, `tetra_mac_pdu.h:21`) and takes location and CCK
  identifier from wherever they would be in a SYSINFO; what is wrong then stays
  so until the next SYSINFO. `DecryptsWithLocation` excepts this case.
  `tetra_upper_mac.h:13` says that a slot's age counts multiframes and
  line 9 that N203 "must be 4 multiframes or greater", but `age_fragslots` is
  called for every PDU of frame 18 (`tetra_upper_mac.c:491-494`), at least four
  per multiframe: a message times out in the second multiframe.
* MAC PDUs: `macpdu_decode_sysinfo` does not advance its cursor over the CCK
  identifier or hyperframe number (`tetra_mac_pdu.c:61-64`), so the option field
  is read 16 bits early; the MLE part is not affected, since it is read at a
  fixed place, which the comment at line 79 takes to be the cursor. `rx_suppl`
  assumes a length of 100. A PDU that ends behind its block without fill bits
  would get zeros.
* LLC: `tetra_llc.c:167` says "check if the fragment is complete and hand it
  off", but a list with gaps is handed off as well; `tetra_llc_pdu.c` says at the
  final segments that the FCS is checked elsewhere, which it is nowhere; a basic
  PDU with a bad FCS is passed on; acknowledged and unacknowledged segments with
  the same N(S) share one entry; `tllc_defrag_in` is given the length of the
  whole PDU, so each segment is followed by as many extra bits as the header had;
  an empty TL-SDU with an FCS shifts a 32-bit number by 32.
* Crypto: the IV is built although the hyperframe number is still unknown (-1,
  taken for 0x7fff), and no clock advances the number at the end of a hyperframe
  (`tetra_tdma.c` does not touch `hn`; the one that `rx_bcast` writes into
  `tdma_time`, line 95, is in a copy), so until the next SYSINFO with a
  hyperframe number the IV is that of the hyperframe before. `KeystreamInStep`
  claims nothing for these slots. `tetra_tdma.h:7` gives 1 to 65535 for `hn`,
  which is always 0 in `t_phy_state`. Every PDU of a block is decrypted from the
  same place of the keystream, the beginning of its half slot.
  the comment in `load_keystore` numbers the key types 1, 2, 3, 4
  (`crypto/tetra_crypto.c:296`), the type they are read into 1, 2, 4, 8, so that
  a MGCK or GCK written as the comment says is not one;
  `decrypt_voice_timeslot` is called nowhere.
* Elsewhere: `tetra_ul_carrier_hz` asks whether an unsigned number is negative;
  `matrix_interleave` (unused) computes every index from the dimensions instead
  of the row and column;
  `normalize_sn` is off by one, and unused; `conv_enc_test.c` shifts the AACH
  codeword after `htonl`, encodes the SYNC bits in place of the SYSINFO bits and
  reads 4 and 8 bits beyond its type-2 arrays; of the traffic reordering tables
  (unused) `class0_positions` declares 51 entries and lists 50, with 33 for 43 and
  without 64: the last entry is 0, so that `out[-1]` is written for the first
  frame, and the last bit of the first frame for the second; the comments speak of
  432 and 216 bits, the code has 274 and 137. `conv_tch` (unused) has N = 4 although
  its outputs are three symbols; the type in `punct_38_80` is that of another
  puncturer. `put_phase_adj_bits` looks up `phase2bits` without the PHASE() that
  the table is laid out with.

## 4. What is proved

TLAPS checks, for every value of the constants that the named assumptions allow:

* `TetraTdma_proofs`: `ClockInRange` and `ClockCounts` (the refinement of
  `SlotClock`). The range is inductive as it stands; the carries are decided case
  by case in lemmas about `AddTn`. About `SlotCipher`, for any cells and first
  hyperframe: `KeystreamsAgree` and `IvsAreFresh`. `CipherInv` relates the two
  sides: the base station's slot is the number of the receiver's time, and once
  the receiver was told of this hyperframe its number is the base station's. The
  rest is about the words: which field each bit of the IV comes from (`InIvWord`),
  that numbers of so many bits with the same digits are the same (so no two slots
  share an IV), and that each bit of the mask of `tb5` is the right one of the
  location (`MaskIsAir`).
* `BurstSync_proofs`: from `GeometryAssumption` (the offsets fit into a burst, a
  read is short, the buffer holds two bursts and a read, all of which the real
  numbers satisfy). `BufInv`, the size and type of the buffer, is inductive by
  itself and gives `TypeCorrect` and `BitnumsExact`. The rest holds until the
  bit numbers wrap: `BeforeWrap == Unwrapped => IInv`, where `IInv` is the
  conjunction of `TrainsInBuffer`, `SearchedHasNoSync`, `LockedKeepsUp`,
  `FrameStartAhead` and exact (not modular) bit numbers. None of them is
  inductive alone: a lock keeps up because at the moment it is gained the frame
  start is less than two bursts behind (`FrameStartAhead`), which holds because
  it was computed from a sequence that no earlier search saw
  (`SearchedHasNoSync`), which is therefore in the bits of the last read or the
  buffer was searched for the first time. `SyncInvariant` is that invariant;
  `FrameStartSafe`, `KeepsUp`, `Searched`, `FrameStartKnown`, `TicksFollowBursts`
  follow. About `AirLink`: `LocksAreOnBursts`, that `FramesAreBursts` holds until
  the bit numbers wrap (behind the wrap a frame may be cut anywhere, as above).
  `AirInv` adds to `BeforeWrap` that training sequences received since bits were
  lost are on the grid of the base station's bursts (`TrainsOnGrid`), and with
  them the frame start that was computed from one, as long as it is `trusted`.
  It needs the two offsets that `tetra_burst_sync_in` counts with to fit each
  other (`AirAssumption`: `SyncOffset` + `NextOffset` is a burst, 214 + 296 = 510
  in the code), and nothing about losses or garbled bursts.
  `RelocksOnTime`, `ClockIsRight` and `LockOutlives` are recovery as safety:
  `RelocksInTime` and `ClockCatchesUp` until the bit numbers wrap, and `LockHolds`, for any
  `SyncPeriod`. `LinkInv` says for each state how many clean bursts can have
  passed in it at most, together with what has to be in the buffer by then. A sequence
  of the carrier is in the buffer from the read that completes it (`Complete`), and what
  is in the buffer of the burst on the air has its type (`OnAir`). So a
  search that fails has fewer than two bursts of bits, or no SYNC burst has ended
  (`UnlockedSoon`); the frame start it finds is less than a burst away
  (`FrameStartSoon`); and a lock on the carrier's bursts sees every SYNC burst, so
  its clock is right or none has come (`ClockSoon`). The count has to include
  where in a burst the read ended, without which the bound is not inductive. These
  theorems need a read to be shorter than what a burst has up to the end of its training
  sequence (64 against 252 and 266), so that what a lock leaves in the buffer
  cannot hold one.
* `LowerMac_proofs`: `LowerMacTypes`, `DumpedWhenSaid`, `DumpsNamed`, `PdusOnTime`,
  for any access assignments, addresses, PDU lengths and number of bursts. What
  makes the properties hold is the order of the calls of one burst, so `MacInv`
  says which calls can be left and what may have happened before them
  (`BlockStage`): no block is dumped before the AACH is decoded, and none
  stolen. `AachNoted` says that behind the AACH the flags are what it said, and
  `OnTime` that the clock is that of the air after the first SYNC PDU and was
  copied to the cell when the PDUs of a block are parsed. `BlockEnds` is liveness.
* `FragSlots_proofs`: `FragSlotTypes`, `SdusAreWhatWasHeard`, `NothingSpliced`, for
  any slots, capacity, N203 and number of messages and pieces. `FragInv` is the
  state of a slot against what was sent in it: pieces are numbered in the order
  in which they are sent (`Numbered`), and an active slot holds exactly the pieces
  that were sent since its first one and not missed, a piece without room for it
  being missed (`Collected`). `NoSplice` follows since a start that is heard empties the slot,
  and an end that is heard closes it.
* `LlcDefrag_proofs`: `DefragTypes`, `NoLateGaps`, `UndisturbedIsExact` (an action
  property), for any links, N(S) and lengths. `DefragInv` says what an entry of
  the list can hold (`EntryOK`: behind its first two segments only successors,
  and nothing behind a final one) and what it has to do with what was heard
  since its N(S) was last finished (`HeardOK`: while that is the undisturbed
  beginning of an SDU, the entry is that beginning).
* `BlockCoding_proofs`: `CodingTypes`, `TrellisFollows`, `CrcLeavesConstant`,
  `BurstsComeBack`, for any cells and payloads. `CodingInv` says where in
  the phases of a burst the program is (`CallsOK`), that the state number of the
  Viterbi decoder is the encoder's delay line (`SameState`), and what the CRC
  register holds while the CRC itself goes through it (`CrcGoesOut`): what is
  left of the CRC, shifted, and what its complement fed back. The latter does
  not depend on the value of the CRC (`Residues`), and after sixteen bits it is
  all that is there, which is why one constant tells every good block.
  `BurstsComeBack` is `ReceiverUndoes`, in three invariants. `UndoInv` says what
  is on the air: how many bits of each block and what the scrambling register
  went through for them. Both are witnesses of the invariant, not variables, so
  that the registers of sender and receiver are compared with one history, one
  bit at a time, where comparing them with each other would take induction over the block
  (`OnTheAir`, `Stage`). Before that it says which type-4 bits are known
  (`Collected`). It rests on four lemmas: the interleaver is undone by another
  multiplier (`InterleaverInverts`), no two bits of a burst share a place
  (`PlacesDiffer`), what the receiver takes is what was sent there
  (`TakenWhereSent`), and the symbol of a bit is the one it came from
  (`SymbolIsOfBit`). `TestInv` counts the symbols of a puncturer that came back; none
  coincide because a puncturer sends them in rising order
  (`PuncturesIncrease`). `SpeechInv` says which codec bits have values: each holds the
  last type-2 bit that goes there, and the three that are lost are the ones that
  share a place (`CodecOnce`, `CodecTwice`).
* `CryptoState_proofs`: `KeyStaysCurrent`, `CryptoTypes`, `DecryptsOwnCell`,
  `DecryptsLocated`, for any cells and keystore files. The invariant `CryptoInv`
  adds to `KeyIsCurrent` that the network and colour code of the crypto state
  follow those of the cell data (`FollowsCellData`), that a location is that of
  the cell when the last broadcast PDU was a SYSINFO of it (`Located`), that nothing is selected
  while the keystore is read (`Waits`), that behind it each key has the network
  that `update_current_network` finds (`Linked`, from which the cipher in
  `DecryptsOwnCell`), and that the arrays are whole blocks (`Blocks`, without
  which that they grow in time is not inductive). That the first match in the
  keystore is one comes from well-founded induction on positions.
* `CryptoState_proofs`, about `FragKeys`: `ImplementsCryptoState`, that every step of reassembly with
  the crypto state is one of `CryptoState` or leaves it alone, so that its
  theorems carry over (`KeyStaysCurrentWithSlots`); and from `SlotInv`
  `SlotsCanDecrypt` and `SlotsKeepTheirKey`. `SlotInv` adds to
  `FragmentsCanBeDecrypted` that nothing is collected before the keystore is read
  (`SlotShape`) and that the cipher a message was understood with is made of the
  slot's key (`StartedWithKey`). It is inductive because a key that can decrypt
  can do so after any step (`KeyStaysGood`): the keystore is fixed by then, and no
  location or colour code is forgotten (`InfoStays`). That the location is right
  again for a message after a change of cell is `Located` of `CryptoInv`. Nothing
  is assumed of `N203`, `Capacity` and the number of messages or pieces.
* `KeySealing_proofs`: `TypeCorrect`, `UnsealUndoes`, `AcceptedResealsCorrect`,
  for every S-box, key schedule and size of a byte, from an exclusive or that
  cancels (`SealingAssumption`). `Tables` decides the index lists by cases, and
  `UnpadOfPad`, `PadNotFlagged` and `PadOfUnpad` follow: padding and unpadding are
  inverse on what is not flagged. `MixFacts` is that a round undoes itself. The
  invariant `Inv` relates the running operation to the one before through
  `trace`: the halves are always an entry of it (`OnTrace`), which is a row of
  rounds (`Runs`) whose ends are linked to key and text (`Related`); while an
  operation is the first, these links are built up one by one (`Recorded`).

Only TLC checks these:

* liveness (`LeftoversGo`, `BlockEnds`): TLAPS has no `ENABLED`.
* `SdusAsSent` and `CursorOnPdu` of `MacPdu`, and all of `LlcPdu`: recursive functions
  over data, for which the provers have no induction.
* the two disagreements above.

## 5. What is not modelled

TEA1 to TEA3 and the one-way functions of TAA1 (all but sealing and TB5) are
bit-twiddling without control or inverse. Viterbi decoding is libosmocore's.
GSMTAP and tunnel keep no state and only print or send; so do the upper layers
behind `rx_tl_sdu`, whose files hold names of PDU types. Carrier frequencies
are computed to be printed. `float_to_bits` and the demodulators, which are GNU
Radio graphs, are external. Of the bursts, training sequences are compared by
their type, and phase adjustment bits, which the receiver ignores, are left out.
`rx_suppl` passes 100 bits on whatever it gets and has no state. Fields of PDUs
that are only printed, and the names of values, are left out.

## 6. Plan

1. (done) the clock and the synchroniser, because every other layer depends on
   them; the base station around them; the lower MAC; reassembly; LLC; crypto
   state; channel coding and the layouts of bursts.
2. (done) MAC and LLC PDU lengths and cursors, where bits are counted; loading
   the keystore; sealing and unsealing of keys.
3. (done) the voice codes and all puncturers; the IV, TB5 and hyperframes; the
   upper layers' dispatch; `FragSlots` with `CryptoState`.
4. (done) proofs of every safety property that the runs check but those of the
   PDU lengths and cursors, for which the provers lack induction.
5. (left) composition of `LowerMac` with `FragSlots`, the timeslot of a fragment
   being that of the clock.
