---------------------------- MODULE MCKeySealing ----------------------------
(* Bytes of four bits, which HURDLE_f spreads over its four output bytes;   *)
(* the real length of keys and blocks and the real number of rounds.        *)
EXTENDS KeySealing

Bit4(x, b) == (x \div 2 ^ b) % 2
MCXor(x, y) ==
  LET bit(b) == (Bit4(x, b) + Bit4(y, b)) % 2
  IN  bit(0) + 2 * bit(1) + 4 * bit(2) + 8 * bit(3)

MCSbox == [x \in 0..15 |-> <<12, 5, 6, 11, 9, 0, 10, 13, 3, 14, 15, 8, 4, 7, 1, 2>>[x + 1]]
MCXorConsts == [n \in 0..15 |-> [i \in 0..15 |-> (7 * n * (i + 3) + n) % 16]]

MCKeys == {[i \in 0..15 |-> (5 * i + 3) % 16], [i \in 0..15 |-> (i * i + 9) % 16]}
MCVersions == {[i \in 0..1 |-> 0], [i \in 0..1 |-> 6 + 7 * i]}

(* Every byte alone, with a number that is allowed, and some more.          *)
MCData(k) ==
  {[n \in 1..SizeOf(k) |-> IF n = m THEN 1 ELSE 0] : m \in 1..SizeOf(k)}
    \cup {[n \in 1..SizeOf(k) |-> IF n = 11 THEN 2 ELSE 15], [n \in 1..SizeOf(k) |-> n]}
(* Sealed keys, one of each kind under each key and version: texts that are *)
(* accepted as they arrive; the others nearly all fail one of the checks.   *)
MCSealed ==
  {<<7, 1, 7, 5, 4, 4, 14, 13, 13, 14, 3, 8, 9, 0, 2>>,
   <<10, 4, 7, 13, 4, 0, 2, 6, 7, 12, 1, 14, 8, 8, 1>>,
   <<9, 10, 2, 0, 3, 12, 14, 3, 11, 7, 13, 13, 9, 10, 14>>,
   <<0, 4, 6, 0, 13, 7, 4, 14, 4, 4, 10, 7, 3, 4, 6>>,
   <<12, 8, 12, 6, 1, 4, 4, 9, 2, 11, 15, 1, 0, 7, 7>>,
   <<12, 10, 14, 12, 13, 9, 6, 5, 4, 2, 7, 7, 6, 5, 5>>,
   <<7, 3, 8, 14, 2, 0, 3, 5, 14, 9, 13, 8, 15, 6, 8>>,
   <<8, 9, 14, 12, 14, 13, 5, 3, 13, 5, 3, 5, 2, 0, 8>>,
   <<4, 1, 0, 2, 1, 11, 10, 15, 8, 15, 1, 11, 9, 7, 2>>,
   <<5, 12, 8, 6, 8, 8, 4, 9, 10, 2, 2, 1, 12, 5, 0>>,
   <<11, 7, 12, 10, 12, 1, 6, 13, 5, 12, 7, 15, 10, 0, 15>>,
   <<5, 3, 7, 6, 13, 8, 2, 1, 13, 11, 15, 12, 0, 0, 5>>}

MCTexts ==
  {[i \in 0..14 |-> t[i + 1]] : t \in MCSealed}
    \cup {[i \in 0..14 |-> (a * (i + 1) + b * (i \div 7)) % 16] : a \in 0..15, b \in 0..14}
=============================================================================
