----------------------------- MODULE MCFragKeys -----------------------------
(* Three cells, two of them of one network, and keystore files in which the *)
(* order matters, a key has the wrong type, a network has no key or a       *)
(* cipher that is not supported, a key has no network, or a line does not   *)
(* parse; one is longer than a block of the keystore.                       *)
EXTENDS FragKeys

Cell(net, cc, la, cn) == [net |-> net, cc |-> cc, la |-> la, cn |-> cn]
NetworkIs(net, ksg) == [kind |-> "network", net |-> net, ksg |-> ksg]
KeyIs(net, num, type) == [kind |-> "key", net |-> net, num |-> num, type |-> type]
Other == [kind |-> "other"]

MCCells == {Cell(1, 1, 10, 100), Cell(1, 2, 11, 101), Cell(2, 1, 12, 100)}

MCAccessDefines == {[la |-> 99, cn |-> 999, cck |-> TRUE, number |-> 6]}

MCKeyFiles ==
  { <<>>,
    <<KeyIs(1, 5, "GCK"), KeyIs(1, 5, "CCK_SCK"), NetworkIs(1, 3), NetworkIs(2, 1), NetworkIs(1, 2),
      KeyIs(2, 5, "CCK_SCK"), KeyIs(2, 6, "CCK_SCK")>>,
    <<NetworkIs(2, 1), KeyIs(2, 5, "CCK_SCK"), KeyIs(2, 5, "CCK_SCK"), NetworkIs(3, 1)>>,
    <<NetworkIs(1, 4), KeyIs(1, 5, "CCK_SCK"), NetworkIs(2, 2)>>,
    <<NetworkIs(1, 1), KeyIs(1, 5, "CCK_SCK"), Other, NetworkIs(2, 2)>>,
    <<NetworkIs(1, 1), KeyIs(2, 5, "CCK_SCK")>>,
    <<NetworkIs(1, 1)>> \o [i \in 1..17 |-> KeyIs(1, (i + 4) % 12, "CCK_SCK")]
      \o [i \in 1..16 |-> NetworkIs(i + 1, 2)] }
=============================================================================
