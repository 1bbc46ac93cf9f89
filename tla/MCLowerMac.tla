----------------------------- MODULE MCLowerMac -----------------------------
(* A small instance of LowerMac: the time on the air just before frame 18,  *)
(* so that a run crosses it, and one with no time yet.                      *)
EXTENDS LowerMac

At(mn, fn, tn) == [hn |-> 0, mn |-> mn, fn |-> fn, tn |-> tn, sn |-> 0]
MCAccessAssigns ==
  {[hdr |-> 0, field1 |-> 5], [hdr |-> 1, field1 |-> 3], [hdr |-> 2, field1 |-> 5],
   [hdr |-> 3, field1 |-> 6]}
MCAirTimes == {At(60, 17, 3), At(3, 18, 4)}
=============================================================================
