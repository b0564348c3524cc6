----------------------------- MODULE MCKeyGrid -----------------------------
(* Instances of KeyGrid for TLC.                                           *)
EXTENDS KeyGrid

Both(c, r) == [d \in Dims |-> IF d = "column" THEN c ELSE r]

TwoByThree == Both(2, 3)
SomeKeys == <<1, 2, 2, 1, 2, 2>>
Small == {Both(50, 60)}

\* A stored grid, one edited by hand with values out of range, and none.
SomeConfigs ==
  {[tot |-> Both(2, 2), weights |-> Both(<<10, 1000>>, <<1, 10>>),
    cells |-> <<1, 2, 0, 1>>, inCell |-> TRUE, exitCell |-> Both(1, 1),
    percent |-> Both(100, 50)],
   [tot |-> Both(9, 0), weights |-> Both(<<-5, 7>>, <<2000>>),
    cells |-> <<2, -3, 999, -1>>, inCell |-> TRUE, exitCell |-> Both(7, -1),
    percent |-> Both(-1, 101)],
   [tot |-> Both(1, 2), weights |-> Both(<<>>, <<>>), cells |-> <<>>,
    inCell |-> FALSE, exitCell |-> Both(0, 0), percent |-> Both(50, 50)]}
=============================================================================
