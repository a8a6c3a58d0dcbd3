---------------------------- MODULE MCTrainWatch ----------------------------
(* TLC instances of TrainWatch: a permanent watch over two runs, and a       *)
(* transient watch of the train's current run or of its next.                *)
EXTENDS TrainWatch, TLC

Permanent  == [tier |-> "permanent", of |-> 1]
OfRun(r)   == [tier |-> "transient", of |-> r]

PermanentOrThisRun == {Permanent, OfRun(1)}
PermanentOnly      == {Permanent}
NextRunOnly        == {OfRun(2)}
=============================================================================
