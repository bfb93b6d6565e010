--------------------------- MODULE MCResultReader ---------------------------
(* Instances of ResultReader for TLC: one job with two sentences.          *)
EXTENDS ResultReader, TLC

CONSTANTS w1, w2, e1, r1, g1, g2

RidOne == (e1 :> r1)
TwoSentences == (r1 :> 2)
AwaitsOne == (g1 :> r1)
AwaitsBoth == (g1 :> r1) @@ (g2 :> r1)
=============================================================================
