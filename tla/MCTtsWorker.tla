---------------------------- MODULE MCTtsWorker ----------------------------
(* Instances of TtsWorker for TLC: a single job with one sentence.         *)
EXTENDS TtsWorker, TLC

CONSTANTS w1, w2, e1, r1

RidOne == (e1 :> r1)

OneSentence == (r1 :> 1)
=============================================================================
