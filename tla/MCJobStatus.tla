---------------------------- MODULE MCJobStatus ----------------------------
(* An instance of JobStatus for TLC: a good and an undecodable entry, and a   *)
(* client that polls the good one.                                            *)
EXTENDS JobStatus, TLC

CONSTANTS w1, w2, e1, e2, r1, r2, p1

\* One entry per request.
RidOwn == (e1 :> r1) @@ (e2 :> r2)

\* The second request's text has nothing to say.
OneAndNone == (r1 :> 1) @@ (r2 :> 0)

AsksFirst == (p1 :> r1)

\* Workers are interchangeable.
WorkerSymmetry == Permutations({w1, w2})
=============================================================================
