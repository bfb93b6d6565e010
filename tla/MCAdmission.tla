---------------------------- MODULE MCAdmission ----------------------------
(* Instances of Admission for TLC: c1 and c2 send the same body, c3 another. *)
EXTENDS Admission, TLC

CONSTANTS c1, c2, c3

\* c3 calls the other endpoint, whose body hash never equals that of c1 and c2.
Mixed == [c \in Callers |-> IF c = c3 THEN "jobs" ELSE "sync"]

AllJobs == [c \in Callers |-> "jobs"]

Bodies == [c \in Callers |-> IF c = c3 THEN "b2" ELSE "b1"]
=============================================================================
