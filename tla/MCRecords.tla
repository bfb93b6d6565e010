----------------------------- MODULE MCRecords -----------------------------
(***************************************************************************)
(* What operators and owners do to the records while calls and jobs run:   *)
(* the lifecycle of a voice, who may use it, its watermark, and the keys   *)
(* of a tenant.  The four share no state, so a behaviour follows one of    *)
(* them (part) while the others stay in their initial states.              *)
(***************************************************************************)
EXTENDS Voices, Sharing, Watermarks, Access, TLC

VARIABLE part

recordVars == <<vars, sharingVars, markVars, accessVars, part>>

\* Calls in flight are interchangeable.
SessionSymmetry == Permutations(Sessions)

\* The second gateway's clock is a tick ahead of the first one's.
Clocks == [r \in Requests |-> IF r = "r1" THEN 0 ELSE 1]

RecordsInit ==
    /\ part \in {"voices", "sharing", "marks", "access"}
    /\ Init
    /\ SharingInit
    /\ MarkInit
    /\ AccessInit
    /\ part # "marks" => marked.required

VoicesOnly(A) == part = "voices" /\ A /\ UNCHANGED <<sharingVars, markVars, accessVars, part>>
SharingOnly(A) == part = "sharing" /\ A /\ UNCHANGED <<vars, markVars, accessVars, part>>
MarksOnly(A) == part = "marks" /\ A /\ UNCHANGED <<vars, sharingVars, accessVars, part>>

AccessOnly(A) == part = "access" /\ A /\ UNCHANGED <<vars, sharingVars, markVars, part>>

RecordsNext ==
    \/ VoicesOnly(Next)
    \/ SharingOnly(SharingNext)
    \/ MarksOnly(MarkNext)
    \/ AccessOnly(AccessNext)

RecordsSpec == RecordsInit /\ [][RecordsNext]_recordVars
=============================================================================
