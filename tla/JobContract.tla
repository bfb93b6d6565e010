----------------------------- MODULE JobContract -----------------------------
(***************************************************************************)
(* What the worker promises about a job, without saying how: the outcome   *)
(* of a request is decided once, a final marker is published only for a    *)
(* request decided "ok", and an entry leaves the queue only when its       *)
(* request is decided (or, for an unreadable entry, archived as dead).     *)
(***************************************************************************)
CONSTANTS Requests, Entries, Rid, Malformed

VARIABLES outcome, announced, dead, settled

contractVars == <<outcome, announced, dead, settled>>

Init ==
    /\ outcome = [r \in Requests |-> "none"]
    /\ announced = {}
    /\ dead = {}
    /\ settled = {}

\* The request is billed, as delivered or as an error.
Decide(r, o) ==
    /\ outcome[r] = "none"
    /\ outcome' = [outcome EXCEPT ![r] = o]
    /\ UNCHANGED <<announced, dead, settled>>

Announce(r) ==
    /\ outcome[r] = "ok"
    /\ announced' = announced \cup {r}
    /\ UNCHANGED <<outcome, dead, settled>>

Bury(e) ==
    /\ dead' = dead \cup {e}
    /\ UNCHANGED <<outcome, announced, settled>>

Settle(e) ==
    /\ IF e \in Malformed THEN e \in dead ELSE outcome[Rid[e]] # "none"
    /\ settled' = settled \cup {e}
    /\ UNCHANGED <<outcome, announced, dead>>

Next ==
    \/ \E r \in Requests : Announce(r) \/ \E o \in {"ok", "error"} : Decide(r, o)
    \/ \E e \in Entries : Bury(e) \/ Settle(e)

Spec == Init /\ [][Next]_contractVars
=============================================================================
