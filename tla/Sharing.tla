------------------------------ MODULE Sharing ------------------------------
(***************************************************************************)
(* Which voice a slug stands for: voices of several owners under one slug, *)
(* their visibility and the grants to other tenants (src/repos/voice.py,   *)
(* src/repos/voice_access.py, PATCH and DELETE of src/server/main.py), and *)
(* the look-up a gateway makes when a job is admitted and a worker makes   *)
(* again when the job is picked up (get_accessible).                       *)
(*                                                                         *)
(* A row is unique for an owner and a slug and stays when it is deleted.   *)
(* Each of the three queries of get_accessible is a step.                  *)
(***************************************************************************)
EXTENDS Integers, Sequences, FiniteSetsExt

CONSTANTS
    Owners,    \* tenants that may enrol a voice under the slug
    Viewers    \* tenants that ask for it

VARIABLES
    shelf,     \* each owner's row
    born,      \* the owners in the order of created_at
    grants,    \* voice_access: the pairs of a viewer and an owner
    waiting,   \* the viewers whose job was admitted
    lookup     \* the worker's job: its look-up and the owner of the row it got

sharingVars == <<shelf, born, grants, waiting, lookup>>

Nobody == "nobody"   \* None

ASSUME NobodyAssumption == Nobody \notin Owners \cup Viewers

Visibility == {"private", "shared", "public"}
Shelf == [state : {"none", "live", "deleted"}, visibility : Visibility]

\* Since the job was picked up, at some moment (history): the owners whose voice
\* was open to the viewer, those whose voice was not private, and whether the
\* viewer had no voice of its own.
Since == [open : SUBSET Owners, exposed : SUBSET Owners, without : BOOLEAN]
VoiceLookup == [at : {"idle", "owned", "shared", "public", "speaks"},
                viewer : Viewers \cup {Nobody}, owner : Owners \cup {Nobody}, since : Since]

SharingTypeOK ==
    /\ shelf \in [Owners -> Shelf]
    /\ born \in Seq(Owners)
    /\ grants \subseteq Viewers \X Owners
    /\ waiting \subseteq Viewers
    /\ lookup \in VoiceLookup

NoSince == [open |-> {}, exposed |-> {}, without |-> FALSE]
NoLookup == [at |-> "idle", viewer |-> Nobody, owner |-> Nobody, since |-> NoSince]

SharingInit ==
    /\ shelf = [o \in Owners |-> [state |-> "none", visibility |-> "private"]]
    /\ born = <<>>
    /\ grants = {}
    /\ waiting = {}
    /\ lookup = NoLookup

-----------------------------------------------------------------------------
(* The queries.                                                            *)

Live(o) == shelf[o].state = "live"

\* get_owned.
OwnsLive(v) == v \in Owners /\ Live(v)

\* ORDER BY created_at LIMIT 1.
Oldest(os) == IF os = {} THEN Nobody
              ELSE born[Min({i \in DOMAIN born : born[i] \in os})]

\* Mutant of Shared: deleted_at is not looked at.
SharedEver(v) == Oldest({o \in Owners : <<v, o>> \in grants})

Shared(v) == Oldest({o \in Owners : <<v, o>> \in grants /\ Live(o)})

Public == Oldest({o \in Owners : shelf[o].visibility = "public" /\ Live(o)})

\* get_accessible, as one step.
get_accessible(v) ==
    IF OwnsLive(v) THEN v ELSE IF Shared(v) # Nobody THEN Shared(v) ELSE Public

\* The rows GET /v1/voices shows the tenant.
list_accessible(v) ==
    {o \in Owners : Live(o) /\ (o = v \/ <<v, o>> \in grants \/ shelf[o].visibility = "public")}

\* History: what is true for the viewer's job before a step is added to what was.
Now(v, since) ==
    [open |-> since.open \cup
         {o \in Owners : Live(o) /\ (o = v \/ <<v, o>> \in grants \/ shelf[o].visibility = "public")},
     exposed |-> since.exposed \cup {o \in Owners : shelf[o].visibility # "private"},
     without |-> since.without \/ ~OwnsLive(v)]

Watched == IF lookup.at \in {"idle", "speaks"} THEN lookup
           ELSE [lookup EXCEPT !.since = Now(lookup.viewer, @)]

-----------------------------------------------------------------------------
(* Owners.                                                                 *)

\* _enroll_voice_impl; a slug whose row is deleted cannot be enrolled again.
Enroll(o) ==
    /\ shelf[o].state = "none"
    /\ \E vis \in Visibility :
          shelf' = [shelf EXCEPT ![o] = [state |-> "live", visibility |-> vis]]
    /\ born' = Append(born, o)
    /\ lookup' = Watched
    /\ UNCHANGED <<grants, waiting>>

\* The column that matters here; None leaves it alone.
update_metadata(o, vis) == shelf' = [shelf EXCEPT ![o].visibility = vis]

\* PATCH /v1/voices/{voice_id}, by the owner of a live voice.
update_voice(o) ==
    /\ Live(o)
    /\ \E vis \in Visibility : update_metadata(o, vis)
    /\ lookup' = Watched
    /\ UNCHANGED <<born, grants, waiting>>

soft_delete(o) ==
    /\ Live(o)
    /\ shelf' = [shelf EXCEPT ![o].state = "deleted"]
    /\ lookup' = Watched
    /\ UNCHANGED <<born, grants, waiting>>

\* grant, of an owner's live voice.  The row that is read beforehand makes no
\* difference: an INSERT fails where there is a grant, and an UPDATE, of the
\* permission that nobody asks for, where there is none any more.
Grant ==
    /\ \E o \in Owners, v \in Viewers :
          /\ v # o /\ Live(o)
          /\ grants' = grants \cup {<<v, o>>}
    /\ lookup' = Watched
    /\ UNCHANGED <<shelf, born, waiting>>

\* revoke, also for a deleted voice.
Revoke ==
    /\ \E g \in grants : grants' = grants \ {g}
    /\ lookup' = Watched
    /\ UNCHANGED <<shelf, born, waiting>>

-----------------------------------------------------------------------------
(* A job.                                                                  *)

\* _assert_voice_accessible_or_404, and the submission.
Ask(v) ==
    /\ get_accessible(v) # Nobody
    /\ waiting' = waiting \cup {v}
    /\ UNCHANGED <<shelf, born, grants, lookup>>

\* The worker has the slug and the tenant, and looks again.
Pick(v) ==
    /\ lookup.at = "idle"
    /\ v \in waiting
    /\ waiting' = waiting \ {v}
    /\ lookup' = [NoLookup EXCEPT !.at = "owned", !.viewer = v]
    /\ UNCHANGED <<shelf, born, grants>>

\* The row a query returned is used; none, and the next query is made.  After
\* the last one the job ends in voice_not_found.
Resolved(o, next) ==
    \/ /\ o # Nobody
       /\ lookup' = [Watched EXCEPT !.at = "speaks", !.owner = o]
    \/ /\ o = Nobody
       /\ lookup' = IF next = "idle" THEN NoLookup ELSE [Watched EXCEPT !.at = next]

\* Mutant of Query: grants before ownership.
QuerySharedFirst ==
    LET v == lookup.viewer IN
    /\ \/ lookup.at = "owned" /\ Resolved(Shared(v), "shared")
       \/ lookup.at = "shared" /\ Resolved(IF OwnsLive(v) THEN v ELSE Nobody, "public")
       \/ lookup.at = "public" /\ Resolved(Public, "idle")
    /\ UNCHANGED <<shelf, born, grants, waiting>>

Query ==
    LET v == lookup.viewer IN
    /\ \/ lookup.at = "owned" /\ Resolved(IF OwnsLive(v) THEN v ELSE Nobody, "shared")
       \/ lookup.at = "shared" /\ Resolved(Shared(v), "public")
       \/ lookup.at = "public" /\ Resolved(Public, "idle")
    /\ UNCHANGED <<shelf, born, grants, waiting>>

\* The job is over.
Spoken ==
    /\ lookup.at = "speaks"
    /\ lookup' = NoLookup
    /\ UNCHANGED <<shelf, born, grants, waiting>>

-----------------------------------------------------------------------------

SharingNext ==
    \/ \E o \in Owners : Enroll(o) \/ update_voice(o) \/ soft_delete(o)
    \/ Grant \/ Revoke
    \/ \E v \in Viewers : Ask(v) \/ Pick(v)
    \/ Query \/ Spoken

SharingSpec == SharingInit /\ [][SharingNext]_sharingVars

-----------------------------------------------------------------------------
(* Properties.                                                             *)

\* Whatever was true when the job was admitted: the voice a worker speaks with
\* was open to the job's tenant (its own, granted or public, and not deleted) at
\* some moment after the job was picked up.  A grant that was revoked or a voice
\* that was deleted while the job waited is not used.
SpokenWasOpen == lookup.owner # Nobody => lookup.owner \in lookup.since.open

\* A tenant gets another owner's voice only if it had none of its own under the
\* slug when the worker looked: a grant or a public voice of the same name never
\* takes the place of a tenant's own.
OwnVoiceFirst == lookup.owner \notin {Nobody, lookup.viewer} => lookup.since.without

\* The catalogue and the gate agree: a tenant is shown a voice exactly if it may
\* speak with one under the slug, and the one it would get is among those shown
\* (list_accessible, one query, against the three of get_accessible).
ListMatchesGate ==
    \A v \in Viewers :
        /\ list_accessible(v) = {} <=> get_accessible(v) = Nobody
        /\ list_accessible(v) # {} => get_accessible(v) \in list_accessible(v)

\* Visibility as set_visibility states it: "'private' -> only owner", and grants
\* "become latent".  A voice that was private all along since the job was picked
\* up is used by its owner only.
PrivateIsOwnerOnly ==
    lookup.owner \notin {Nobody, lookup.viewer} => lookup.owner \in lookup.since.exposed

\* Whose voice a slug stands for, in every state: one's own first, and the same in
\* the catalogue as at the gate (get_accessible, list_accessible).
SharingSound == SharingTypeOK /\ OwnVoiceFirst /\ ListMatchesGate
=============================================================================
