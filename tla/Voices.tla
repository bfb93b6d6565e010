------------------------------- MODULE Voices -------------------------------
(***************************************************************************)
(* The life of one voice (one slug of one tenant): enrolment, soft delete, *)
(* freeze and unfreeze, erasure requests and the purge, the revocation of  *)
(* its consent and of its talent contract, the synthesis gate of the       *)
(* gateway and the look-up a worker makes for a queued job.  From          *)
(* src/repos/voice.py, src/server/main.py, src/server/admin/router.py,     *)
(* src/repos/data_deletion.py, voice_consent.py, talent_contract.py and    *)
(* the first part of process_one_job (src/worker/pipeline.py).             *)
(*                                                                         *)
(* Every call is one database transaction that reads the row, computes in  *)
(* Python and writes back the columns it changed: other calls commit in    *)
(* between (READ COMMITTED, no SELECT ... FOR UPDATE), so a call decides   *)
(* on the snapshot it read and its UPDATE lands on whatever is there.  The *)
(* reference recording is a file named after the slug, outside every       *)
(* transaction.                                                            *)
(***************************************************************************)
EXTENDS Integers

CONSTANTS
    Sessions,        \* calls in flight at once
    Null,            \* SQL NULL
    NoVoice,         \* no row for the slug
    Absent, Wiped,   \* no recording on disk: never written or unlinked, or purged
    FreezeDays,      \* the purge_after_days an operator may pass to freeze
    RetentionDays,   \* DEFAULT_PURGE_DELAY_DAYS
    MaxDay,          \* bound: the days that pass
    MaxCalls,        \* bound: calls made
    MaxFailures      \* bound: file deletions that fail, handlers that die

ASSUME VoicesAssumption ==
    /\ FreezeDays \subseteq Nat
    /\ RetentionDays \in Nat
    /\ MaxDay \in Nat
    /\ MaxCalls \in Nat
    /\ MaxFailures \in Nat
    /\ Null \notin Int

VARIABLES
    day,        \* today
    voice,      \* the committed row, or NoVoice
    consent,    \* its consent record
    contract,   \* the talent contract voices may be licensed under
    file,       \* the recording on disk: an upload, Absent or Wiped
    ticket,     \* the status of the erasure request
    queued,     \* admitted jobs no worker has picked up
    spoken,     \* recordings workers have spoken with
    step,       \* what each call does next
    snap,       \* the row each call read
    upload,     \* the recording each enrolment carries
    late,       \* history: was the voice withdrawn when the call arrived?
    calls,
    failures

vars == <<day, voice, consent, contract, file, ticket, queued, spoken,
          step, snap, upload, late, calls, failures>>

jobVars == <<queued, spoken>>
bounds == <<day, calls, failures>>

Days == 0..(MaxDay + RetentionDays)
Uploads == 1..MaxCalls

Rows == [recording : Uploads,             \* what the enrolment wrote
         reference : BOOLEAN,             \* is reference_uri set?
         underContract : BOOLEAN,         \* license_kind = 'talent-contract'
         frozen_at : Days \cup {Null},
         purge_after_at : Int \cup {Null},
         purged_at : Days \cup {Null},
         deleted : BOOLEAN]

\* Names that are no row and no recording.
ASSUME NamesAssumption == NoVoice \notin Rows /\ {Absent, Wiped} \cap Nat = {}

Steps == {"idle", "check", "insert", "insertUnder", "delete", "freeze", "unfreeze", "request",
          "complete", "reject", "consent", "contract", "artifacts", "scrub",
          "gate", "resolve"}

\* A consent or a contract is active as long as revoked_at is NULL.
ConsentStates == {"none", "active", "revoked"}
ContractStates == {"active", "revoked"}

\* "none": no request.  A "pending" ticket is never committed.
TicketStates == {"none", "in-progress", "completed", "rejected"}

TypeOK ==
    /\ day \in 0..MaxDay
    /\ voice \in Rows \cup {NoVoice}
    /\ consent \in ConsentStates
    /\ contract \in ContractStates
    /\ file \in Uploads \cup {Absent, Wiped}
    /\ ticket \in TicketStates
    /\ queued \in 0..MaxCalls
    /\ spoken \subseteq Uploads
    /\ step \in [Sessions -> Steps]
    /\ snap \in [Sessions -> Rows \cup {NoVoice}]
    /\ upload \in [Sessions -> 0..MaxCalls]
    /\ late \in [Sessions -> BOOLEAN]
    /\ calls \in 0..MaxCalls
    /\ failures \in 0..MaxFailures
    /\ voice = NoVoice <=> consent = "none"

Init ==
    /\ day = 0
    /\ voice = NoVoice
    /\ consent = "none"
    /\ contract = "active"
    /\ file = Absent
    /\ ticket = "none"
    /\ queued = 0
    /\ spoken = {}
    /\ step = [s \in Sessions |-> "idle"]
    /\ snap = [s \in Sessions |-> NoVoice]
    /\ upload = [s \in Sessions |-> 0]
    /\ late = [s \in Sessions |-> FALSE]
    /\ calls = 0
    /\ failures = 0

-----------------------------------------------------------------------------
(* The row.                                                                *)

lifecycle_state(v) ==
    IF v.purged_at # Null THEN "purged"
    ELSE IF v.deleted THEN "deleted"
    ELSE IF v.purge_after_at # Null THEN "purge-pending"
    ELSE IF v.frozen_at # Null THEN "frozen"
    ELSE "active"

\* get_owned and get_accessible find every row that is not soft-deleted.
Visible(v) == v # NoVoice /\ ~v.deleted

\* The CHECK constraints voices_purge_after_frozen and
\* voices_purged_after_purge_after.
Consistent(v) ==
    /\ v.purge_after_at # Null /\ v.frozen_at # Null
          => v.purge_after_at >= v.frozen_at
    /\ v.purged_at # Null /\ v.purge_after_at # Null
          => v.purged_at >= v.purge_after_at

\* The queries latest_active and get_active find a record.
latest_active == consent = "active"
get_active == contract = "active"

\* The columns VoiceRepo.freeze changes, decided on the row r that was read.
Frozen(r, days) ==
    [voice EXCEPT
        !.frozen_at = IF r.frozen_at = Null THEN day ELSE @,
        !.purge_after_at =
            IF days # Null /\ (r.purge_after_at = Null \/ day + days > r.purge_after_at)
            THEN day + days ELSE @]

\* Mutant of Scheduled: a voice that is already frozen keeps its row.
ScheduledIfNotFrozen(r) ==
    IF r.frozen_at # Null THEN voice
    ELSE [voice EXCEPT !.frozen_at = day, !.purge_after_at = day + RetentionDays]

\* The columns VoiceRepo.schedule_purge changes.
Scheduled(r) ==
    [voice EXCEPT !.frozen_at = IF r.frozen_at = Null THEN day ELSE @,
                  !.purge_after_at = day + RetentionDays]

\* Mutant of Scrubbed: the reference survives the scrub.
ScrubbedButReference == [voice EXCEPT !.purged_at = day]

\* The columns VoiceRepo.execute_purge changes.
Scrubbed == [voice EXCEPT !.reference = FALSE, !.purged_at = day]

-----------------------------------------------------------------------------
(* Calls.                                                                  *)

\* Has the owner or the talent withdrawn the voice for good?
Withdrawn == consent = "revoked" \/ ticket = "in-progress"

\* Session s takes a call.
Arrive(s) ==
    /\ step[s] = "idle"
    /\ calls < MaxCalls
    /\ calls' = calls + 1

\* A call arrives and makes its first read.
Begin(s, l) ==
    /\ Arrive(s)
    /\ step' = [step EXCEPT ![s] = l]
    /\ snap' = [snap EXCEPT ![s] = voice]
    /\ late' = [late EXCEPT ![s] = Withdrawn]
    /\ UNCHANGED <<day, failures>>

\* The call of s goes on with step l.
Goto(s, l) ==
    /\ step' = [step EXCEPT ![s] = l]
    /\ UNCHANGED <<snap, upload, late>>

\* The call of s is over.
End(s) ==
    /\ step' = [step EXCEPT ![s] = "idle"]
    /\ snap' = [snap EXCEPT ![s] = NoVoice]
    /\ upload' = [upload EXCEPT ![s] = 0]
    /\ late' = [late EXCEPT ![s] = FALSE]

\* The transaction of s commits the row v, and with it "what": a violated
\* CHECK raises and rolls the whole transaction back.
Commit(s, v, what) ==
    /\ IF Consistent(v) THEN voice' = v /\ what ELSE UNCHANGED <<voice, consent, contract, ticket>>
    /\ End(s)
    /\ UNCHANGED bounds

-----------------------------------------------------------------------------
(* Enrolment: POST /v1/voices and its alias.                               *)

\* The recording is written to the slug's path before anything is checked.
EnrollWrite(s) ==
    /\ Begin(s, "check")
    /\ upload' = [upload EXCEPT ![s] = calls']
    /\ file' = calls'
    /\ UNCHANGED <<voice, consent, contract, ticket, jobVars>>

\* One that turns out too short is unlinked.
EnrollTooShort(s) ==
    /\ Arrive(s)
    /\ file' = Absent
    /\ UNCHANGED <<day, voice, consent, contract, ticket, jobVars, step, snap,
                   upload, late, failures>>

\* The ownership check, and the licence and consent fields: every refusal
\* unlinks the slug's path.
EnrollRefuse(s) ==
    /\ step[s] = "check"
    /\ file' = Absent
    /\ End(s)
    /\ UNCHANGED <<voice, consent, contract, ticket, jobVars, bounds>>

\* What the voice is licensed under: POST /v1/voices/add has only 'user-owned',
\* and 'talent-contract' of POST /v1/voices needs a contract that is active now.
UserOwned(s) == Goto(s, "insert")
UnderContract(s) == get_active /\ Goto(s, "insertUnder")

EnrollAccept(s) ==
    /\ step[s] = "check"
    /\ ~Visible(voice)
    /\ UserOwned(s) \/ UnderContract(s)
    /\ UNCHANGED <<voice, consent, contract, file, ticket, jobVars, bounds>>

\* VoiceConsentRecordRepo.record.
RecordConsent == consent' = "active"

\* The row and its first consent record, in one transaction.  The UNIQUE
\* constraint on (owner, slug) counts soft-deleted rows and raises: the
\* recording then stays behind.
EnrollInsert(s) ==
    /\ step[s] \in {"insert", "insertUnder"}
    /\ IF voice = NoVoice
       THEN /\ voice' = [recording |-> upload[s], reference |-> TRUE,
                         underContract |-> step[s] = "insertUnder",
                         frozen_at |-> Null, purge_after_at |-> Null,
                         purged_at |-> Null, deleted |-> FALSE]
            /\ RecordConsent
       ELSE UNCHANGED <<voice, consent>>
    /\ End(s)
    /\ UNCHANGED <<contract, file, ticket, jobVars, bounds>>

-----------------------------------------------------------------------------
(* Soft delete, freeze, unfreeze.                                          *)

\* A call that starts by reading the row and has changed nothing yet.
Read(s, l) ==
    /\ Begin(s, l)
    /\ UNCHANGED <<voice, consent, contract, file, ticket, jobVars, upload>>

DeleteRead(s) == Visible(voice) /\ Read(s, "delete")

Delete(s) ==
    /\ step[s] = "delete"
    /\ Commit(s, [voice EXCEPT !.deleted = TRUE],
              UNCHANGED <<consent, contract, ticket>>)
    /\ UNCHANGED <<file, jobVars>>

\* freeze and unfreeze leave a purged voice alone.
FreezeRead(s) == voice # NoVoice /\ voice.purged_at = Null /\ Read(s, "freeze")

Freeze(s) ==
    /\ step[s] = "freeze"
    /\ \E d \in FreezeDays \cup {Null} :
          Commit(s, Frozen(snap[s], d), UNCHANGED <<consent, contract, ticket>>)
    /\ UNCHANGED <<file, jobVars>>

UnfreezeRead(s) == voice # NoVoice /\ voice.purged_at = Null /\ Read(s, "unfreeze")

\* Mutant of Unfreeze: the purge schedule is cleared as well.
UnfreezeClearsSchedule(s) ==
    /\ step[s] = "unfreeze"
    /\ Commit(s, [voice EXCEPT !.frozen_at = Null, !.purge_after_at = Null],
              UNCHANGED <<consent, contract, ticket>>)
    /\ UNCHANGED <<file, jobVars>>

\* purge_after_at keeps its value.
Unfreeze(s) ==
    /\ step[s] = "unfreeze"
    /\ Commit(s, [voice EXCEPT !.frozen_at = Null],
              UNCHANGED <<consent, contract, ticket>>)
    /\ UNCHANGED <<file, jobVars>>

-----------------------------------------------------------------------------
(* Erasure: the tenant's request, the operator's purge and the ticket.     *)

\* A request that names the voice is refused unless the voice is visible; one
\* that names none covers whatever is visible, possibly nothing.
RequestRead(s) ==
    /\ ticket = "none"
    /\ \A t \in Sessions : step[t] # "request"     \* bound: one request
    /\ Read(s, "request")

\* create, and mark_in_progress in the same transaction.
OpenTicket == ticket' = "in-progress"

\* Nothing left to erase closes the ticket at once.
Request(s) ==
    /\ step[s] = "request"
    /\ IF Visible(snap[s]) /\ snap[s].purged_at = Null
       THEN Commit(s, Scheduled(snap[s]),
                   OpenTicket /\ UNCHANGED <<consent, contract>>)
       ELSE /\ ticket' = "completed"
            /\ End(s)
            /\ UNCHANGED <<voice, consent, contract, bounds>>
    /\ UNCHANGED <<file, jobVars>>

\* The inbox of list_pending; mark_completed and mark_rejected act on the status
\* they read.
TicketRead(s) == ticket = "in-progress" /\ (Read(s, "complete") \/ Read(s, "reject"))

\* An operator closes the ticket.
CloseTicket(s, status) ==
    /\ ticket' = status
    /\ End(s)
    /\ UNCHANGED <<voice, consent, contract, file, jobVars, bounds>>

CompleteTicket(s) == step[s] = "complete" /\ CloseTicket(s, "completed")

\* A rejected ticket may not carry completed_at: rejecting one that was
\* completed meanwhile violates a CHECK.
RejectTicket(s) ==
    /\ step[s] = "reject"
    /\ CloseTicket(s, IF ticket = "completed" THEN ticket ELSE "rejected")

\* A tombstone is answered "already purged".
PurgeRead(s) == voice # NoVoice /\ voice.purged_at = Null /\ Read(s, "artifacts")

\* The files go first; a deletion that fails is noted and passed over.
PurgeArtifacts(s) ==
    /\ step[s] = "artifacts"
    /\ \/ /\ file' = Wiped
          /\ UNCHANGED failures
       \/ /\ failures < MaxFailures
          /\ failures' = failures + 1
          /\ UNCHANGED file
    /\ Goto(s, "scrub")
    /\ UNCHANGED <<voice, consent, contract, ticket, jobVars, day, calls>>

PurgeScrub(s) ==
    /\ step[s] = "scrub"
    /\ Commit(s, Scrubbed, UNCHANGED <<consent, contract, ticket>>)
    /\ UNCHANGED <<file, jobVars>>

-----------------------------------------------------------------------------
(* The cascades: a revoked consent freezes its voice, a revoked contract   *)
(* the voices licensed under it.                                           *)

\* A consent that is already revoked is answered 404.
ConsentRead(s) == latest_active /\ Read(s, "consent")

RevokeConsent(s) ==
    /\ step[s] = "consent"
    /\ Commit(s, IF snap[s].purged_at # Null THEN voice ELSE Frozen(snap[s], Null),
              consent' = "revoked" /\ UNCHANGED <<contract, ticket>>)
    /\ UNCHANGED <<file, jobVars>>

ContractRead(s) == contract = "active" /\ Read(s, "contract")

\* The voices that were committed when the query ran.
Dependent(r) == r # NoVoice /\ r.underContract /\ r.purged_at = Null

RevokeContract(s) ==
    /\ step[s] = "contract"
    /\ IF Dependent(snap[s])
       THEN Commit(s, Frozen(snap[s], Null),
                   contract' = "revoked" /\ UNCHANGED <<consent, ticket>>)
       ELSE /\ contract' = "revoked"
            /\ End(s)
            /\ UNCHANGED <<voice, consent, ticket, bounds>>
    /\ UNCHANGED <<file, jobVars>>

-----------------------------------------------------------------------------
(* Synthesis.                                                              *)

\* _assert_voice_accessible_or_404 and the lifecycle half of
\* _ensure_voice_synthesizable.
GateRead(s) ==
    /\ Visible(voice)
    /\ lifecycle_state(voice) = "active"
    /\ Read(s, "gate")

\* Mutant of Gate: the consent is not looked at.
GateWithoutConsent(s) ==
    /\ step[s] = "gate"
    /\ queued' = queued + 1
    /\ End(s)
    /\ UNCHANGED <<voice, consent, contract, file, ticket, spoken, bounds>>

\* Its consent half, a second query: the job is queued or answered 410.
Gate(s) ==
    /\ step[s] = "gate"
    /\ queued' = IF latest_active THEN queued + 1 ELSE queued
    /\ End(s)
    /\ UNCHANGED <<voice, consent, contract, file, ticket, spoken, bounds>>

\* A worker picks a job up and reads the row: it looks at deleted_at alone,
\* not at the lifecycle nor at the consent.
PickUp(s) ==
    /\ queued > 0
    /\ queued' = queued - 1
    /\ \/ Visible(voice) /\ Begin(s, "resolve")
       \/ ~Visible(voice) /\ Arrive(s) /\ UNCHANGED <<day, step, snap, late, failures>>
    /\ UNCHANGED <<voice, consent, contract, file, ticket, spoken, upload>>

\* resolve_reference: an empty URI or a missing file fails the job.
Resolve(s) ==
    /\ step[s] = "resolve"
    /\ spoken' = IF snap[s].reference /\ file \in Uploads
                 THEN spoken \cup {file} ELSE spoken
    /\ End(s)
    /\ UNCHANGED <<voice, consent, contract, file, ticket, queued, bounds>>

-----------------------------------------------------------------------------
\* A handler dies: its transaction rolls back, its files stay.
Crash(s) ==
    /\ step[s] # "idle"
    /\ failures < MaxFailures
    /\ failures' = failures + 1
    /\ End(s)
    /\ UNCHANGED <<voice, consent, contract, file, ticket, jobVars, day, calls>>

\* Days pass between calls; a call takes no time.
Tick ==
    /\ day < MaxDay
    /\ \A s \in Sessions : step[s] = "idle"
    /\ day' = day + 1
    /\ UNCHANGED <<voice, consent, contract, file, ticket, jobVars, step, snap,
                   upload, late, calls, failures>>

Call(s) ==
    \/ EnrollWrite(s) \/ EnrollTooShort(s) \/ EnrollRefuse(s)
    \/ EnrollAccept(s) \/ EnrollInsert(s)
    \/ DeleteRead(s) \/ Delete(s)
    \/ FreezeRead(s) \/ Freeze(s) \/ UnfreezeRead(s) \/ Unfreeze(s)
    \/ RequestRead(s) \/ Request(s) \/ TicketRead(s)
    \/ CompleteTicket(s) \/ RejectTicket(s)
    \/ PurgeRead(s) \/ PurgeArtifacts(s) \/ PurgeScrub(s)
    \/ ConsentRead(s) \/ RevokeConsent(s) \/ ContractRead(s) \/ RevokeContract(s)
    \/ GateRead(s) \/ Gate(s) \/ PickUp(s) \/ Resolve(s)
    \/ Crash(s)

Next == Tick \/ \E s \in Sessions : Call(s)

Spec == Init /\ [][Next]_vars

-----------------------------------------------------------------------------
(* Properties.                                                             *)

\* How far the voice has gone towards erasure.
Rank(v) ==
    IF v = NoVoice THEN 0
    ELSE CASE lifecycle_state(v) \in {"active", "frozen"} -> 1
           [] lifecycle_state(v) = "purge-pending" -> 2
           [] lifecycle_state(v) = "deleted" -> 3
           [] lifecycle_state(v) = "purged" -> 4

\* No call takes a voice back from purge-pending, deleted or purged: calls
\* that decided on an older row write only their own columns, and unfreeze
\* keeps purge_after_at.
LifecycleNeverGoesBack == [][Rank(voice') >= Rank(voice)]_vars

\* A request that arrives after the consent was revoked, or while an erasure
\* request is open, never passes the gate, whatever operators freeze, unfreeze
\* or close meanwhile (_ensure_voice_synthesizable).
WithdrawnNeverAdmitted ==
    [][\A s \in Sessions :
          step[s] = "gate" /\ late[s] /\ step'[s] = "idle" => queued' <= queued]_vars

\* While an erasure request is open its voice is on the way out.  A request
\* that found nothing to erase was closed at once (create_data_deletion_request).
TicketHoldsVoice == ticket = "in-progress" => Rank(voice) >= 2

\* Once a voice is purged its recording is gone from the disk, unless a
\* deletion failed (admin_purge_voice).
ErasedStaysErased ==
    voice # NoVoice /\ voice.purged_at # Null /\ file = voice.recording => failures > 0

\* A worker that reads the row after the purge never speaks with a recording,
\* even when one was left on the disk.
TombstoneIsSilent ==
    [][\A s \in Sessions :
          step[s] = "resolve" /\ snap[s].purged_at # Null /\ step'[s] # "resolve"
             => spoken' = spoken]_vars

\* "the DB row still gets scrubbed ... we want to land it deterministically":
\* a purge that deleted the recording leaves a tombstone.
PurgeLands ==
    file = Wiped /\ (\A s \in Sessions : step[s] \notin {"artifacts", "scrub"})
       => voice.purged_at # Null \/ failures > 0

\* "Reference audio + voice_id slug are immutable": while the voice is not
\* being purged its recording is the one it was enrolled with.
ReferenceImmutable ==
    voice # NoVoice /\ voice.reference => file \in {voice.recording, Wiped}

\* Erasure, in every state: a voice under an open request is on its way out, and a
\* purged one leaves no recording (create_data_deletion_request, admin_purge_voice).
VoicesSound == TypeOK /\ TicketHoldsVoice /\ ErasedStaysErased
=============================================================================
