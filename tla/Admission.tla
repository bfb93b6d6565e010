----------------------------- MODULE Admission -----------------------------
(***************************************************************************)
(* How a request enters the system: POST /v1/tts/jobs (create_tts_job) and *)
(* the synchronous POST /v1/tts and /v1/tts/stream (synthesize,            *)
(* synthesize_stream) of src/server/main.py, over IdempotencyRepo          *)
(* (src/repos/idempotency.py) and TtsJobQueue.submit.                      *)
(*                                                                         *)
(* Several handlers run at once for one idempotency key of one tenant.     *)
(* The row is protected by its primary key: a second INSERT waits for the  *)
(* transaction of the first and raises IntegrityError if it committed.     *)
(* A read (get) sees committed rows that have not expired.                 *)
(***************************************************************************)
EXTENDS Integers, Sequences

CONSTANTS
    Callers,       \* concurrent calls with the same key
    NoCaller,      \* "nobody"
    Endpoint,      \* "jobs" or "sync", per caller
    Body,          \* the body (hash) of each call
    LostReplies,   \* may an XADD take effect although the caller sees it fail?
    MayExpire,     \* does the row outlive its 24 h?
    MaxFailures,   \* bound: XADDs that raise
    MaxCrashes     \* bound: handlers that die

ASSUME AdmissionAssumption ==
    /\ NoCaller \notin Callers
    /\ Endpoint \in [Callers -> {"jobs", "sync"}]
    /\ LostReplies \in BOOLEAN
    /\ MayExpire \in BOOLEAN
    /\ MaxFailures \in Nat
    /\ MaxCrashes \in Nat

VARIABLES
    row,       \* "none", "live" or "expired": the committed row
    hash,      \* the caller whose body the row records
    holder,    \* the caller with an uncommitted INSERT
    entries,   \* the jobs on the stream, as the callers that XADDed them
    pc,        \* where each handler stands
    isNew,     \* reserved_new of each handler
    answer,    \* what each caller was told
    failures,
    crashes

admissionVars == <<row, hash, holder, entries, pc, isNew, answer, failures, crashes>>

Answers == {"none", "accepted", "deduplicated", "attached", "conflict", "busy", "invalid",
            "not_enqueued", "raw_error", "lost"}

AdmissionTypeOK ==
    /\ row \in {"none", "live", "expired"}
    /\ hash \in Callers \cup {NoCaller}
    /\ holder \in Callers \cup {NoCaller}
    /\ entries \in Seq(Callers)
    /\ pc \in [Callers -> {"idle", "lookup", "admit", "get", "insert", "reget",
                           "reinsert", "commit", "submit", "undo", "done"}]
    /\ isNew \in [Callers -> BOOLEAN]
    /\ answer \in [Callers -> Answers]
    /\ failures \in 0..MaxFailures
    /\ crashes \in 0..MaxCrashes
    /\ holder # NoCaller => row = "none" /\ pc[holder] = "commit" /\ isNew[holder]

AdmissionInit ==
    /\ row = "none"
    /\ hash = NoCaller
    /\ holder = NoCaller
    /\ entries = <<>>
    /\ pc = [c \in Callers |-> "idle"]
    /\ isNew = [c \in Callers |-> FALSE]
    /\ answer = [c \in Callers |-> "none"]
    /\ failures = 0
    /\ crashes = 0

-----------------------------------------------------------------------------
dbVars == <<row, hash, holder>>

Goto(c, l) == pc' = [pc EXCEPT ![c] = l] /\ UNCHANGED answer

Respond(c, a) ==
    /\ pc' = [pc EXCEPT ![c] = "done"]
    /\ answer' = [answer EXCEPT ![c] = a]

\* The body recorded by the row is another than c's.
Conflicting(c) == Body[hash] # Body[c]

\* A call arrives: its length, key, voice and model are looked at, and nothing is
\* kept of a call that is refused then.  create_tts_job looks the key up next ...
ReceiveJob(c) == Endpoint[c] = "jobs" /\ (Goto(c, "lookup") \/ Respond(c, "invalid"))

\* ... the synchronous handlers go straight to the admission check.
ReceiveSync(c) == Endpoint[c] = "sync" /\ (Goto(c, "admit") \/ Respond(c, "invalid"))

Receive(c) ==
    /\ pc[c] = "idle"
    /\ ReceiveJob(c) \/ ReceiveSync(c)
    /\ UNCHANGED <<dbVars, entries, isNew, failures, crashes>>

LookupRow(c) ==
    /\ pc[c] = "lookup"
    /\ IF row # "live" THEN Goto(c, "admit")
       ELSE Respond(c, IF Conflicting(c) THEN "conflict" ELSE "deduplicated")
    /\ UNCHANGED <<dbVars, entries, isNew, failures, crashes>>

\* _check_queue_depth_or_503: the decision is another component's.
CheckDepth(c) ==
    /\ pc[c] = "admit"
    /\ Goto(c, "get") \/ Respond(c, "busy")
    /\ UNCHANGED <<dbVars, entries, isNew, failures, crashes>>

-----------------------------------------------------------------------------
(* reserve_or_get.                                                         *)

\* A live row is found: a conflict, or a replay.
Found(c) ==
    /\ IF Conflicting(c) THEN Respond(c, "conflict") ELSE Goto(c, "commit")
    /\ UNCHANGED <<dbVars, isNew>>

GetRow(c) ==
    /\ pc[c] = "get"
    /\ IF row = "live" THEN Found(c)
       ELSE Goto(c, "insert") /\ UNCHANGED <<dbVars, isNew>>
    /\ UNCHANGED <<entries, failures, crashes>>

\* The INSERT, once no other transaction holds the key: IntegrityError when a
\* row is there, expired or not.
InsertRow(c) ==
    /\ pc[c] = "insert"
    /\ holder = NoCaller
    /\ IF row # "none"
       THEN Goto(c, "reget") /\ UNCHANGED <<holder, isNew>>
       ELSE /\ holder' = c
            /\ isNew' = [isNew EXCEPT ![c] = TRUE]
            /\ Goto(c, "commit")
    /\ UNCHANGED <<row, hash, entries, failures, crashes>>

\* After the rollback: read again, and insert again if nothing is visible.
Reget(c) ==
    /\ pc[c] = "reget"
    /\ IF row = "live" THEN Found(c)
       ELSE Goto(c, "reinsert") /\ UNCHANGED <<dbVars, isNew>>
    /\ UNCHANGED <<entries, failures, crashes>>

\* Nothing catches an IntegrityError here.
Reinsert(c) ==
    /\ pc[c] = "reinsert"
    /\ holder = NoCaller
    /\ IF row # "none"
       THEN Respond(c, "raw_error") /\ UNCHANGED <<holder, isNew>>
       ELSE /\ holder' = c
            /\ isNew' = [isNew EXCEPT ![c] = TRUE]
            /\ Goto(c, "commit")
    /\ UNCHANGED <<row, hash, entries, failures, crashes>>

-----------------------------------------------------------------------------
\* Mutant of Enqueues: every caller enqueues.
AlwaysEnqueues(c) == TRUE

\* create_tts_job enqueues whether or not the reservation is new.
Enqueues(c) == isNew[c] \/ Endpoint[c] = "jobs"

Commit(c) ==
    /\ pc[c] = "commit"
    /\ IF holder = c
       THEN row' = "live" /\ hash' = c /\ holder' = NoCaller
       ELSE UNCHANGED dbVars
    /\ IF Enqueues(c) THEN Goto(c, "submit") ELSE Respond(c, "attached")
    /\ UNCHANGED <<entries, isNew, failures, crashes>>

Enqueue(c) ==
    /\ pc[c] = "submit"
    /\ \/ /\ entries' = Append(entries, c)
          /\ Respond(c, IF Endpoint[c] = "jobs" THEN "accepted" ELSE "attached")
          /\ UNCHANGED failures
       \/ /\ failures < MaxFailures
          /\ failures' = failures + 1
          /\ entries' \in {entries} \cup
                          (IF LostReplies THEN {Append(entries, c)} ELSE {})
          /\ Goto(c, "undo")
    /\ UNCHANGED <<dbVars, isNew, crashes>>

\* idem.delete and its commit: whatever row the key has is removed.
Undo(c) ==
    /\ pc[c] = "undo"
    /\ row' = "none"
    /\ hash' = NoCaller
    /\ Respond(c, "not_enqueued")
    /\ UNCHANGED <<holder, entries, isNew, failures, crashes>>

\* Mutant of HandlerDies: the open transaction is not rolled back.
CrashKeepsLock(c) ==
    /\ pc[c] \notin {"idle", "done"}
    /\ crashes < MaxCrashes
    /\ crashes' = crashes + 1
    /\ Respond(c, "lost")
    /\ UNCHANGED <<dbVars, entries, isNew, failures>>

\* The gateway process dies; an open transaction rolls back.
HandlerDies(c) ==
    /\ pc[c] \notin {"idle", "done"}
    /\ crashes < MaxCrashes
    /\ crashes' = crashes + 1
    /\ Respond(c, "lost")
    /\ holder' = IF holder = c THEN NoCaller ELSE holder
    /\ UNCHANGED <<row, hash, entries, isNew, failures>>

\* 24 hours later.  Nothing in the code calls purge_expired.
RowExpires ==
    /\ MayExpire
    /\ row = "live"
    /\ row' = "expired"
    /\ UNCHANGED <<hash, holder, entries, pc, isNew, answer, failures, crashes>>

HandlerStep(c) ==
    \/ LookupRow(c) \/ CheckDepth(c) \/ GetRow(c) \/ InsertRow(c) \/ Reget(c) \/ Reinsert(c)
    \/ Commit(c) \/ Enqueue(c) \/ Undo(c)

AdmissionNext == RowExpires \/ \E c \in Callers : Receive(c) \/ HandlerStep(c) \/ HandlerDies(c)

\* A handler that can proceed does; a transaction lock is granted in turn.
AdmissionSpec ==
    /\ AdmissionInit
    /\ [][AdmissionNext]_admissionVars
    /\ \A c \in Callers : SF_admissionVars(HandlerStep(c))

-----------------------------------------------------------------------------
(* Properties.                                                             *)

\* A call that replays a key and waits for its audio, or is told that its job
\* exists, waits for a job with its own body: reserve_or_get compares the
\* hashes whichever of the racing INSERTs wins.  (A failed XADD gives the key
\* back, which is another story.)
ReplayMatchesJob ==
    failures = 0 =>
        \A c \in Callers, i \in 1..Len(entries) :
            answer[c] \in {"attached", "accepted", "deduplicated"} =>
                Body[entries[i]] = Body[c]

\* The loser of an INSERT race is answered like any replay, never with a raw
\* IntegrityError.
NoRawError ==
    failures = 0 /\ row # "expired" =>
        \A c \in Callers : answer[c] # "raw_error"

\* No handler waits for ever: not for the lock of a transaction whose owner
\* died, nor for a winner that gave the key back.
EveryCallAnswered ==
    \A c \in Callers : (pc[c] = "lookup" \/ pc[c] = "admit") ~> (pc[c] = "done")

\* The synchronous endpoints put a request on the stream at most once, also when
\* an earlier XADD failed and the key was reserved anew (create_tts_job states
\* the same of itself, main.py lines 1978-1979: "never enqueues twice").
NeverEnqueuesTwice == Len(entries) <= 1

\* The row that is deleted after a failed XADD belongs to no job: "The worker
\* never saw the job, so the reservation is bogus" (main.py lines 2096-2098).
DeletedIsBogus == [][row = "live" /\ row' = "none" => entries = <<>>]_admissionVars

\* What an Idempotency-Key stands for, in every state: one job, with the body of
\* every call that is told of it, whichever call won (reserve_or_get and the
\* synchronous handlers).
AdmissionSound ==
    AdmissionTypeOK /\ NeverEnqueuesTwice /\ ReplayMatchesJob /\ NoRawError
=============================================================================
