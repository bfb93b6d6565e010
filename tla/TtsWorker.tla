------------------------------ MODULE TtsWorker ------------------------------
(***************************************************************************)
(* The worker side of the job queue: src/worker/consumer.py (the Redis     *)
(* Streams consumer, its XACK matrix, XAUTOCLAIM recovery and DLQ) and     *)
(* src/worker/pipeline.py (process_one_job, mark_terminal_failure), over   *)
(* the rows they write (job_idempotency, usage_records), the artifact      *)
(* store and the per-request result streams.                               *)
(*                                                                         *)
(* One action is what happens between two awaits: a Redis command, a       *)
(* database transaction, an engine chunk.  Every such call may raise, and  *)
(* a worker process may die between any two of them.                       *)
(***************************************************************************)
EXTENDS Integers, Sequences

CONSTANTS
    Workers,       \* worker processes
    Entries,       \* entries XADDed to the job stream
    NoEntry,       \* "no entry in hand"
    Requests,      \* request ids
    Rid,           \* the request an entry's payload decodes to
    Malformed,     \* the entries whose payload does not decode
    Sentences,     \* chunks the engine yields for the text of a request
    MaxRetries,    \* NEUROVOICE_WORKER_MAX_RETRIES
    CountMayFail,  \* may XPENDING raise (then _delivery_count answers 1)?
    MaxFaults,     \* bound: exceptions raised and processes killed
    MaxSteals      \* bound: claims of an entry a live worker is still on

ASSUME ConstantsAssumption ==
    /\ NoEntry \notin Entries
    /\ Rid \in [Entries -> Requests]
    /\ Malformed \subseteq Entries
    /\ Sentences \in [Requests -> Nat]
    /\ MaxRetries \in Nat
    /\ CountMayFail \in BOOLEAN
    /\ MaxFaults \in Nat
    /\ MaxSteals \in Nat

VARIABLES
    queue,       \* job stream entries not yet delivered to the group
    pel,         \* pending entries list: delivered, not XACKed
    acked,       \* XACKed entries
    deliveries,  \* times_delivered of each entry
    dlq,         \* entries archived on the dead-letter stream
    results,     \* result stream of each request
    idem,        \* status of the job_idempotency row of each request
    usage,       \* status of the usage_records row of each request
    artifacts,   \* requests whose audio is archived
    pc,          \* where each worker stands
    task,        \* what each worker holds
    announced,   \* history: requests a final marker was published for
    faults,      \* faults injected so far
    steals       \* live claims so far

redisVars  == <<queue, pel, acked, deliveries, dlq, results, announced>>
jobVars    == <<queue, pel, acked, deliveries>>
dbVars     == <<idem, usage>>
boundVars  == <<faults, steals>>
vars == <<queue, pel, acked, deliveries, dlq, results, idem, usage, artifacts,
          pc, task, announced, faults, steals>>

-----------------------------------------------------------------------------
(* Types.                                                                  *)

\* The awaits at which a worker can stand while it handles an entry.
Handling == {"attempt", "clear", "resolve", "engine", "archive", "commit",
             "final", "retry", "error", "fail", "dlq", "ack"}

\* How the handling of an entry ends: a return of process_one_job, PoisonJob,
\* an exhausted retry budget, or a payload that does not decode.
Kinds == {"done", "poison", "exhausted", "malformed"}

\* take numbers the delivery the worker acts for; it is not in the code, which
\* only has attempt, read back from XPENDING.
Task == [entry : Entries \cup {NoEntry}, via : {"tick", "sweep"}, take : Nat,
         attempt : Nat, seq : Nat, kind : Kinds]

NoTask == [entry |-> NoEntry, via |-> "tick", take |-> 0, attempt |-> 0,
           seq |-> 0, kind |-> "done"]

Result == [kind : {"chunk", "final", "error"}, seq : Nat, attempt : Nat,
           src : Entries \X Nat]

TypeOK ==
    /\ queue \in Seq(Entries)
    /\ pel \subseteq Entries
    /\ acked \subseteq Entries
    /\ deliveries \in [Entries -> Nat]
    /\ dlq \subseteq Entries
    /\ results \in [Requests -> Seq(Result)]
    /\ idem \in [Requests -> {"absent", "processing", "complete", "failed"}]
    /\ usage \in [Requests -> {"none", "ok", "error"}]
    /\ artifacts \subseteq Requests
    /\ pc \in [Workers -> Handling \cup {"idle", "down"}]
    /\ task \in [Workers -> Task]
    /\ \A w \in Workers : pc[w] \in Handling => task[w].entry \in Entries
    /\ announced \subseteq Requests
    /\ faults \in Nat
    /\ steals \in Nat

Init ==
    /\ queue = <<>>
    /\ pel = {}
    /\ acked = {}
    /\ deliveries = [e \in Entries |-> 0]
    /\ dlq = {}
    /\ results = [r \in Requests |-> <<>>]
    /\ idem = [r \in Requests |-> "absent"]
    /\ usage = [r \in Requests |-> "none"]
    /\ artifacts = {}
    /\ pc = [w \in Workers |-> "idle"]
    /\ task = [w \in Workers |-> NoTask]
    /\ announced = {}
    /\ faults = 0
    /\ steals = 0

-----------------------------------------------------------------------------
(* Helpers.                                                                *)

\* The entries XADDed so far.
Submitted == {queue[i] : i \in 1..Len(queue)} \cup pel \cup acked

\* The request worker w is working for.
Req(w) == Rid[task[w].entry]

\* One more exception, or one more dead process.
Fault == faults < MaxFaults /\ faults' = faults + 1

\* The worker moves on to label l with the entry in hand.
Goto(w, l) == pc' = [pc EXCEPT ![w] = l] /\ UNCHANGED task

\* Mutant of Leave: the entry is dropped but the handler goes on.
LeaveHandling(w, l) ==
    /\ pc' = pc
    /\ task' = [task EXCEPT ![w] = NoTask]

\* The worker drops what it holds and stands at l.
Leave(w, l) ==
    /\ pc' = [pc EXCEPT ![w] = l]
    /\ task' = [task EXCEPT ![w] = NoTask]

\* An exception that leaves _handle_one: _tick's caller logs it, but nothing
\* catches it around the sweep, so run() and the process end.
Escape(w) == Leave(w, IF task[w].via = "tick" THEN "idle" ELSE "down")

\* _delivery_count: times_delivered, and 1 for an entry no longer pending.
DeliveryCount(e) == IF e \in pel THEN deliveries[e] ELSE 1

\* XADD of a result on the stream of w's request, stamped with w's attempt.
XaddResult(w, kind, seq) ==
    results' = [results EXCEPT ![Req(w)] = Append(@,
        [kind |-> kind, seq |-> seq, attempt |-> task[w].attempt,
         src |-> <<task[w].entry, task[w].take>>])]

-----------------------------------------------------------------------------
(* The gateway, seen from here: a committed reservation, then the XADD.    *)

Submit(e) ==
    /\ e \notin Submitted
    /\ queue' = Append(queue, e)
    /\ idem' = IF e \notin Malformed /\ idem[Rid[e]] = "absent"
               THEN [idem EXCEPT ![Rid[e]] = "processing"] ELSE idem
    /\ UNCHANGED <<pel, acked, deliveries, dlq, results, usage, artifacts,
                   pc, task, announced, boundVars>>

-----------------------------------------------------------------------------
(* Taking an entry: _tick (XREADGROUP) and _xautoclaim_sweep (XAUTOCLAIM). *)

Take(w, e, via) ==
    /\ pel' = pel \cup {e}
    /\ deliveries' = [deliveries EXCEPT ![e] = @ + 1]
    /\ pc' = [pc EXCEPT ![w] = IF e \in Malformed THEN "dlq" ELSE "attempt"]
    /\ task' = [task EXCEPT ![w] =
                  [entry |-> e, via |-> via, take |-> deliveries[e] + 1,
                   attempt |-> 0, seq |-> 0,
                   kind |-> IF e \in Malformed THEN "malformed" ELSE "done"]]

Tick(w) ==
    /\ pc[w] = "idle"
    /\ queue # <<>>
    /\ Take(w, Head(queue), "tick")
    /\ queue' = Tail(queue)
    /\ UNCHANGED <<acked, dlq, results, dbVars, artifacts, announced, boundVars>>

\* Mutant of Sweep: an entry past its retry budget is not claimed any more.
SweepWithinBudget(w, e) ==
    /\ pc[w] = "idle"
    /\ e \in pel
    /\ deliveries[e] < MaxRetries
    /\ IF \E v \in Workers : task[v].entry = e
       THEN steals < MaxSteals /\ steals' = steals + 1
       ELSE UNCHANGED steals
    /\ Take(w, e, "sweep")
    /\ UNCHANGED <<queue, acked, dlq, results, dbVars, artifacts, announced,
                   faults>>

\* XAUTOCLAIM only knows how long an entry has been pending, not whether the
\* worker it was delivered to is alive.
Sweep(w, e) ==
    /\ pc[w] = "idle"
    /\ e \in pel
    /\ IF \E v \in Workers : task[v].entry = e
       THEN steals < MaxSteals /\ steals' = steals + 1
       ELSE UNCHANGED steals
    /\ Take(w, e, "sweep")
    /\ UNCHANGED <<queue, acked, dlq, results, dbVars, artifacts, announced,
                   faults>>

\* The retry epoch stamped on every chunk.
ReadAttempt(w) ==
    /\ pc[w] = "attempt"
    /\ pc' = [pc EXCEPT ![w] = "clear"]
    /\ \/ /\ task' = [task EXCEPT ![w].attempt = DeliveryCount(task[w].entry)]
          /\ UNCHANGED faults
       \/ /\ CountMayFail /\ Fault
          /\ task' = [task EXCEPT ![w].attempt = 1]
    /\ UNCHANGED <<redisVars, dbVars, artifacts, steals>>

-----------------------------------------------------------------------------
(* process_one_job.                                                        *)

\* DEL of the result stream: the attempt starts from an empty one.
ClearResults(w) ==
    /\ pc[w] = "clear"
    /\ results' = [results EXCEPT ![Req(w)] = <<>>]
    /\ Goto(w, "resolve")
    /\ UNCHANGED <<jobVars, dlq, dbVars, artifacts, announced, boundVars>>

\* Voice, watermark key, reference and model resolve, or one of them is
\* missing for good (voice deleted, no key bound, file gone, unknown model).
Resolve(w) ==
    /\ pc[w] = "resolve"
    /\ \/ Goto(w, "engine")
       \/ /\ pc' = [pc EXCEPT ![w] = "error"]
          /\ task' = [task EXCEPT ![w].kind = "poison"]
    /\ UNCHANGED <<redisVars, dbVars, artifacts, boundVars>>

\* XADD of one sentence.  EXPIRE follows and may raise after the XADD is done.
PublishChunk(w) ==
    /\ pc[w] = "engine"
    /\ task[w].seq < Sentences[Req(w)]
    /\ XaddResult(w, "chunk", task[w].seq)
    /\ \/ /\ task' = [task EXCEPT ![w].seq = @ + 1]
          /\ UNCHANGED <<pc, faults>>
       \/ Goto(w, "retry") /\ Fault
    /\ UNCHANGED <<jobVars, dlq, dbVars, artifacts, announced, steals>>

\* Mutant of EngineDone: the final marker goes out before archive and commit.
FinalWhenSpoken(w) ==
    /\ pc[w] = "engine"
    /\ task[w].seq = Sentences[Req(w)]
    /\ Goto(w, "final")
    /\ UNCHANGED <<redisVars, dbVars, artifacts, boundVars>>

\* The engine is exhausted; no PCM at all is a terminal failure.
EngineDone(w) ==
    /\ pc[w] = "engine"
    /\ task[w].seq = Sentences[Req(w)]
    /\ IF task[w].seq = 0
       THEN /\ pc' = [pc EXCEPT ![w] = "error"]
            /\ task' = [task EXCEPT ![w].kind = "poison"]
       ELSE Goto(w, "archive")
    /\ UNCHANGED <<redisVars, dbVars, artifacts, boundVars>>

\* Mutant of Archive: a failed upload (no URI) is not noticed.
ArchiveUnnoticed(w) ==
    /\ pc[w] = "archive"
    /\ artifacts' \in {artifacts, artifacts \cup {Req(w)}}
    /\ Goto(w, "commit")
    /\ UNCHANGED <<redisVars, dbVars, boundVars>>

Archive(w) ==
    /\ pc[w] = "archive"
    /\ artifacts' = artifacts \cup {Req(w)}
    /\ Goto(w, "commit")
    /\ UNCHANGED <<redisVars, dbVars, boundVars>>

\* The repository methods complete and fail: no row, no effect.
SetStatus(r, status) == IF idem[r] = "absent" THEN idem
                        ELSE [idem EXCEPT ![r] = status]

\* Mutant of Commit: a usage row that cannot be inserted is passed over.
CommitUnbilled(w) ==
    /\ pc[w] = "commit"
    /\ idem' = SetStatus(Req(w), "complete")
    /\ usage' \in {usage, [usage EXCEPT ![Req(w)] = "ok"]}
    /\ Goto(w, "final")
    /\ UNCHANGED <<redisVars, artifacts, boundVars>>

\* Mutant of Commit: the usage row is replaced, as by an upsert.
CommitUpserts(w) ==
    /\ pc[w] = "commit"
    /\ idem' = SetStatus(Req(w), "complete")
    /\ usage' = [usage EXCEPT ![Req(w)] = "ok"]
    /\ Goto(w, "final")
    /\ UNCHANGED <<redisVars, artifacts, boundVars>>

\* One transaction: the idempotency row completes and the usage row is
\* inserted.  usage_records.request_id is UNIQUE: with a row already there the
\* insert raises and the whole transaction rolls back.
Commit(w) ==
    /\ pc[w] = "commit"
    /\ IF usage[Req(w)] = "none"
       THEN /\ idem' = SetStatus(Req(w), "complete")
            /\ usage' = [usage EXCEPT ![Req(w)] = "ok"]
            /\ Goto(w, "final")
       ELSE Goto(w, "retry") /\ UNCHANGED dbVars
    /\ UNCHANGED <<redisVars, artifacts, boundVars>>

\* Only after the commit.  As for a chunk, EXPIRE may raise after the XADD.
PublishFinal(w) ==
    /\ pc[w] = "final"
    /\ XaddResult(w, "final", task[w].seq)
    /\ announced' = announced \cup {Req(w)}
    /\ \/ Goto(w, "ack") /\ UNCHANGED faults
       \/ Goto(w, "retry") /\ Fault
    /\ UNCHANGED <<jobVars, dlq, dbVars, artifacts, steals>>

-----------------------------------------------------------------------------
(* The failure paths.                                                      *)

\* Mutant of Retry: a transient failure is XACKed.
RetryAcks(w) ==
    /\ pc[w] = "retry"
    /\ Goto(w, "ack")
    /\ UNCHANGED <<redisVars, dbVars, artifacts, boundVars>>

\* _maybe_dlq_and_ack: leave the entry pending until the count reaches the
\* budget, then fail the request terminally.
Retry(w) ==
    /\ pc[w] = "retry"
    /\ \E n \in {DeliveryCount(task[w].entry)} \cup
                (IF CountMayFail THEN {1} ELSE {}) :
         /\ IF n = DeliveryCount(task[w].entry) THEN UNCHANGED faults ELSE Fault
         /\ IF n < MaxRetries
            THEN Leave(w, "idle")
            ELSE /\ pc' = [pc EXCEPT ![w] = "error"]
                 /\ task' = [task EXCEPT ![w].kind = "exhausted",
                                         ![w].attempt = n]
    /\ UNCHANGED <<redisVars, dbVars, artifacts, steals>>

\* Raised inside process_one_job: the retry path takes it.  Raised by the
\* terminal failure that path itself runs: nothing catches it in _handle_one.
RaiseFrom(w) == IF task[w].kind = "exhausted" THEN Escape(w) ELSE Goto(w, "retry")

\* Mutant of PublishError: the failure is only recorded in the database.
PublishNoError(w) ==
    /\ pc[w] = "error"
    /\ Goto(w, "fail")
    /\ UNCHANGED <<redisVars, dbVars, artifacts, boundVars>>

\* mark_terminal_failure, first half: the error reaches the result stream ...
PublishError(w) ==
    /\ pc[w] = "error"
    /\ XaddResult(w, "error", 0)
    /\ \/ Goto(w, "fail") /\ UNCHANGED faults
       \/ RaiseFrom(w) /\ Fault
    /\ UNCHANGED <<jobVars, dlq, dbVars, artifacts, announced, steals>>

\* Mutant of FailRequest: the usage row is overwritten, not inserted if missing.
FailOverwrites(w) ==
    /\ pc[w] = "fail"
    /\ idem' = SetStatus(Req(w), "failed")
    /\ usage' = [usage EXCEPT ![Req(w)] = "error"]
    /\ Goto(w, "dlq")
    /\ UNCHANGED <<redisVars, artifacts, boundVars>>

\* ... second half: one transaction that fails the row and bills an error
\* unless the request is billed already.
FailRequest(w) ==
    /\ pc[w] = "fail"
    /\ idem' = SetStatus(Req(w), "failed")
    /\ usage' = [usage EXCEPT ![Req(w)] = IF @ = "none" THEN "error" ELSE @]
    /\ Goto(w, "dlq")
    /\ UNCHANGED <<redisVars, artifacts, boundVars>>

\* A call raised without effect.
Raises(w) ==
    /\ pc[w] \in {"clear", "resolve", "engine", "archive", "commit", "final",
                  "error", "fail"}
    /\ RaiseFrom(w)
    /\ Fault
    /\ UNCHANGED <<redisVars, dbVars, artifacts, steals>>

\* The DLQ write is best effort for a poison job only.
SendToDlq(w) ==
    /\ pc[w] = "dlq"
    /\ \/ /\ dlq' = dlq \cup {task[w].entry}
          /\ Goto(w, "ack")
          /\ UNCHANGED faults
       \/ /\ Fault
          /\ IF task[w].kind = "poison" THEN Goto(w, "ack") ELSE Escape(w)
          /\ UNCHANGED dlq
    /\ UNCHANGED <<jobVars, results, announced, dbVars, artifacts, steals>>

\* XACK.  A ResponseError is swallowed, any other exception escapes.
Ack(w) ==
    /\ pc[w] = "ack"
    /\ \/ /\ pel' = pel \ {task[w].entry}
          /\ acked' = acked \cup {task[w].entry}
          /\ Leave(w, "idle")
          /\ UNCHANGED faults
       \/ /\ Fault
          /\ Leave(w, "idle") \/ Escape(w)
          /\ UNCHANGED <<pel, acked>>
    /\ UNCHANGED <<queue, deliveries, dlq, results, announced, dbVars,
                   artifacts, steals>>

\* The process dies with an entry in hand, and the container restarts it.
Crash(w) ==
    /\ pc[w] \in Handling
    /\ Fault
    /\ Leave(w, "down")
    /\ UNCHANGED <<redisVars, dbVars, artifacts, steals>>

Restart(w) ==
    /\ pc[w] = "down"
    /\ Goto(w, "idle")
    /\ UNCHANGED <<redisVars, dbVars, artifacts, boundVars>>

-----------------------------------------------------------------------------
(* The specification.                                                      *)

\* What a worker does of its own accord.
Step(w) ==
    \/ Tick(w) \/ ReadAttempt(w) \/ ClearResults(w) \/ Resolve(w)
    \/ PublishChunk(w) \/ EngineDone(w) \/ Archive(w) \/ Commit(w)
    \/ PublishFinal(w) \/ Retry(w) \/ PublishError(w) \/ FailRequest(w)
    \/ SendToDlq(w) \/ Ack(w) \/ Restart(w)

Next ==
    \/ \E e \in Entries : Submit(e)
    \/ \E w \in Workers :
         \/ Step(w) \/ Raises(w) \/ Crash(w)
         \/ \E e \in Entries : Sweep(w, e)

Spec == Init /\ [][Next]_vars

\* A live worker proceeds; run() reaches the sweep on every idle tick and at
\* least every xautoclaim_period_s under load, so an entry that is claimable
\* again and again is claimed.
Fairness ==
    /\ \A w \in Workers : WF_vars(Step(w))
    /\ \A e \in Entries : SF_vars(\E w \in Workers : Sweep(w, e))

FairSpec == Spec /\ Fairness

-----------------------------------------------------------------------------
(* Properties.                                                             *)

\* A request the status endpoint reports complete has its audio archived and
\* is billed as delivered: whatever mixture of retries, stolen entries, failed
\* calls and crashes led there, "complete" is never left without a response_uri
\* (pipeline.py commits the row and the usage record in one transaction, after
\* the archive), nor on a request that was billed as an error.
CompleteIsDurable ==
    \A r \in Requests :
        idem[r] = "complete" => usage[r] = "ok" /\ r \in artifacts

\* Commit before final: no final marker was ever published for a request whose
\* artifact and usage row were not durable, even when the attempt that
\* publishes it has been superseded by another worker's.
FinalAfterCommit ==
    \A r \in announced : usage[r] = "ok" /\ r \in artifacts

\* At least once: an entry is XACKed only when its request has an outcome on
\* record, and an entry that does not decode only when it is on the DLQ, so no
\* crash, exception or claim makes a job disappear without a trace.
AckedHasOutcome ==
    \A e \in acked :
        IF e \in Malformed THEN e \in dlq ELSE usage[Rid[e]] # "none"

\* What a worker relies on at the await where it stands, although other workers
\* and the gateway act on the same rows and streams meanwhile.
StageOK(w) ==
    pc[w] \in Handling =>
        LET e == task[w].entry IN
        /\ e \in Malformed <=> task[w].kind = "malformed"
        /\ e \in Malformed => pc[w] \in {"dlq", "ack"}
        /\ pc[w] = "commit" => Rid[e] \in artifacts
        /\ pc[w] = "final" => usage[Rid[e]] = "ok"
        /\ pc[w] = "dlq" /\ e \notin Malformed => usage[Rid[e]] # "none"
        /\ pc[w] = "ack" => IF e \in Malformed THEN e \in dlq
                                              ELSE usage[Rid[e]] # "none"

\* The inductive invariant behind the three properties above and the contract:
\* a request billed as delivered has its audio archived, and every worker's
\* stage is backed by what is already durable.
IInv ==
    /\ TypeOK
    /\ \A r \in Requests : usage[r] = "ok" => r \in artifacts
    /\ CompleteIsDurable
    /\ FinalAfterCommit
    /\ AckedHasOutcome
    /\ \A w \in Workers : StageOK(w)

\* The worker implements the contract: a request is billed once and for all,
\* final markers follow the billing, XACKs follow the outcome.
Contract == INSTANCE JobContract WITH
                outcome <- usage, dead <- dlq, settled <- acked
ContractSpec == Contract!Spec

\* Every job that reaches the stream is eventually XACKed: nothing waits for
\* ever on a dead worker, a job nobody claims, or a retry nobody makes.
EveryJobSettles ==
    \A e \in Entries : (e \in Submitted) ~> (e \in acked)

\* The gateway's rule as pipeline.py states it (lines 44-46 and 788-789): once
\* the final marker is out, the status endpoint answers complete.
FinalMeansComplete ==
    \A r \in announced : idem[r] = "complete"
=============================================================================
