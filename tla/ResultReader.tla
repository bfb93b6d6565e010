---------------------------- MODULE ResultReader ----------------------------
(***************************************************************************)
(* The gateway's side of the result streams, composed with the workers     *)
(* that write them: src/server/result_stream.py (consume_result_stream and *)
(* collect_pcm_until_final) as the synchronous POST /v1/tts drives it.     *)
(*                                                                         *)
(* A reader fetches whatever the stream holds (XREAD), works through the   *)
(* fetched chunks, and DELs the stream when it stops for any reason.  The  *)
(* workers DEL the same stream at the start of every attempt.              *)
(***************************************************************************)
EXTENDS TtsWorker

CONSTANTS
    Readers,  \* HTTP requests that wait for audio
    Awaits    \* the request id each of them waits for

ASSUME ReadersAssumption == Awaits \in [Readers -> Requests]

VARIABLE reader  \* the state of each reader

allVars == <<vars, reader>>

\* fetched: how much of the current stream XREAD has returned (last_id);
\* inbox: fetched, not yet looked at; attempt, seen: the dedupe state;
\* body: the chunks collected for the response, as <<seq, src>>.
ReaderState ==
    [st : {"off", "reading", "final", "error", "gone"}, fetched : Nat,
     inbox : Seq(Result), attempt : Int, seen : SUBSET Nat,
     body : Seq(Nat \X (Entries \X Nat))]

ReaderOff == [st |-> "off", fetched |-> 0, inbox |-> <<>>, attempt |-> -1,
              seen |-> {}, body |-> <<>>]

ReaderTypeOK == TypeOK /\ reader \in [Readers -> ReaderState]

ReaderInit == Init /\ reader = [g \in Readers |-> ReaderOff]

-----------------------------------------------------------------------------
\* DEL of a result stream.
DelStream(g) == results' = [results EXCEPT ![Awaits[g]] = <<>>]

\* A recreated stream has only ids above any last_id seen before, so after a
\* DEL a reader that is still waiting fetches from its start.
Rewind(rs, r) ==
    [g \in Readers |-> IF Awaits[g] = r THEN [rs[g] EXCEPT !.fetched = 0]
                       ELSE rs[g]]

\* The handler has reserved the row and, as the first caller, enqueued the job;
\* a replay of the same X-Request-Id subscribes without enqueueing.
Open(g) ==
    /\ reader[g].st = "off"
    /\ \E e \in Submitted \ Malformed : Rid[e] = Awaits[g]
    /\ reader' = [reader EXCEPT ![g].st = "reading"]
    /\ UNCHANGED vars

XRead(g) ==
    LET stream == results[Awaits[g]] IN
    /\ reader[g].st = "reading"
    /\ reader[g].inbox = <<>>
    /\ reader[g].fetched < Len(stream)
    /\ reader' = [reader EXCEPT
                    ![g].inbox = SubSeq(stream, reader[g].fetched + 1, Len(stream)),
                    ![g].fetched = Len(stream)]
    /\ UNCHANGED vars

\* Mutant of Reset: dedupe restarts, but the collected audio is kept.
ResetKeepsBody(rd, a) ==
    IF a > rd.attempt THEN [rd EXCEPT !.attempt = a, !.seen = {}] ELSE rd

\* What a chunk of attempt a finds: a newer attempt forgets what the older ones
\* delivered.
Reset(rd, a) ==
    IF a > rd.attempt THEN [rd EXCEPT !.attempt = a, !.seen = {}, !.body = <<>>]
    ELSE rd

\* One chunk of the inbox: dropped when its attempt is superseded or its seq was
\* seen, otherwise collected; a final or error chunk ends the read and the
\* stream.
Consume(g) ==
    /\ reader[g].st = "reading"
    /\ reader[g].inbox # <<>>
    /\ LET c  == Head(reader[g].inbox)
           rd == Reset([reader[g] EXCEPT !.inbox = Tail(@)], c.attempt)
       IN  \/ /\ c.attempt < rd.attempt \/ (c.kind = "chunk" /\ c.seq \in rd.seen)
              /\ reader' = [reader EXCEPT ![g] = rd]
              /\ UNCHANGED vars
           \/ /\ c.attempt = rd.attempt
              /\ c.kind = "chunk"
              /\ c.seq \notin rd.seen
              /\ reader' = [reader EXCEPT ![g] =
                              [rd EXCEPT !.seen = @ \cup {c.seq},
                                         !.body = Append(@, <<c.seq, c.src>>)]]
              /\ UNCHANGED vars
           \/ /\ c.attempt = rd.attempt
              /\ c.kind # "chunk"
              /\ reader' = Rewind([reader EXCEPT ![g] =
                              [rd EXCEPT !.st = c.kind, !.inbox = <<>>]], Awaits[g])
              /\ DelStream(g)
              /\ UNCHANGED <<jobVars, dlq, announced, dbVars, artifacts, pc,
                             task, boundVars>>

\* The deadline passes, or the client disconnects: the stream is DELeted too.
GiveUp(g) ==
    /\ reader[g].st = "reading"
    /\ reader' = Rewind([reader EXCEPT ![g].st = "gone", ![g].inbox = <<>>],
                        Awaits[g])
    /\ DelStream(g)
    /\ UNCHANGED <<jobVars, dlq, announced, dbVars, artifacts, pc, task, boundVars>>

-----------------------------------------------------------------------------
\* A worker's step; the DEL of a new attempt rewinds the waiting readers.
WorkerStep ==
    /\ Next
    /\ reader' = [g \in Readers |->
                    IF Len(results'[Awaits[g]]) < Len(results[Awaits[g]])
                    THEN [reader[g] EXCEPT !.fetched = 0] ELSE reader[g]]

ReaderNext ==
    \/ WorkerStep
    \/ \E g \in Readers : Open(g) \/ XRead(g) \/ Consume(g) \/ GiveUp(g)

ReaderSpec == ReaderInit /\ [][ReaderNext]_allVars

\* The workers' fairness, and a reader that keeps reading.  Nothing is assumed
\* of its deadline.
ReaderFairness ==
    /\ \A w \in Workers : WF_allVars(WorkerStep /\ Step(w))
    /\ \A e \in Entries :
         SF_allVars(WorkerStep /\ \E w \in Workers : Sweep(w, e))
    /\ \A g \in Readers : WF_allVars(XRead(g)) /\ WF_allVars(Consume(g))

FairReaderSpec == ReaderSpec /\ ReaderFairness

-----------------------------------------------------------------------------
(* Properties.                                                             *)

\* The body of a reader that saw the final marker: every sentence of the text,
\* in order, all of them from one delivery of the job.
WholeBody(g) ==
    \E e \in Entries, n \in 1..(MaxFaults + MaxSteals + MaxRetries + 1) :
        reader[g].body = [i \in 1..Sentences[Awaits[g]] |-> <<i - 1, <<e, n>>>>]

\* Crashes, retries and republished streams never reach the caller of the
\* synchronous endpoint: the audio returned as a success is complete, in order,
\* free of duplicates, and the work of a single attempt.
ExactAudio ==
    \A g \in Readers : reader[g].st = "final" => WholeBody(g)

\* A caller told that its audio is done is told so of a request that is billed
\* and whose artifact is archived.
DoneIsDurable ==
    \A g \in Readers : reader[g].st = "final" =>
        usage[Awaits[g]] = "ok" /\ Awaits[g] \in artifacts

\* Nobody needs the deadline: as long as entries are claimed only from dead
\* workers, every waiting caller gets a final or an error chunk.
EveryReaderAnswered ==
    \A g \in Readers : (reader[g].st = "reading") ~> (reader[g].st # "reading")

\* The replay of a synchronous request as the handler states it (main.py lines
\* 1337-1340): the caller gets the audio, or a timeout.
ReplayGetsAudioOrTimeout ==
    \A g \in Readers : reader[g].st = "final" =>
        Len(reader[g].body) = Sentences[Awaits[g]]

\* What a synchronous caller has, in every state: audio that is whole, of one
\* attempt and durable (collect_pcm_until_final).
ReaderSound == ReaderTypeOK /\ ExactAudio /\ DoneIsDurable
=============================================================================
