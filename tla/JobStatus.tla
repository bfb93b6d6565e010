----------------------------- MODULE JobStatus -----------------------------
(***************************************************************************)
(* What a client that polls GET /v1/tts/jobs/{job_id} is told (get_tts_job *)
(* of src/server/main.py) while the workers process its job: the handler   *)
(* reads the idempotency row and, of a complete one, the usage row, in two *)
(* queries between which workers commit.                                   *)
(***************************************************************************)
EXTENDS TtsWorker

CONSTANTS
    Pollers,  \* clients
    Asks      \* the request each of them polls

ASSUME PollersAssumption == Asks \in [Pollers -> Requests]

VARIABLE poll  \* each client's poll and the last answer it had

statusVars == <<vars, poll>>

\* The answer; output stands for the URL of the audio, metrics for the status of
\* the usage row they were taken from.
TTSJobStatusResponse ==
    [status : {"not_found", "queued", "complete", "failed"},
     output : BOOLEAN, metrics : {"none", "ok", "error"}]

NoResponse == [status |-> "not_found", output |-> FALSE, metrics |-> "none"]

PollTypeOK ==
    poll \in [Pollers -> [at : {"idle", "usage"}, answer : TTSJobStatusResponse]]

StatusInit == Init /\ poll = [p \in Pollers |-> [at |-> "idle", answer |-> NoResponse]]

-----------------------------------------------------------------------------

\* The job model of a row's status; "running" is never answered.
JobStatusOf == [absent |-> "not_found", processing |-> "queued",
                complete |-> "complete", failed |-> "failed"]

\* A presigned URL is made of the response_uri that the worker stamped, and the
\* URI itself is given where none can be made.
audio_url(r) == r \in artifacts

Answer(p, a) == poll' = [poll EXCEPT ![p] = [at |-> "idle", answer |-> a]]

\* The row, tenant scoped; its status answers the poll unless it is complete.
ReadRow(p) ==
    LET r == Asks[p]
        response == [NoResponse EXCEPT !.status = JobStatusOf[idem[r]]]
    IN  /\ poll[p].at = "idle"
        /\ IF idem[r] # "complete" THEN Answer(p, response)
           ELSE poll' = [poll EXCEPT ![p] =
                    [at |-> "usage", answer |-> [response EXCEPT !.output = audio_url(r)]]]
        /\ UNCHANGED vars

\* _find_usage_row: the metrics of the request's one usage row, if it is there.
FindUsageRow(p) ==
    /\ poll[p].at = "usage"
    /\ Answer(p, [poll[p].answer EXCEPT !.metrics = usage[Asks[p]]])
    /\ UNCHANGED vars

StatusNext ==
    \/ Next /\ UNCHANGED poll
    \/ \E p \in Pollers : ReadRow(p) \/ FindUsageRow(p)

StatusSpec == StatusInit /\ [][StatusNext]_statusVars

-----------------------------------------------------------------------------
(* Properties.                                                             *)

\* A client told that its job is complete is given the audio and the metrics of
\* a delivered request with it: the second query never misses the usage row of a
\* row that the first one found complete (get_tts_job).
CompleteAnswerIsWhole ==
    \A p \in Pollers :
        poll[p].at = "idle" /\ poll[p].answer.status = "complete" =>
            poll[p].answer.output /\ poll[p].answer.metrics = "ok"

\* "failed" is a last word: a client that was told so, and may have sent the text
\* again under another key, is not told later that the job is done, although
\* another worker may still be at work on a claimed entry.
FailedStaysFailed ==
    [][\A p \in Pollers :
          poll[p].answer.status = "failed" => poll'[p].answer.status = "failed"]_statusVars

\* The polls and their answers, in every state (get_tts_job).
StatusSound == PollTypeOK /\ CompleteAnswerIsWhole
=============================================================================
