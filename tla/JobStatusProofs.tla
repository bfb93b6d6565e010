--------------------------- MODULE JobStatusProofs ---------------------------
(***************************************************************************)
(* Proofs about JobStatus: what a client that polls is told, for any       *)
(* number of clients and of workers, faults and claims.                    *)
(***************************************************************************)
EXTENDS JobStatus, TtsWorkerProofs

\* A request that failed has a usage row: no commit can complete it any more.
FailedIsBilled == \A r \in Requests : idem[r] = "failed" => usage[r] # "none"

\* What client p was told, or is about to be told, still holds of the rows.
PollOK(p) ==
    LET a == poll[p].answer
    IN  /\ poll[p].at = "usage" =>
              a.status = "complete" /\ a.output /\ usage[Asks[p]] = "ok"
        /\ poll[p].at = "idle" /\ a.status = "complete" => a.output /\ a.metrics = "ok"
        /\ a.status = "failed" => idem[Asks[p]] = "failed"

\* The inductive invariant of the composition.
StatusInv ==
    /\ IInv
    /\ FailedIsBilled
    /\ PollTypeOK
    /\ \A p \in Pollers : PollOK(p)

-----------------------------------------------------------------------------
(* The workers' steps.                                                     *)

\* A failed request stays failed, a delivered one stays billed.
LastWords ==
    /\ FailedIsBilled'
    /\ \A r \in Requests : idem[r] = "failed" => idem'[r] = "failed"
    /\ \A r \in Requests : usage[r] = "ok" => usage'[r] = "ok"

\* Whatever workers and gateway do, the last words of a request stay.
LEMMA WorkersKeepLastWords ==
    ASSUME IInv, FailedIsBilled, Next
    PROVE  LastWords
<1> USE DEF LastWords, FailedIsBilled
<1>0. TypeOK
    BY DEF IInv
<1>1. ASSUME NEW e \in Entries, Submit(e) PROVE LastWords
    BY <1>0, <1>1 DEF Submit, TypeOK
<1>2. ASSUME NEW w \in Workers,
             \/ Step(w) \/ Raises(w) \/ Crash(w)
             \/ \E e \in Entries : Sweep(w, e)
      PROVE  LastWords
  <2>1. StageOK(w) /\ (pc[w] \in Handling => Req(w) \in Requests)
    BY ConstantsAssumption DEF IInv, TypeOK, Req
  <2>2. CASE \/ Tick(w) \/ ReadAttempt(w) \/ ClearResults(w) \/ Resolve(w)
             \/ PublishChunk(w) \/ EngineDone(w) \/ Retry(w) \/ PublishError(w)
             \/ Restart(w) \/ Raises(w) \/ Crash(w)
             \/ \E e \in Entries : Sweep(w, e)
    BY <1>0, <2>1, <2>2, QuietStep DEF Quiet
  <2>3. CASE Commit(w)
    <3>1. Req(w) \in Requests
      BY <2>1, <2>3 DEF Commit, Handling
    <3> QED BY <1>0, <2>3, <3>1 DEF Commit, SetStatus, dbVars, TypeOK
  <2>4. CASE FailRequest(w)
    <3>1. Req(w) \in Requests
      BY <2>1, <2>4 DEF FailRequest, Handling
    <3> QED BY <1>0, <2>4, <3>1 DEF FailRequest, SetStatus, TypeOK
  <2>5. CASE Archive(w) \/ PublishFinal(w) \/ SendToDlq(w) \/ Ack(w)
    BY <2>5 DEF Archive, PublishFinal, SendToDlq, Ack, dbVars
  <2> QED BY <1>2, <2>2, <2>3, <2>4, <2>5 DEF Step
<1> QED BY <1>1, <1>2 DEF Next

-----------------------------------------------------------------------------
(* The polls.                                                              *)

\* Both queries of a poll answer with what the rows hold.
LEMMA PollStep ==
    ASSUME StatusInv, NEW p \in Pollers, ReadRow(p) \/ FindUsageRow(p)
    PROVE  PollTypeOK' /\ \A q \in Pollers : PollOK(q)'
<1> USE DEF StatusInv
<1> DEFINE r == Asks[p]
<1>0. /\ r \in Requests /\ TypeOK
      /\ poll[p] \in [at : {"idle", "usage"}, answer : TTSJobStatusResponse]
      /\ NoResponse \in TTSJobStatusResponse
    BY PollersAssumption DEF IInv, PollTypeOK, NoResponse, TTSJobStatusResponse
<1>1. UNCHANGED vars /\ \A q \in Pollers \ {p} : poll'[q] = poll[q]
    BY DEF ReadRow, FindUsageRow, Answer, PollTypeOK
<1>2. UNCHANGED <<idem, usage>>
    BY <1>1 DEF vars
<1>3. poll' = [poll EXCEPT ![p] = poll'[p]]
    BY DEF ReadRow, FindUsageRow, Answer, PollTypeOK
<1>4. /\ poll'[p] \in [at : {"idle", "usage"}, answer : TTSJobStatusResponse]
      /\ PollOK(p)'
  <2>1. CASE ReadRow(p)
    <3> DEFINE a == [NoResponse EXCEPT !.status = JobStatusOf[idem[r]]]
    <3>1. /\ a \in TTSJobStatusResponse
          /\ a.status = JobStatusOf[idem[r]]
      <4>1. idem[r] \in {"absent", "processing", "complete", "failed"}
        BY <1>0 DEF TypeOK
      <4>2. JobStatusOf[idem[r]] \in {"not_found", "queued", "complete", "failed"}
        BY <4>1 DEF JobStatusOf
      <4> QED BY <1>0, <4>2 DEF TTSJobStatusResponse
    <3>2. CASE idem[r] # "complete"
      <4>1. poll'[p] = [at |-> "idle", answer |-> a]
        BY <2>1, <3>2 DEF ReadRow, Answer, PollTypeOK
      <4>2. a.status # "complete" /\ (a.status = "failed" => idem[r] = "failed")
        BY <1>0, <3>1, <3>2 DEF JobStatusOf, TypeOK
      <4> HIDE DEF a
      <4> QED BY <1>2, <3>1, <4>1, <4>2 DEF PollOK
    <3>3. CASE idem[r] = "complete"
      <4> DEFINE b == [a EXCEPT !.output = audio_url(r)]
      <4>1. poll'[p] = [at |-> "usage", answer |-> b]
        BY <2>1, <3>3 DEF ReadRow, PollTypeOK
      <4>2. audio_url(r) /\ usage[r] = "ok"
        BY <1>0, <3>3 DEF IInv, CompleteIsDurable, audio_url
      <4>3. a.status = "complete"
        BY <3>1, <3>3 DEF JobStatusOf
      <4> HIDE DEF a
      <4>4. b \in TTSJobStatusResponse /\ b.status = "complete" /\ b.output
        BY <3>1, <4>2, <4>3 DEF TTSJobStatusResponse
      <4> HIDE DEF b
      <4> QED BY <1>2, <4>1, <4>2, <4>4 DEF PollOK
    <3> QED BY <3>2, <3>3
  <2>2. CASE FindUsageRow(p)
    <3> DEFINE a == [poll[p].answer EXCEPT !.metrics = usage[r]]
    <3>1. poll'[p] = [at |-> "idle", answer |-> a]
      BY <2>2 DEF FindUsageRow, Answer, PollTypeOK
    <3>2. PollOK(p) /\ poll[p].at = "usage" /\ usage[r] \in {"none", "ok", "error"}
      BY <1>0, <2>2 DEF FindUsageRow, TypeOK
    <3>3. /\ a \in TTSJobStatusResponse
          /\ a.status = "complete" /\ a.output /\ a.metrics = "ok"
      BY <1>0, <3>2 DEF PollOK, TTSJobStatusResponse
    <3> HIDE DEF a
    <3> QED BY <3>1, <3>3 DEF PollOK
  <2> QED BY <2>1, <2>2
<1>5. PollTypeOK'
    BY <1>3, <1>4 DEF PollTypeOK
<1> QED BY <1>1, <1>2, <1>4, <1>5 DEF PollOK

\* The invariant holds at first and every step keeps it.
LEMMA StatusInductive ==
    /\ StatusInit => StatusInv
    /\ StatusInv /\ [StatusNext]_statusVars => StatusInv'
<1>1. StatusInit => StatusInv
  <2>1. NoResponse \in TTSJobStatusResponse /\ NoResponse.status = "not_found"
    BY DEF NoResponse, TTSJobStatusResponse
  <2> QED
    BY <2>1, Inductive
    DEF StatusInit, StatusInv, Init, FailedIsBilled, PollTypeOK, PollOK
<1>2. StatusInv /\ [StatusNext]_statusVars => StatusInv'
  <2> SUFFICES ASSUME StatusInv, [StatusNext]_statusVars PROVE StatusInv'
    OBVIOUS
  <2>1. CASE UNCHANGED statusVars
    <3>1. IInv'
      BY <2>1, Inductive DEF StatusInv, statusVars
    <3> QED
      BY <2>1, <3>1 DEF statusVars, vars, StatusInv, FailedIsBilled, PollTypeOK, PollOK
  <2>2. CASE Next /\ UNCHANGED poll
    <3>1. IInv' /\ LastWords
      BY <2>2, Inductive, WorkersKeepLastWords DEF StatusInv
    <3> QED
      BY <2>2, <3>1, PollersAssumption DEF LastWords, StatusInv, PollTypeOK, PollOK
  <2>3. CASE \E p \in Pollers : ReadRow(p) \/ FindUsageRow(p)
    <3>1. UNCHANGED vars
      BY <2>3 DEF ReadRow, FindUsageRow
    <3>2. IInv' /\ FailedIsBilled'
      BY <3>1, Inductive DEF StatusInv, FailedIsBilled, vars
    <3> QED
      BY <2>3, <3>2, PollStep DEF StatusInv
  <2> QED BY <2>1, <2>2, <2>3 DEF StatusNext
<1> QED BY <1>1, <1>2

-----------------------------------------------------------------------------
(* The theorems.                                                           *)

\* A client told "complete" has the audio and the metrics with it (get_tts_job).
THEOREM AnswersWhole == StatusSpec => []StatusSound
<1>1. StatusInv => StatusSound
    BY DEF StatusInv, StatusSound, PollOK, CompleteAnswerIsWhole
<1> QED BY <1>1, StatusInductive, PTL DEF StatusSpec

\* A client told "failed" is never told anything else (get_tts_job).
THEOREM FailureIsFinal == StatusSpec => FailedStaysFailed
<1> DEFINE Stays == \A p \in Pollers :
               poll[p].answer.status = "failed" => poll'[p].answer.status = "failed"
<1>1. StatusInv /\ [StatusNext]_statusVars => [Stays]_statusVars
  <2> SUFFICES ASSUME StatusInv, StatusNext, NEW p \in Pollers,
                      poll[p].answer.status = "failed"
               PROVE  poll'[p].answer.status = "failed"
    OBVIOUS
  <2>1. idem[Asks[p]] = "failed" /\ poll[p].at = "idle"
    BY DEF StatusInv, PollOK, PollTypeOK
  <2>2. CASE poll'[p] = poll[p]
    BY <2>2
  <2>3. CASE ReadRow(p)
    <3>1. poll'[p].answer = [NoResponse EXCEPT !.status = JobStatusOf["failed"]]
      BY <2>1, <2>3 DEF ReadRow, Answer, StatusInv, PollTypeOK
    <3> QED BY <3>1 DEF NoResponse, JobStatusOf
  <2> QED
    BY <2>1, <2>2, <2>3 DEF StatusNext, ReadRow, FindUsageRow, Answer, StatusInv, PollTypeOK
<1> QED BY <1>1, StatusInductive, PTL DEF StatusSpec, FailedStaysFailed

\* Polling changes nothing: the worker system keeps its contract beside it.
THEOREM StatusRefines == StatusSpec => ContractSpec
<1>1. StatusSpec => Spec
  <2>1. StatusInit => Init
    BY DEF StatusInit
  <2>2. [StatusNext]_statusVars => [Next]_vars
    BY DEF StatusNext, ReadRow, FindUsageRow, statusVars
  <2> QED BY <2>1, <2>2, PTL DEF StatusSpec, Spec
<1> QED BY <1>1, Refinement
=============================================================================
