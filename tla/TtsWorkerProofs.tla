--------------------------- MODULE TtsWorkerProofs ---------------------------
(***************************************************************************)
(* Proofs about TtsWorker, for any number of workers, entries and requests *)
(* and any bound on faults and claims.                                     *)
(***************************************************************************)
EXTENDS TtsWorker, TLAPS

-----------------------------------------------------------------------------
(* Types.                                                                  *)

\* XADDing a result keeps every result stream a sequence of results.
LEMMA XaddResultType ==
    ASSUME TypeOK, NEW w \in Workers, pc[w] \in Handling,
           NEW k \in {"chunk", "final", "error"}, NEW n \in Nat,
           XaddResult(w, k, n)
    PROVE  results' \in [Requests -> Seq(Result)]
<1> DEFINE c == [kind |-> k, seq |-> n, attempt |-> task[w].attempt,
                 src |-> <<task[w].entry, task[w].take>>]
<1>1. task[w].entry \in Entries /\ task[w].attempt \in Nat /\ task[w].take \in Nat
    BY DEF TypeOK, Task
<1>2. c \in Result
    BY <1>1 DEF Result
<1>3. Req(w) \in Requests
    BY <1>1, ConstantsAssumption DEF Req
<1>4. Append(results[Req(w)], c) \in Seq(Result)
    <2>1. results[Req(w)] \in Seq(Result)
        BY <1>3 DEF TypeOK
    <2> HIDE DEF c
    <2> QED BY <2>1, <1>2
<1>5. results' = [results EXCEPT ![Req(w)] = Append(results[Req(w)], c)]
    BY DEF XaddResult
<1> HIDE DEF c
<1> QED BY <1>3, <1>4, <1>5 DEF TypeOK

\* A worker that drops its entry is in no handler.
LEMMA LeaveType ==
    ASSUME TypeOK, NEW w \in Workers, NEW l \in {"idle", "down"}, Leave(w, l)
    PROVE  /\ pc' \in [Workers -> Handling \cup {"idle", "down"}]
           /\ task' \in [Workers -> Task]
           /\ \A v \in Workers : pc'[v] \in Handling => task'[v].entry \in Entries
<1>1. NoTask \in Task
    BY DEF NoTask, Task, Kinds
<1>2. l \notin Handling
    BY DEF Handling
<1> QED BY <1>1, <1>2 DEF TypeOK, Leave

\* A worker that keeps its entry may go to any await of the handler.
LEMMA GotoType ==
    ASSUME TypeOK, NEW w \in Workers, NEW l \in Handling, pc[w] \in Handling,
           Goto(w, l)
    PROVE  /\ pc' \in [Workers -> Handling \cup {"idle", "down"}]
           /\ task' \in [Workers -> Task]
           /\ \A v \in Workers : pc'[v] \in Handling => task'[v].entry \in Entries
BY DEF TypeOK, Goto

\* The fields a handler changes in its task.
LEMMA FieldType ==
    ASSUME NEW t \in Task, NEW n \in Nat, NEW k \in Kinds
    PROVE  /\ [t EXCEPT !.attempt = n] \in Task
           /\ [t EXCEPT !.attempt = n].entry = t.entry
           /\ [t EXCEPT !.seq = n] \in Task
           /\ [t EXCEPT !.seq = n].entry = t.entry
           /\ [t EXCEPT !.kind = k] \in Task
           /\ [t EXCEPT !.kind = k].entry = t.entry
           /\ [t EXCEPT !.kind = k, !.attempt = n] \in Task
           /\ [t EXCEPT !.kind = k, !.attempt = n].entry = t.entry
BY DEF Task

\* A handler that goes on with the same entry in a changed task is well typed.
LEMMA UpdateType ==
    ASSUME TypeOK, NEW w \in Workers, NEW l \in Handling, pc[w] \in Handling,
           NEW t \in Task, t.entry = task[w].entry,
           pc' = [pc EXCEPT ![w] = l], task' = [task EXCEPT ![w] = t]
    PROVE  /\ pc' \in [Workers -> Handling \cup {"idle", "down"}]
           /\ task' \in [Workers -> Task]
           /\ \A v \in Workers : pc'[v] \in Handling => task'[v].entry \in Entries
BY DEF TypeOK

\* An entry taken from the stream or claimed is well typed.
LEMMA TakeType ==
    ASSUME TypeOK, NEW w \in Workers, NEW e \in Entries,
           NEW via \in {"tick", "sweep"}, Take(w, e, via)
    PROVE  /\ pel' \subseteq Entries
           /\ deliveries' \in [Entries -> Nat]
           /\ pc' \in [Workers -> Handling \cup {"idle", "down"}]
           /\ task' \in [Workers -> Task]
           /\ \A v \in Workers : pc'[v] \in Handling => task'[v].entry \in Entries
<1> DEFINE t == [entry |-> e, via |-> via, take |-> deliveries[e] + 1,
                 attempt |-> 0, seq |-> 0,
                 kind |-> IF e \in Malformed THEN "malformed" ELSE "done"]
<1>1. deliveries[e] + 1 \in Nat
    BY DEF TypeOK
<1>2. t \in Task /\ t.entry = e
    BY <1>1 DEF Task, Kinds
<1>3. task' = [task EXCEPT ![w] = t]
    BY DEF Take
<1>4. pel' \subseteq Entries /\ deliveries' \in [Entries -> Nat]
    BY <1>1 DEF Take, TypeOK
<1> HIDE DEF t
<1>5. pc' \in [Workers -> Handling \cup {"idle", "down"}]
    BY DEF Take, TypeOK, Handling
<1>6. \A v \in Workers : pc'[v] \in Handling => task'[v].entry \in Entries
    BY <1>2, <1>3 DEF Take, TypeOK
<1> QED BY <1>2, <1>3, <1>4, <1>5, <1>6 DEF TypeOK

\* Every step of one worker, on its own or by a fault, keeps the types.
LEMMA StepType ==
    ASSUME TypeOK, NEW w \in Workers,
           \/ Step(w) \/ Raises(w) \/ Crash(w)
           \/ \E e \in Entries : Sweep(w, e)
    PROVE  TypeOK'
<1> USE DEF redisVars, jobVars, dbVars, boundVars
<1>0. /\ task[w].attempt \in Nat /\ task[w].seq \in Nat /\ task[w].take \in Nat
      /\ task[w].entry \in Entries \cup {NoEntry}
      /\ \A e \in Entries : DeliveryCount(e) \in Nat /\ Rid[e] \in Requests
      /\ pc[w] \in Handling => Req(w) \in Requests
    BY ConstantsAssumption DEF TypeOK, Task, DeliveryCount, Req
<1>1. CASE Tick(w)
    <2>1. Head(queue) \in Entries /\ Tail(queue) \in Seq(Entries)
        BY <1>1 DEF Tick, TypeOK
    <2> QED BY <1>1, <2>1, TakeType DEF Tick, TypeOK
<1>2. CASE ReadAttempt(w)
    <2>1. pc[w] \in Handling /\ task[w] \in Task /\ task[w].entry \in Entries
        BY <1>2 DEF ReadAttempt, TypeOK, Handling
    <2>2. PICK n \in Nat : task' = [task EXCEPT ![w].attempt = n]
        BY <1>0, <1>2, <2>1 DEF ReadAttempt
    <2>3. task' = [task EXCEPT ![w] = [task[w] EXCEPT !.attempt = n]]
        BY <2>2
    <2>4. /\ [task[w] EXCEPT !.attempt = n] \in Task
          /\ [task[w] EXCEPT !.attempt = n].entry = task[w].entry
        BY <2>1, FieldType DEF Kinds
    <2>5. /\ pc' \in [Workers -> Handling \cup {"idle", "down"}]
          /\ task' \in [Workers -> Task]
          /\ \A v \in Workers : pc'[v] \in Handling => task'[v].entry \in Entries
        BY <1>2, <2>1, <2>3, <2>4, UpdateType DEF ReadAttempt, Handling
    <2> QED BY <1>2, <2>5 DEF ReadAttempt, TypeOK, Fault
<1>3. CASE ClearResults(w)
    <2>1. results' \in [Requests -> Seq(Result)]
        BY <1>0, <1>3 DEF ClearResults, TypeOK, Handling
    <2> QED BY <1>3, <2>1, GotoType DEF ClearResults, TypeOK, Handling
<1>4. CASE Resolve(w)
    <2>1. CASE Goto(w, "engine")
        BY <1>4, <2>1, GotoType DEF Resolve, TypeOK, Handling
    <2>2. CASE task' = [task EXCEPT ![w].kind = "poison"]
               /\ pc' = [pc EXCEPT ![w] = "error"]
        <3>1. pc[w] \in Handling /\ task[w] \in Task
            BY <1>4 DEF Resolve, TypeOK, Handling
        <3>2. task' = [task EXCEPT ![w] = [task[w] EXCEPT !.kind = "poison"]]
            BY <2>2
        <3>3. /\ [task[w] EXCEPT !.kind = "poison"] \in Task
              /\ [task[w] EXCEPT !.kind = "poison"].entry = task[w].entry
            BY <3>1, FieldType DEF Kinds
        <3>4. /\ pc' \in [Workers -> Handling \cup {"idle", "down"}]
              /\ task' \in [Workers -> Task]
              /\ \A v \in Workers : pc'[v] \in Handling => task'[v].entry \in Entries
            BY <2>2, <3>1, <3>2, <3>3, UpdateType DEF Handling
        <3> QED BY <1>4, <3>4 DEF Resolve, TypeOK
    <2> QED BY <1>4, <2>1, <2>2 DEF Resolve
<1>5. CASE PublishChunk(w)
    <2>1. results' \in [Requests -> Seq(Result)]
        BY <1>0, <1>5, XaddResultType DEF PublishChunk, Handling
    <2>2. CASE Goto(w, "retry") /\ Fault
        BY <1>5, <2>1, <2>2, GotoType DEF PublishChunk, TypeOK, Fault, Handling
    <2>3. CASE task' = [task EXCEPT ![w].seq = @ + 1] /\ UNCHANGED <<pc, faults>>
        <3>1. pc[w] \in Handling /\ task[w] \in Task /\ task[w].seq + 1 \in Nat
            BY <1>0, <1>5 DEF PublishChunk, TypeOK, Handling
        <3>2. task' = [task EXCEPT ![w] = [task[w] EXCEPT !.seq = task[w].seq + 1]]
            BY <2>3
        <3>3. /\ [task[w] EXCEPT !.seq = task[w].seq + 1] \in Task
              /\ [task[w] EXCEPT !.seq = task[w].seq + 1].entry = task[w].entry
            BY <3>1, FieldType DEF Kinds
        <3>4. pc' = [pc EXCEPT ![w] = pc[w]]
            BY <2>3 DEF TypeOK
        <3>5. /\ pc' \in [Workers -> Handling \cup {"idle", "down"}]
              /\ task' \in [Workers -> Task]
              /\ \A v \in Workers : pc'[v] \in Handling => task'[v].entry \in Entries
            BY <3>1, <3>2, <3>3, <3>4, UpdateType
        <3> QED BY <1>5, <2>1, <2>3, <3>5 DEF PublishChunk, TypeOK
    <2> QED BY <1>5, <2>2, <2>3 DEF PublishChunk
<1>6. CASE EngineDone(w)
    <2>1. CASE Goto(w, "archive")
        BY <1>6, <2>1, GotoType DEF EngineDone, TypeOK, Handling
    <2>2. CASE task' = [task EXCEPT ![w].kind = "poison"]
               /\ pc' = [pc EXCEPT ![w] = "error"]
        <3>1. pc[w] \in Handling /\ task[w] \in Task
            BY <1>6 DEF EngineDone, TypeOK, Handling
        <3>2. task' = [task EXCEPT ![w] = [task[w] EXCEPT !.kind = "poison"]]
            BY <2>2
        <3>3. /\ [task[w] EXCEPT !.kind = "poison"] \in Task
              /\ [task[w] EXCEPT !.kind = "poison"].entry = task[w].entry
            BY <3>1, FieldType DEF Kinds
        <3>4. /\ pc' \in [Workers -> Handling \cup {"idle", "down"}]
              /\ task' \in [Workers -> Task]
              /\ \A v \in Workers : pc'[v] \in Handling => task'[v].entry \in Entries
            BY <2>2, <3>1, <3>2, <3>3, UpdateType DEF Handling
        <3> QED BY <1>6, <3>4 DEF EngineDone, TypeOK
    <2> QED BY <1>6, <2>1, <2>2 DEF EngineDone
<1>7. CASE Archive(w)
    BY <1>0, <1>7, GotoType DEF Archive, TypeOK, Handling
<1>8. CASE Commit(w)
    BY <1>0, <1>8, GotoType DEF Commit, TypeOK, Handling, SetStatus
<1>9. CASE PublishFinal(w)
    <2>1. results' \in [Requests -> Seq(Result)]
        BY <1>0, <1>9, XaddResultType DEF PublishFinal, Handling
    <2> QED BY <1>0, <1>9, <2>1, GotoType, SMTT(30)
            DEF PublishFinal, TypeOK, Fault, Handling
<1>10. CASE Retry(w)
    <2>1. pc[w] \in Handling /\ task[w].entry \in Entries
        BY <1>10 DEF Retry, TypeOK, Handling
    <2>2. faults' \in Nat
        BY <1>10 DEF Retry, Fault, TypeOK
    <2>3. CASE Leave(w, "idle")
        BY <1>10, <2>2, <2>3, LeaveType DEF Retry, TypeOK
    <2>4. ASSUME NEW n \in Nat, pc' = [pc EXCEPT ![w] = "error"],
                 task' = [task EXCEPT ![w].kind = "exhausted", ![w].attempt = n]
          PROVE  TypeOK'
        <3> DEFINE t == [task[w] EXCEPT !.kind = "exhausted", !.attempt = n]
        <3>1. task' = [task EXCEPT ![w] = t]
            BY <2>4
        <3>2. t \in Task /\ t.entry = task[w].entry
            BY FieldType DEF TypeOK, Kinds
        <3> HIDE DEF t
        <3>3. /\ pc' \in [Workers -> Handling \cup {"idle", "down"}]
              /\ task' \in [Workers -> Task]
              /\ \A v \in Workers : pc'[v] \in Handling => task'[v].entry \in Entries
            BY <2>1, <2>4, <3>1, <3>2, UpdateType DEF Handling
        <3> QED BY <1>10, <2>2, <3>3 DEF Retry, TypeOK
    <2> QED BY <1>0, <1>10, <2>1, <2>3, <2>4 DEF Retry
<1>11. CASE PublishError(w)
    <2>1. results' \in [Requests -> Seq(Result)]
        BY <1>0, <1>11, XaddResultType DEF PublishError, Handling
    <2>2. CASE Goto(w, "fail") \/ Goto(w, "retry")
        BY <1>11, <2>1, <2>2, GotoType DEF PublishError, TypeOK, Fault, Handling
    <2>3. CASE Leave(w, "idle") \/ Leave(w, "down")
        BY <1>11, <2>1, <2>3, LeaveType DEF PublishError, TypeOK, Fault
    <2> QED BY <1>11, <2>2, <2>3 DEF PublishError, RaiseFrom, Escape
<1>12. CASE FailRequest(w)
    BY <1>0, <1>12, GotoType DEF FailRequest, TypeOK, Handling, SetStatus
<1>13. CASE SendToDlq(w)
    <2>1. task[w].entry \in Entries
        BY <1>13 DEF SendToDlq, TypeOK, Handling
    <2>2. CASE Goto(w, "ack")
        BY <1>13, <2>1, <2>2, GotoType DEF SendToDlq, TypeOK, Fault, Handling
    <2>3. CASE Leave(w, "idle") \/ Leave(w, "down")
        BY <1>13, <2>1, <2>3, LeaveType DEF SendToDlq, TypeOK, Fault
    <2> QED BY <1>13, <2>2, <2>3 DEF SendToDlq, Escape
<1>14. CASE Ack(w)
    <2>1. task[w].entry \in Entries
        BY <1>14 DEF Ack, TypeOK, Handling
    <2>2. Leave(w, "idle") \/ Leave(w, "down")
        BY <1>14 DEF Ack, Escape
    <2> QED BY <1>14, <2>1, <2>2, LeaveType DEF Ack, TypeOK, Fault
<1>15. CASE Restart(w)
    BY <1>15 DEF Restart, Goto, TypeOK, Handling
<1>16. CASE Raises(w)
    <2>1. CASE Goto(w, "retry")
        BY <1>16, <2>1, GotoType DEF Raises, TypeOK, Fault, Handling
    <2>2. CASE Leave(w, "idle") \/ Leave(w, "down")
        BY <1>16, <2>2, LeaveType DEF Raises, TypeOK, Fault
    <2> QED BY <1>16, <2>1, <2>2 DEF Raises, RaiseFrom, Escape
<1>17. CASE Crash(w)
    BY <1>17, LeaveType DEF Crash, TypeOK, Fault
<1>18. ASSUME NEW e \in Entries, Sweep(w, e) PROVE TypeOK'
    BY <1>18, TakeType DEF Sweep, TypeOK
<1> QED BY <1>1, <1>2, <1>3, <1>4, <1>5, <1>6, <1>7, <1>8, <1>9, <1>10, <1>11,
           <1>12, <1>13, <1>14, <1>15, <1>16, <1>17, <1>18 DEF Step

\* So does a submission.
LEMMA SubmitType ==
    ASSUME TypeOK, NEW e \in Entries, Submit(e)
    PROVE  TypeOK'
<1>1. queue' \in Seq(Entries)
    BY DEF Submit, TypeOK
<1>2. idem' \in [Requests -> {"absent", "processing", "complete", "failed"}]
    BY ConstantsAssumption DEF Submit, TypeOK
<1> QED BY <1>1, <1>2 DEF Submit, TypeOK, boundVars

\* Type correctness of the worker.
THEOREM TypeCorrect == Spec => []TypeOK
<1>1. Init => TypeOK
    <2>1. NoTask \in Task
        BY DEF NoTask, Task, Kinds
    <2> QED BY <2>1 DEF Init, TypeOK, Handling
<1>2. TypeOK /\ [Next]_vars => TypeOK'
    <2>1. CASE UNCHANGED vars
        BY <2>1 DEF vars, TypeOK
    <2> QED BY <2>1, StepType, SubmitType DEF Next
<1> QED BY <1>1, <1>2, PTL DEF Spec

-----------------------------------------------------------------------------
(* The inductive invariant.                                                *)

\* What is durable stays: an archived artifact, a buried entry, a usage row.
Grows ==
    /\ artifacts \subseteq artifacts'
    /\ dlq \subseteq dlq'
    /\ \A r \in Requests : usage[r] # "none" => usage'[r] = usage[r]

\* The rows, the artifacts, the DLQ and the acknowledgements stand still.
Quiet == UNCHANGED <<acked, dlq, idem, usage, artifacts, announced>>

\* The part of the invariant that is about the shared state.
Shared ==
    /\ \A r \in Requests : usage[r] = "ok" => r \in artifacts
    /\ CompleteIsDurable
    /\ FinalAfterCommit
    /\ AckedHasOutcome

\* What a worker relies on is not withdrawn by a step of another worker.
LEMMA OtherStage ==
    ASSUME TypeOK, NEW v \in Workers, StageOK(v), Grows,
           pc'[v] = pc[v], task'[v] = task[v]
    PROVE  StageOK(v)'
<1>1. pc[v] \in Handling => Rid[task[v].entry] \in Requests
    BY ConstantsAssumption DEF TypeOK
<1> QED BY <1>1 DEF StageOK, Grows

\* A worker outside the handler relies on nothing.
LEMMA NoStage ==
    ASSUME NEW w \in Workers, pc'[w] \notin Handling
    PROVE  StageOK(w)'
BY DEF StageOK

\* A worker that goes to an await with no requirement of its own.
LEMMA FreeStage ==
    ASSUME NEW w \in Workers, StageOK(w), pc[w] \in Handling \ {"dlq", "ack"},
           pc'[w] \notin {"commit", "final", "dlq", "ack"},
           task'[w].entry = task[w].entry, task'[w].kind # "malformed"
    PROVE  StageOK(w)'
BY DEF StageOK

\* Before the DLQ, a handler's task is not of the malformed kind.
LEMMA NotMalformed ==
    ASSUME NEW w \in Workers, StageOK(w), pc[w] \in Handling \ {"dlq", "ack"}
    PROVE  task[w].kind # "malformed" /\ task[w].entry \notin Malformed
BY DEF StageOK

\* A quiet step keeps the shared part and is monotone.
LEMMA QuietShared ==
    ASSUME Shared, Quiet
    PROVE  Shared' /\ Grows
BY DEF Shared, Quiet, Grows, CompleteIsDurable, FinalAfterCommit, AckedHasOutcome

\* Taking an entry: a malformed one goes straight to the DLQ.
LEMMA TakeStage ==
    ASSUME TypeOK, NEW w \in Workers, NEW e \in Entries, NEW via,
           Take(w, e, via)
    PROVE  StageOK(w)'
<1>1. /\ pc'[w] = IF e \in Malformed THEN "dlq" ELSE "attempt"
      /\ task'[w].entry = e
      /\ task'[w].kind = IF e \in Malformed THEN "malformed" ELSE "done"
    BY DEF Take, TypeOK
<1> QED BY <1>1 DEF StageOK

\* Leaving the handler.
LEMMA LeaveStage ==
    ASSUME TypeOK, NEW w \in Workers, Leave(w, "idle") \/ Leave(w, "down")
    PROVE  StageOK(w)'
<1>1. pc'[w] \in {"idle", "down"}
    BY DEF Leave, TypeOK
<1> QED BY <1>1, NoStage DEF Handling

\* No step touches the program counter or the task of another worker.
LEMMA OnlyOneMoves ==
    ASSUME TypeOK, NEW w \in Workers, NEW v \in Workers \ {w},
           \/ Step(w) \/ Raises(w) \/ Crash(w)
           \/ \E e \in Entries : Sweep(w, e)
    PROVE  pc'[v] = pc[v] /\ task'[v] = task[v]
<1> USE DEF TypeOK, Goto, Leave, Escape, RaiseFrom
<1>1. CASE Tick(w) \/ (\E e \in Entries : Sweep(w, e))
    BY <1>1 DEF Tick, Sweep, Take
<1>2. CASE ReadAttempt(w) \/ ClearResults(w) \/ Resolve(w) \/ PublishChunk(w)
    BY <1>2 DEF ReadAttempt, ClearResults, Resolve, PublishChunk
<1>3. CASE EngineDone(w) \/ Archive(w) \/ Commit(w) \/ PublishFinal(w)
    BY <1>3 DEF EngineDone, Archive, Commit, PublishFinal
<1>4. CASE Retry(w)
    BY <1>4 DEF Retry
<1>5. CASE PublishError(w) \/ FailRequest(w) \/ SendToDlq(w) \/ Ack(w)
    BY <1>5 DEF PublishError, FailRequest, SendToDlq, Ack
<1>6. CASE Restart(w) \/ Raises(w) \/ Crash(w)
    BY <1>6 DEF Restart, Raises, Crash
<1> QED BY <1>1, <1>2, <1>3, <1>4, <1>5, <1>6 DEF Step

\* The steps that change nothing durable, and what they leave their worker with.
LEMMA QuietStep ==
    ASSUME TypeOK, NEW w \in Workers, StageOK(w),
           \/ Tick(w) \/ ReadAttempt(w) \/ ClearResults(w) \/ Resolve(w)
           \/ PublishChunk(w) \/ EngineDone(w) \/ Retry(w) \/ PublishError(w)
           \/ Restart(w) \/ Raises(w) \/ Crash(w)
           \/ \E e \in Entries : Sweep(w, e)
    PROVE  Quiet /\ StageOK(w)'
<1> USE DEF redisVars, jobVars, dbVars, boundVars, Quiet
<1>0. task[w] \in Task
    BY DEF TypeOK
<1>1. CASE Tick(w)
    <2>1. Head(queue) \in Entries
        BY <1>1 DEF Tick, TypeOK
    <2> QED BY <1>1, <2>1, TakeStage DEF Tick
<1>2. ASSUME NEW e \in Entries, Sweep(w, e) PROVE Quiet /\ StageOK(w)'
    BY <1>2, TakeStage DEF Sweep
<1>3. CASE ReadAttempt(w)
    <2>1. pc[w] \in Handling \ {"dlq", "ack"} /\ pc'[w] = "clear"
        BY <1>3 DEF ReadAttempt, Handling, TypeOK
    <2>2. task'[w].entry = task[w].entry /\ task'[w].kind = task[w].kind
        BY <1>0, <1>3 DEF ReadAttempt, TypeOK, Task
    <2> QED BY <1>3, <2>1, <2>2, NotMalformed, FreeStage DEF ReadAttempt
<1>4. CASE ClearResults(w)
    <2>1. pc[w] \in Handling \ {"dlq", "ack"} /\ pc'[w] = "resolve"
        BY <1>4 DEF ClearResults, Goto, Handling, TypeOK
    <2> QED BY <1>4, <2>1, NotMalformed, FreeStage DEF ClearResults, Goto
<1>5. CASE Resolve(w)
    <2>1. pc[w] \in Handling \ {"dlq", "ack"} /\ pc'[w] \in {"engine", "error"}
        BY <1>5 DEF Resolve, Goto, Handling, TypeOK
    <2>2. task'[w].entry = task[w].entry /\ task'[w].kind \in {task[w].kind, "poison"}
        BY <1>0, <1>5 DEF Resolve, Goto, TypeOK, Task
    <2> QED BY <1>5, <2>1, <2>2, NotMalformed, FreeStage DEF Resolve
<1>6. CASE PublishChunk(w)
    <2>1. pc[w] \in Handling \ {"dlq", "ack"} /\ pc'[w] \in {"engine", "retry"}
        BY <1>6 DEF PublishChunk, Goto, Handling, TypeOK
    <2>2. task'[w].entry = task[w].entry /\ task'[w].kind = task[w].kind
        BY <1>0, <1>6 DEF PublishChunk, Goto, TypeOK, Task
    <2> QED BY <1>6, <2>1, <2>2, NotMalformed, FreeStage DEF PublishChunk
<1>7. CASE EngineDone(w)
    <2>1. pc[w] \in Handling \ {"dlq", "ack"} /\ pc'[w] \in {"archive", "error"}
        BY <1>7 DEF EngineDone, Goto, Handling, TypeOK
    <2>2. task'[w].entry = task[w].entry /\ task'[w].kind \in {task[w].kind, "poison"}
        BY <1>0, <1>7 DEF EngineDone, Goto, TypeOK, Task
    <2> QED BY <1>7, <2>1, <2>2, NotMalformed, FreeStage DEF EngineDone
<1>8. CASE Retry(w)
    <2>1. Quiet
        BY <1>8 DEF Retry
    <2>2. CASE Leave(w, "idle")
        BY <2>1, <2>2, LeaveStage
    <2>3. ASSUME NEW n, pc' = [pc EXCEPT ![w] = "error"],
                 task' = [task EXCEPT ![w].kind = "exhausted", ![w].attempt = n]
          PROVE  StageOK(w)'
        <3>1. pc[w] \in Handling \ {"dlq", "ack"} /\ pc'[w] = "error"
            BY <1>8, <2>3 DEF Retry, Handling, TypeOK
        <3>2. task'[w].entry = task[w].entry /\ task'[w].kind = "exhausted"
            BY <1>0, <2>3 DEF TypeOK, Task
        <3> QED BY <3>1, <3>2, FreeStage
    <2> QED BY <1>8, <2>1, <2>2, <2>3 DEF Retry
<1>9. CASE PublishError(w)
    <2>1. pc[w] \in Handling \ {"dlq", "ack"}
        BY <1>9 DEF PublishError, Handling
    <2>2. CASE Goto(w, "fail") \/ Goto(w, "retry")
        <3>1. pc'[w] \in {"fail", "retry"} /\ task' = task
            BY <2>2 DEF Goto, TypeOK
        <3> QED BY <1>9, <2>1, <3>1, NotMalformed, FreeStage DEF PublishError
    <2>3. CASE Leave(w, "idle") \/ Leave(w, "down")
        BY <1>9, <2>3, LeaveStage DEF PublishError
    <2> QED BY <1>9, <2>2, <2>3 DEF PublishError, RaiseFrom, Escape
<1>10. CASE Restart(w)
    <2>1. pc'[w] = "idle"
        BY <1>10 DEF Restart, Goto, TypeOK
    <2> QED BY <1>10, <2>1, NoStage DEF Restart, Handling
<1>11. CASE Raises(w)
    <2>1. pc[w] \in Handling \ {"dlq", "ack"}
        BY <1>11 DEF Raises, Handling
    <2>2. CASE Goto(w, "retry")
        <3>1. pc'[w] = "retry" /\ task' = task
            BY <2>2 DEF Goto, TypeOK
        <3> QED BY <1>11, <2>1, <3>1, NotMalformed, FreeStage DEF Raises
    <2>3. CASE Leave(w, "idle") \/ Leave(w, "down")
        BY <1>11, <2>3, LeaveStage DEF Raises
    <2> QED BY <1>11, <2>2, <2>3 DEF Raises, RaiseFrom, Escape
<1>12. CASE Crash(w)
    BY <1>12, LeaveStage DEF Crash
<1> QED BY <1>1, <1>2, <1>3, <1>4, <1>5, <1>6, <1>7, <1>8, <1>9, <1>10, <1>11,
           <1>12

\* The steps that make something durable.
LEMMA DurableStep ==
    ASSUME TypeOK, Shared, NEW w \in Workers, StageOK(w),
           \/ Archive(w) \/ Commit(w) \/ PublishFinal(w) \/ FailRequest(w)
           \/ SendToDlq(w) \/ Ack(w)
    PROVE  Grows /\ Shared' /\ StageOK(w)'
<1> USE DEF redisVars, jobVars, dbVars, boundVars
<1> DEFINE e == task[w].entry
           r == Rid[e]
<1>0. pc[w] \in Handling /\ e \in Entries /\ r \in Requests
    <2>1. pc[w] \in Handling
        BY DEF Archive, Commit, PublishFinal, FailRequest, SendToDlq, Ack, Handling
    <2> QED BY <2>1, ConstantsAssumption DEF TypeOK
<1>1. CASE Archive(w)
    <2>1. pc'[w] = "commit" /\ task' = task /\ artifacts' = artifacts \cup {r}
        BY <1>1 DEF Archive, Goto, Req, TypeOK
    <2>2. Grows /\ Shared'
        BY <1>1, <2>1 DEF Archive, Grows, Shared, CompleteIsDurable,
                          FinalAfterCommit, AckedHasOutcome
    <2>3. StageOK(w)'
        BY <1>1, <2>1 DEF Archive, StageOK, Handling
    <2> QED BY <2>2, <2>3
<1>2. CASE Commit(w)
    <2>1. r \in artifacts /\ e \notin Malformed /\ task[w].kind # "malformed"
        BY <1>0, <1>2 DEF Commit, StageOK
    <2>2. CASE usage[r] = "none"
        <3>1. /\ pc'[w] = "final" /\ task' = task /\ usage' = [usage EXCEPT ![r] = "ok"]
              /\ idem' \in {idem, [idem EXCEPT ![r] = "complete"]}
              /\ UNCHANGED <<acked, dlq, artifacts, announced>>
            BY <1>2, <2>2 DEF Commit, Goto, Req, TypeOK, SetStatus
        <3>2. Grows
            BY <2>2, <3>1 DEF Grows, TypeOK
        <3>3. Shared'
            <4>1. \A q \in Requests : usage'[q] = "ok" => q \in artifacts'
                BY <2>1, <3>1 DEF Shared, TypeOK
            <4>2. CompleteIsDurable'
                BY <1>0, <2>1, <3>1 DEF Shared, CompleteIsDurable, TypeOK
            <4>3. FinalAfterCommit'
                BY <1>0, <3>1 DEF Shared, FinalAfterCommit, TypeOK
            <4>4. AckedHasOutcome'
                BY <1>0, <3>1, ConstantsAssumption DEF Shared, AckedHasOutcome, TypeOK
            <4> QED BY <4>1, <4>2, <4>3, <4>4 DEF Shared
        <3>4. StageOK(w)'
            BY <1>0, <2>1, <3>1 DEF StageOK, TypeOK
        <3> QED BY <3>2, <3>3, <3>4
    <2>3. CASE usage[r] # "none"
        <3>1. pc'[w] = "retry" /\ task' = task /\ Quiet
            BY <1>2, <2>3 DEF Commit, Goto, Req, TypeOK, Quiet
        <3> QED BY <1>2, <3>1, <2>1, <1>0, QuietShared, FreeStage DEF Commit
    <2> QED BY <2>2, <2>3
<1>3. CASE PublishFinal(w)
    <2>1. usage[r] = "ok" /\ e \notin Malformed /\ task[w].kind # "malformed"
        BY <1>0, <1>3 DEF PublishFinal, StageOK
    <2>2. /\ pc'[w] \in {"ack", "retry"} /\ task' = task
          /\ announced' = announced \cup {r}
          /\ UNCHANGED <<acked, dlq, idem, usage, artifacts>>
        BY <1>3 DEF PublishFinal, Goto, Req, TypeOK
    <2>3. Grows /\ Shared'
        BY <1>0, <2>1, <2>2 DEF Grows, Shared, CompleteIsDurable,
                                FinalAfterCommit, AckedHasOutcome
    <2>4. StageOK(w)'
        BY <2>1, <2>2 DEF StageOK
    <2> QED BY <2>3, <2>4
<1>4. CASE FailRequest(w)
    <2>1. e \notin Malformed /\ task[w].kind # "malformed"
        BY <1>0, <1>4 DEF FailRequest, StageOK
    <2>2. /\ pc'[w] = "dlq" /\ task' = task
          /\ usage' = [usage EXCEPT ![r] = IF @ = "none" THEN "error" ELSE @]
          /\ idem' \in {idem, [idem EXCEPT ![r] = "failed"]}
          /\ UNCHANGED <<acked, dlq, artifacts, announced>>
        BY <1>4 DEF FailRequest, Goto, Req, TypeOK, SetStatus
    <2>3. Grows
        BY <2>2 DEF Grows, TypeOK
    <2>4. Shared'
        <3>1. \A q \in Requests : usage'[q] = "ok" <=> usage[q] = "ok"
            BY <2>2 DEF TypeOK
        <3>2. CompleteIsDurable'
            BY <2>2, <3>1 DEF Shared, CompleteIsDurable, TypeOK
        <3>3. FinalAfterCommit'
            BY <2>2, <3>1 DEF Shared, FinalAfterCommit, TypeOK
        <3>4. AckedHasOutcome'
            BY <2>2, ConstantsAssumption DEF Shared, AckedHasOutcome, TypeOK
        <3> QED BY <2>2, <3>1, <3>2, <3>3, <3>4 DEF Shared
    <2>5. StageOK(w)'
        BY <1>0, <2>1, <2>2 DEF StageOK, TypeOK
    <2> QED BY <2>3, <2>4, <2>5
<1>5. CASE SendToDlq(w)
    <2>1. /\ dlq' \in {dlq, dlq \cup {e}}
          /\ UNCHANGED <<acked, idem, usage, artifacts, announced>>
        BY <1>5 DEF SendToDlq
    <2>2. Grows /\ Shared'
        BY <2>1 DEF Grows, Shared, CompleteIsDurable, FinalAfterCommit,
                    AckedHasOutcome
    <2>3. CASE Leave(w, "idle") \/ Leave(w, "down")
        BY <2>2, <2>3, LeaveStage
    <2>4. CASE Goto(w, "ack")
        <3>1. pc'[w] = "ack" /\ task' = task
            BY <2>4 DEF Goto, TypeOK
        <3>2. e \in Malformed => dlq' = dlq \cup {e}
            BY <1>0, <1>5, <2>4, <3>1 DEF SendToDlq, StageOK, Escape, Leave, TypeOK
        <3> QED BY <1>0, <1>5, <2>1, <2>2, <3>1, <3>2 DEF StageOK, SendToDlq
    <2> QED BY <1>5, <2>3, <2>4 DEF SendToDlq, Escape
<1>6. CASE Ack(w)
    <2>1. /\ acked' \in {acked, acked \cup {e}}
          /\ UNCHANGED <<dlq, idem, usage, artifacts, announced>>
          /\ Leave(w, "idle") \/ Leave(w, "down")
        BY <1>6 DEF Ack, Escape
    <2>2. IF e \in Malformed THEN e \in dlq ELSE usage[r] # "none"
        BY <1>0, <1>6 DEF Ack, StageOK
    <2>3. Grows /\ Shared'
        BY <2>1, <2>2 DEF Grows, Shared, CompleteIsDurable, FinalAfterCommit,
                          AckedHasOutcome
    <2> QED BY <2>1, <2>3, LeaveStage
<1> QED BY <1>1, <1>2, <1>3, <1>4, <1>5, <1>6

\* A submission changes no durable row except the reservation of its request,
\* and no worker.
LEMMA SubmitInv ==
    ASSUME IInv, NEW e \in Entries, Submit(e)
    PROVE  IInv'
<1>1. TypeOK'
    BY SubmitType DEF IInv
<1>2. /\ idem' \in {idem, [idem EXCEPT ![Rid[e]] = "processing"]}
      /\ UNCHANGED <<acked, dlq, usage, artifacts, announced, pc, task>>
    BY DEF Submit
<1>3. CompleteIsDurable'
    BY <1>2 DEF IInv, CompleteIsDurable, TypeOK
<1> QED BY <1>1, <1>2, <1>3
        DEF IInv, FinalAfterCommit, AckedHasOutcome, StageOK

\* A step of one worker keeps the invariant: the shared part by QuietStep and
\* DurableStep, the stage of every other worker by OtherStage.
LEMMA StepInv ==
    ASSUME IInv, NEW w \in Workers,
           \/ Step(w) \/ Raises(w) \/ Crash(w)
           \/ \E e \in Entries : Sweep(w, e)
    PROVE  IInv'
<1>1. TypeOK /\ Shared /\ \A v \in Workers : StageOK(v)
    BY DEF IInv, Shared
<1>2. TypeOK'
    BY <1>1, StepType
<1>3. Grows /\ Shared' /\ StageOK(w)'
    <2>1. CASE \/ Archive(w) \/ Commit(w) \/ PublishFinal(w) \/ FailRequest(w)
               \/ SendToDlq(w) \/ Ack(w)
        BY <1>1, <2>1, DurableStep
    <2>2. CASE \/ Tick(w) \/ ReadAttempt(w) \/ ClearResults(w) \/ Resolve(w)
               \/ PublishChunk(w) \/ EngineDone(w) \/ Retry(w) \/ PublishError(w)
               \/ Restart(w) \/ Raises(w) \/ Crash(w)
               \/ \E e \in Entries : Sweep(w, e)
        BY <1>1, <2>2, QuietStep, QuietShared
    <2> QED BY <2>1, <2>2 DEF Step
<1>4. \A v \in Workers \ {w} : StageOK(v)'
    BY <1>1, <1>3, OnlyOneMoves, OtherStage
<1> QED BY <1>2, <1>3, <1>4 DEF IInv, Shared

\* The invariant holds initially and every step keeps it.
LEMMA Inductive ==
    /\ Init => IInv
    /\ IInv /\ [Next]_vars => IInv'
<1>1. Init => IInv
    <2>1. NoTask \in Task
        BY DEF NoTask, Task, Kinds
    <2> QED BY <2>1 DEF Init, IInv, TypeOK, Handling, CompleteIsDurable,
                        FinalAfterCommit, AckedHasOutcome, StageOK
<1>2. IInv /\ [Next]_vars => IInv'
    <2>1. CASE UNCHANGED vars
        BY <2>1 DEF vars, IInv, TypeOK, CompleteIsDurable, FinalAfterCommit,
                    AckedHasOutcome, StageOK
    <2> QED BY <2>1, StepInv, SubmitInv DEF Next
<1> QED BY <1>1, <1>2

\* The inductive invariant holds of every reachable state of the worker.
THEOREM Invariance == Spec => []IInv
BY Inductive, PTL DEF Spec

\* A request the status endpoint reports complete is archived and billed as
\* delivered, whatever retries, claims, exceptions and crashes happened.
THEOREM CompletionDurable == Spec => []CompleteIsDurable
<1>1. IInv => CompleteIsDurable
    BY DEF IInv
<1> QED BY <1>1, Invariance, PTL

\* No final marker precedes the transaction that commits the request.
THEOREM CommitBeforeFinal == Spec => []FinalAfterCommit
<1>1. IInv => FinalAfterCommit
    BY DEF IInv
<1> QED BY <1>1, Invariance, PTL

\* An XACK never discards a job without an outcome on record.
THEOREM NoJobLost == Spec => []AckedHasOutcome
<1>1. IInv => AckedHasOutcome
    BY DEF IInv
<1> QED BY <1>1, Invariance, PTL

-----------------------------------------------------------------------------
(* The worker implements JobContract.                                      *)

\* Every step is a step of the contract, or one it does not see.
LEMMA StepRefines ==
    ASSUME IInv, Next
    PROVE  Contract!Next \/ UNCHANGED Contract!contractVars
<1> USE DEF redisVars, jobVars, dbVars, boundVars, Contract!contractVars
<1>1. ASSUME NEW e \in Entries, Submit(e)
      PROVE  UNCHANGED Contract!contractVars
    BY <1>1 DEF Submit
<1>2. ASSUME NEW w \in Workers,
             \/ Step(w) \/ Raises(w) \/ Crash(w)
             \/ \E e \in Entries : Sweep(w, e)
      PROVE  Contract!Next \/ UNCHANGED Contract!contractVars
    <2> DEFINE e == task[w].entry
               r == Rid[e]
    <2>0. TypeOK /\ StageOK(w)
        BY DEF IInv
    <2>1. CASE \/ Tick(w) \/ ReadAttempt(w) \/ ClearResults(w) \/ Resolve(w)
               \/ PublishChunk(w) \/ EngineDone(w) \/ Retry(w) \/ PublishError(w)
               \/ Restart(w) \/ Raises(w) \/ Crash(w)
               \/ \E d \in Entries : Sweep(w, d)
        BY <2>0, <2>1, QuietStep DEF Quiet
    <2>2. pc[w] \in Handling => e \in Entries /\ r \in Requests
        BY <2>0, ConstantsAssumption DEF TypeOK
    <2>3. CASE Archive(w)
        BY <2>3 DEF Archive
    <2>4. CASE Commit(w)
        <3>1. r \in Requests
            BY <2>2, <2>4 DEF Commit, Handling
        <3>2. CASE usage[r] = "none"
            <4>1. Contract!Decide(r, "ok")
                BY <2>4, <3>2 DEF Commit, Req, Contract!Decide
            <4> QED BY <3>1, <4>1 DEF Contract!Next
        <3>3. CASE usage[r] # "none"
            BY <2>4, <3>3 DEF Commit, Req
        <3> QED BY <3>2, <3>3
    <2>5. CASE PublishFinal(w)
        <3>1. r \in Requests /\ usage[r] = "ok"
            BY <2>0, <2>2, <2>5 DEF PublishFinal, Handling, StageOK
        <3>2. Contract!Announce(r)
            BY <2>5, <3>1 DEF PublishFinal, Req, Contract!Announce
        <3> QED BY <3>1, <3>2 DEF Contract!Next
    <2>6. CASE FailRequest(w)
        <3>1. r \in Requests
            BY <2>2, <2>6 DEF FailRequest, Handling
        <3>2. CASE usage[r] = "none"
            <4>1. Contract!Decide(r, "error")
                BY <2>6, <3>2 DEF FailRequest, Req, Contract!Decide
            <4> QED BY <3>1, <4>1 DEF Contract!Next
        <3>3. CASE usage[r] # "none"
            <4>1. usage' = usage
                BY <2>0, <2>6, <3>3 DEF FailRequest, Req, TypeOK
            <4> QED BY <2>6, <4>1 DEF FailRequest
        <3> QED BY <3>2, <3>3
    <2>7. CASE SendToDlq(w)
        <3>1. e \in Entries
            BY <2>2, <2>7 DEF SendToDlq, Handling
        <3>2. Contract!Bury(e) \/ UNCHANGED Contract!contractVars
            BY <2>7 DEF SendToDlq, Contract!Bury
        <3> QED BY <3>1, <3>2 DEF Contract!Next
    <2>8. CASE Ack(w)
        <3>1. e \in Entries
            BY <2>2, <2>8 DEF Ack, Handling
        <3>2. IF e \in Malformed THEN e \in dlq ELSE usage[r] # "none"
            BY <2>0, <2>8 DEF Ack, StageOK, Handling
        <3>3. Contract!Settle(e) \/ UNCHANGED Contract!contractVars
            BY <2>8, <3>2 DEF Ack, Contract!Settle
        <3> QED BY <3>1, <3>3 DEF Contract!Next
    <2> QED BY <1>2, <2>1, <2>3, <2>4, <2>5, <2>6, <2>7, <2>8 DEF Step
<1> QED BY <1>1, <1>2 DEF Next

\* The worker implements the contract: under every interleaving of workers,
\* faults and claims, a request is billed once and for all, final markers follow
\* an "ok" billing, and XACKs follow an outcome.
THEOREM Refinement == Spec => ContractSpec
<1>1. Init => Contract!Init
    BY DEF Init, Contract!Init
<1>2. IInv /\ [Next]_vars => [Contract!Next]_(Contract!contractVars)
    <2>1. CASE UNCHANGED vars
        BY <2>1 DEF vars, Contract!contractVars
    <2> QED BY <2>1, StepRefines
<1> QED BY <1>1, <1>2, Invariance, PTL DEF Spec, ContractSpec, Contract!Spec
=============================================================================
