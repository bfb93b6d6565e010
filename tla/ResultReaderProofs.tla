------------------------- MODULE ResultReaderProofs -------------------------
(***************************************************************************)
(* Proofs about ResultReader: what a caller that reads the result stream   *)
(* of its job is given, for any number of callers, workers, jobs and       *)
(* faults.                                                                 *)
(***************************************************************************)
EXTENDS ResultReader, TtsWorkerProofs, SequenceTheorems

-----------------------------------------------------------------------------
(* Durability: no hypothesis on who reads or claims what.                  *)

\* A final marker, wherever it is on its way to a caller, was announced.
FinalsAnnounced ==
    /\ \A r \in Requests : \A i \in 1..Len(results[r]) :
          results[r][i].kind = "final" => r \in announced
    /\ \A g \in Readers : \A i \in 1..Len(reader[g].inbox) :
          reader[g].inbox[i].kind = "final" => Awaits[g] \in announced
    /\ \A g \in Readers : reader[g].st = "final" => Awaits[g] \in announced

ReaderInv == IInv /\ ReaderTypeOK /\ FinalsAnnounced

-----------------------------------------------------------------------------
(* Exact audio: every job is enqueued once, entries are claimed only from  *)
(* dead workers, XPENDING answers, and a request has one caller.           *)

Exclusive ==
    /\ \A d, e \in Entries \ Malformed : Rid[d] = Rid[e] => d = e
    /\ MaxSteals = 0
    /\ ~CountMayFail
    /\ \A f, g \in Readers : Awaits[f] = Awaits[g] => f = g

\* The one entry of a request.
EntryOf(r) == CHOOSE e \in Entries \ Malformed : Rid[e] = r

\* An entry is in the queue, pending or acknowledged; one worker at most is on it,
\* and acts for its last delivery.
QueueOK ==
    /\ \A i, j \in 1..Len(queue) : queue[i] = queue[j] => i = j
    /\ \A i \in 1..Len(queue) : queue[i] \notin pel \cup acked
    /\ pel \cap acked = {}

Beyond == Handling \ {"attempt"}

HolderOK(w) ==
    /\ pc[w] \notin Handling => task[w].entry = NoEntry
    /\ pc[w] \in Handling =>
         LET e == task[w].entry IN
         /\ e \in pel
         /\ \A v \in Workers : task[v].entry = e => v = w
         /\ task[w].take = deliveries[e]
         /\ deliveries[e] >= 1
         /\ pc[w] \in Beyond /\ e \notin Malformed => task[w].attempt = task[w].take

\* A delivery beyond the retry budget costs a fault.
Held(e) == \E w \in Workers : task[w].entry = e
DeliveriesBounded ==
    \A e \in Entries :
        deliveries[e] <= MaxRetries + faults + (IF e \in acked \/ Held(e) THEN 1 ELSE 0)

HoldersInv == QueueOK /\ (\A w \in Workers : HolderOK(w)) /\ DeliveriesBounded

\* Nobody has DELeted the stream of r in the back of its workers.
Clean(r) == \A g \in Readers : Awaits[g] = r => reader[g].st \in {"off", "reading"}

\* Everything before position i of s is a sentence.
Lead(s, i) == \A j \in 1..(i - 1) : s[j].kind = "chunk"

\* s tells the text of r from sentence number k on, up to its first marker: in order, all
\* of one delivery, and a final marker only after the last sentence.
Script(s, k, r) ==
    \A i \in 1..Len(s) :
        Lead(s, i) =>
            /\ s[i].kind = "chunk" =>
                 /\ s[i].attempt = s[1].attempt
                 /\ s[i].src = <<EntryOf(r), s[1].attempt>>
                 /\ s[i].seq = k + i - 1
                 /\ k + i <= Sentences[r]
            /\ s[i].kind = "final" => s[i].attempt = s[1].attempt /\ k + i = Sentences[r] + 1
            /\ s[i].attempt >= s[1].attempt

\* The stream of r tells its text from the start.
StreamOK(r) ==
    /\ results[r] # <<>> => EntryOf(r) \in Entries \ Malformed
    /\ Script(results[r], 0, r)
    /\ \A i \in 1..Len(results[r]) :
         results[r][i].attempt \in 1..deliveries[EntryOf(r)]

\* What the worker on an entry has put on the stream.
WriterOK(w) ==
    pc[w] \in Handling /\ task[w].entry \notin Malformed /\ Clean(Req(w)) =>
        LET s == results[Req(w)] IN
        /\ pc[w] \in {"attempt", "clear"} =>
             \A i \in 1..Len(s) : s[i].attempt < task[w].take
        /\ pc[w] \in {"attempt", "clear", "resolve"} => task[w].seq = 0
        /\ pc[w] \in {"resolve", "engine", "archive", "commit", "final"} =>
             /\ Len(s) = task[w].seq
             /\ \A i \in 1..Len(s) : s[i].kind = "chunk" /\ s[i].attempt = task[w].take
        /\ pc[w] \in {"archive", "commit", "final"} => task[w].seq = Sentences[Req(w)]

\* What a caller has collected, and what it has fetched but not looked at.
BodyOK(g) ==
    LET rd == reader[g]
        r == Awaits[g]
    IN  /\ EntryOf(r) \in Entries \ Malformed /\ Rid[EntryOf(r)] = r
        /\ \A i \in 1..Len(rd.body) : rd.body[i] = <<i - 1, <<EntryOf(r), rd.attempt>>>>
        /\ rd.seen = 0..(Len(rd.body) - 1)
        /\ rd.inbox # <<>> =>
             /\ rd.inbox[1].attempt >= rd.attempt
             /\ rd.inbox[1].kind # "error" =>
                  Script(rd.inbox,
                         IF rd.inbox[1].attempt = rd.attempt THEN Len(rd.body) ELSE 0, r)
        /\ rd.attempt <= deliveries[EntryOf(r)]
        /\ \A i \in 1..Len(rd.inbox) : rd.inbox[i].attempt \in 1..deliveries[EntryOf(r)]

\* Where a caller stands in the stream it has fetched from; before its first fetch all
\* that is on the stream is newer than what the caller has.
CursorOK(g) ==
    LET rd == reader[g]
        s == results[Awaits[g]]
        n == rd.fetched - Len(rd.inbox)
    IN  /\ rd.fetched <= Len(s)
        /\ rd.fetched > 0 =>
             /\ n >= 0
             /\ \A i \in 1..Len(rd.inbox) : rd.inbox[i] = s[n + i]
             /\ \A i \in 1..n : s[i].kind = "chunk"
             /\ IF n = 0 THEN rd.attempt < s[1].attempt
                ELSE rd.attempt = s[1].attempt /\ Len(rd.body) = n
        /\ rd.fetched = 0 /\ s # <<>> =>
             /\ rd.attempt < s[1].attempt
             /\ \A i \in 1..Len(rd.inbox) : rd.inbox[i].attempt < s[1].attempt

\* The deliveries a caller has heard of are older than one that has not published.
FreshOK(g, w) ==
    pc[w] \in Handling /\ task[w].entry = EntryOf(Awaits[g])
    /\ (reader[g].fetched = 0 \/ pc[w] \in {"attempt", "clear"}) =>
        /\ reader[g].attempt < task[w].take
        /\ \A i \in 1..Len(reader[g].inbox) : reader[g].inbox[i].attempt < task[w].take

ExactInv ==
    /\ ReaderInv
    /\ HoldersInv
    /\ faults <= MaxFaults
    /\ \A r \in Requests : Clean(r) => StreamOK(r)
    /\ \A w \in Workers : WriterOK(w)
    /\ \A g \in Readers :
         /\ reader[g].st = "off" => reader[g] = ReaderOff
         /\ reader[g].st = "reading" =>
              BodyOK(g) /\ CursorOK(g) /\ \A w \in Workers : FreshOK(g, w)
         /\ reader[g].st = "final" => WholeBody(g)
-----------------------------------------------------------------------------
(* A step of one worker, by what it does to its task and to the queue.     *)

StepOf(w) ==
    \/ Step(w) \/ Raises(w) \/ Crash(w)
    \/ \E e \in Entries : Sweep(w, e)

Restarted(w) ==
    /\ pc[w] = "down"
    /\ Goto(w, "idle")
    /\ UNCHANGED <<jobVars, faults>>

Taken(w) ==
    \E e \in Entries, via \in {"tick", "sweep"} :
        /\ pc[w] = "idle"
        /\ Take(w, e, via)
        /\ \/ queue # <<>> /\ e = Head(queue) /\ queue' = Tail(queue)
           \/ e \in pel /\ ~Held(e) /\ queue' = queue
        /\ UNCHANGED <<acked, faults>>

Dropped(w) ==
    /\ pc[w] \in Handling
    /\ \E l \in {"idle", "down"} : Leave(w, l)
    /\ UNCHANGED jobVars
    /\ \/ faults' = faults + 1
       \/ faults' = faults /\ DeliveryCount(task[w].entry) < MaxRetries

Settled(w) ==
    /\ pc[w] = "ack"
    /\ Leave(w, "idle")
    /\ pel' = pel \ {task[w].entry}
    /\ acked' = acked \cup {task[w].entry}
    /\ UNCHANGED <<queue, deliveries, faults>>

Moved(w) ==
    /\ pc[w] \in Handling
    /\ \E l \in Beyond, t \in Task :
         /\ pc' = [pc EXCEPT ![w] = l]
         /\ task' = [task EXCEPT ![w] = t]
         /\ t.entry = task[w].entry
         /\ t.take = task[w].take
         /\ \/ t.attempt = DeliveryCount(task[w].entry)
            \/ t.attempt = task[w].attempt /\ pc[w] # "attempt"
    /\ UNCHANGED jobVars
    /\ faults' \in {faults, faults + 1}

\* Every step of a worker has one of those forms.
LEMMA TaskForms ==
    ASSUME TypeOK, MaxSteals = 0, ~CountMayFail, NEW w \in Workers, StepOf(w)
    PROVE  Restarted(w) \/ Taken(w) \/ Dropped(w) \/ Settled(w) \/ Moved(w)
<1> USE DEF redisVars, jobVars, dbVars, boundVars
<1>0. /\ task[w] \in Task
      /\ pc[w] \in Handling => DeliveryCount(task[w].entry) \in Nat
    BY DEF TypeOK, DeliveryCount
<1>1. CASE Restart(w)
    BY <1>1 DEF Restart, Restarted
<1>2. CASE Tick(w)
  <2>1. Head(queue) \in Entries
    BY <1>2 DEF Tick, TypeOK
  <2> QED BY <1>2, <2>1 DEF Tick, Taken
<1>3. ASSUME NEW e \in Entries, Sweep(w, e) PROVE Taken(w)
  <2>1. ~Held(e)
    BY <1>3 DEF Sweep, Held, TypeOK
  <2> QED BY <1>3, <2>1 DEF Sweep, Taken
<1>4. CASE Crash(w)
    BY <1>4 DEF Crash, Fault, Dropped
<1>5. CASE Raises(w)
  <2>1. CASE task[w].kind = "exhausted"
    BY <1>5, <2>1 DEF Raises, RaiseFrom, Escape, Fault, Dropped, Handling
  <2>2. CASE task[w].kind # "exhausted"
    BY <1>0, <1>5, <2>2 DEF Raises, RaiseFrom, Goto, Fault, Moved, Handling, Beyond, TypeOK
  <2> QED BY <2>1, <2>2
<1>6. CASE ReadAttempt(w)
  <2> DEFINE n == DeliveryCount(task[w].entry)
             t == [task[w] EXCEPT !.attempt = n]
  <2>1. t \in Task /\ t.entry = task[w].entry /\ t.take = task[w].take /\ t.attempt = n
    BY <1>0, <1>6 DEF ReadAttempt, Handling, Task
  <2>2. task' = [task EXCEPT ![w] = t]
    BY <1>6 DEF ReadAttempt
  <2> HIDE DEF t
  <2>3. "clear" \in Beyond
    BY DEF Beyond, Handling
  <2> QED BY <1>6, <2>1, <2>2, <2>3 DEF ReadAttempt, Moved, Handling
<1>7. CASE \/ ClearResults(w) \/ Archive(w) \/ Commit(w) \/ PublishFinal(w) \/ FailRequest(w)
    BY <1>0, <1>7 DEF ClearResults, Archive, Commit, PublishFinal, FailRequest, Goto, Fault,
       Moved, Handling, Beyond, TypeOK
<1>8. CASE Resolve(w) \/ EngineDone(w)
  <2> DEFINE t == [task[w] EXCEPT !.kind = "poison"]
  <2>1. CASE Goto(w, "engine") \/ Goto(w, "archive")
    BY <1>0, <1>8, <2>1 DEF Resolve, EngineDone, Goto, Moved, Handling, Beyond, TypeOK
  <2>2. CASE pc' = [pc EXCEPT ![w] = "error"] /\ task' = [task EXCEPT ![w] = t]
    <3>1. /\ t \in Task /\ t.entry = task[w].entry /\ t.take = task[w].take
          /\ t.attempt = task[w].attempt
      BY <1>0 DEF Task, Kinds
    <3> HIDE DEF t
    <3> QED BY <1>8, <2>2, <3>1 DEF Resolve, EngineDone, Moved, Handling, Beyond
  <2> QED BY <1>8, <2>1, <2>2 DEF Resolve, EngineDone
<1>9. CASE PublishChunk(w)
  <2>1. CASE Goto(w, "retry") /\ Fault
    BY <1>0, <1>9, <2>1 DEF PublishChunk, Goto, Fault, Moved, Handling, Beyond, TypeOK
  <2>2. CASE task' = [task EXCEPT ![w].seq = @ + 1] /\ UNCHANGED <<pc, faults>>
    <3> DEFINE t == [task[w] EXCEPT !.seq = task[w].seq + 1]
    <3>1. /\ t \in Task /\ t.entry = task[w].entry /\ t.take = task[w].take
          /\ t.attempt = task[w].attempt
      BY <1>0 DEF Task
    <3>2. task' = [task EXCEPT ![w] = t] /\ pc' = [pc EXCEPT ![w] = "engine"]
      BY <1>9, <2>2 DEF PublishChunk, TypeOK
    <3> HIDE DEF t
    <3> QED BY <1>9, <2>2, <3>1, <3>2 DEF PublishChunk, Moved, Handling, Beyond
  <2> QED BY <1>9, <2>1, <2>2 DEF PublishChunk
<1>10. CASE Retry(w)
  <2> DEFINE n == DeliveryCount(task[w].entry)
             t == [task[w] EXCEPT !.kind = "exhausted", !.attempt = n]
  <2>1. /\ t \in Task /\ t.entry = task[w].entry /\ t.take = task[w].take
        /\ t.attempt = n
    BY <1>0, <1>10 DEF Retry, Handling, Task, Kinds
  <2>2. CASE n < MaxRetries
    BY <1>10, <2>2 DEF Retry, Dropped, Handling
  <2>3. CASE ~(n < MaxRetries)
    <3>1. /\ task' = [task EXCEPT ![w] = t] /\ pc' = [pc EXCEPT ![w] = "error"]
          /\ faults' = faults
      BY <1>10, <2>3 DEF Retry
    <3> HIDE DEF t
    <3> QED BY <1>10, <2>1, <3>1 DEF Retry, Moved, Handling, Beyond
  <2> QED BY <2>2, <2>3
<1>11. CASE PublishError(w)
    BY <1>0, <1>11 DEF PublishError, RaiseFrom, Escape, Goto, Fault, Moved, Dropped,
       Handling, Beyond, TypeOK
<1>12. CASE SendToDlq(w)
    BY <1>0, <1>12 DEF SendToDlq, Escape, Goto, Fault, Moved, Dropped, Handling, Beyond, TypeOK
<1>13. CASE Ack(w)
    BY <1>13 DEF Ack, Escape, Fault, Dropped, Settled, Handling
<1> QED BY <1>1, <1>2, <1>3, <1>4, <1>5, <1>6, <1>7, <1>8, <1>9, <1>10, <1>11, <1>12, <1>13
        DEF StepOf, Step

-----------------------------------------------------------------------------
(* One worker at most is on an entry.                                      *)

\* A taken entry was nobody's.
LEMMA TakenHolders ==
    ASSUME TypeOK, HoldersInv, NEW w \in Workers, Taken(w)
    PROVE  HoldersInv'
<1> USE DEF TypeOK, HoldersInv
<1>1. PICK e \in Entries, via \in {"tick", "sweep"} :
        /\ pc[w] = "idle"
        /\ Take(w, e, via)
        /\ \/ queue # <<>> /\ e = Head(queue) /\ queue' = Tail(queue)
           \/ e \in pel /\ ~Held(e) /\ queue' = queue
        /\ UNCHANGED <<acked, faults>>
    BY DEF Taken
<1>2. ~Held(e) /\ e \notin acked
  <2>1. CASE queue # <<>> /\ e = Head(queue) /\ queue' = Tail(queue)
    <3>1. e = queue[1] /\ 1 \in 1..Len(queue)
      BY <2>1
    <3>2. e \notin pel \cup acked
      BY <3>1 DEF QueueOK
    <3> QED BY <3>2, ConstantsAssumption DEF Held, HolderOK
  <2>2. CASE e \in pel /\ ~Held(e)
    BY <2>2 DEF QueueOK
  <2> QED BY <1>1, <2>1, <2>2
<1>3. QueueOK'
  <2>0. pel' = pel \cup {e} /\ acked' = acked
    BY <1>1 DEF Take
  <2>1. CASE queue # <<>> /\ e = Head(queue) /\ queue' = Tail(queue)
    <3>1. /\ \A i \in 1..Len(queue') : queue'[i] = queue[i + 1] /\ i + 1 \in 1..Len(queue)
          /\ e = queue[1] /\ 1 \in 1..Len(queue)
          /\ Len(queue') \in Nat
      BY <2>1
    <3>2. \A i \in 1..Len(queue') : queue'[i] # e
      BY <3>1 DEF QueueOK
    <3>3. \A i, j \in 1..Len(queue') : queue'[i] = queue'[j] => i = j
      <4> SUFFICES ASSUME NEW i \in 1..Len(queue'), NEW j \in 1..Len(queue'),
                          queue'[i] = queue'[j]
                   PROVE  i = j
        OBVIOUS
      <4>1. i + 1 = j + 1
        BY <3>1 DEF QueueOK
      <4> QED BY <3>1, <4>1
    <3>4. \A i \in 1..Len(queue') : queue'[i] \notin pel' \cup acked'
      BY <2>0, <3>1, <3>2 DEF QueueOK
    <3>5. pel' \cap acked' = {}
      BY <1>2, <2>0 DEF QueueOK
    <3> QED BY <3>3, <3>4, <3>5 DEF QueueOK
  <2>2. CASE e \in pel /\ queue' = queue
    BY <1>2, <2>0, <2>2 DEF QueueOK
  <2> QED BY <1>1, <2>1, <2>2
<1>4. /\ \A v \in Workers \ {w} : pc'[v] = pc[v] /\ task'[v] = task[v]
      /\ pc'[w] \in {"attempt", "dlq"} /\ (pc'[w] = "dlq" => e \in Malformed)
      /\ task'[w].entry = e /\ task'[w].take = deliveries[e] + 1
      /\ pel' = pel \cup {e} /\ deliveries' = [deliveries EXCEPT ![e] = deliveries[e] + 1]
    BY <1>1 DEF Take
<1>5. HolderOK(w)'
    BY <1>2, <1>4 DEF HolderOK, Held, Beyond, Handling
<1>6. ASSUME NEW v \in Workers \ {w} PROVE HolderOK(v)'
  <2>1. HolderOK(v) /\ task[v].entry # e /\ pc'[v] = pc[v] /\ task'[v] = task[v]
    BY <1>2, <1>4 DEF Held
  <2>2. CASE pc[v] \in Handling
    <3>1. /\ task[v].entry \in Entries /\ task[v].entry \in pel'
          /\ deliveries'[task[v].entry] = deliveries[task[v].entry]
      BY <1>4, <2>1, <2>2 DEF HolderOK
    <3>2. \A u \in Workers : task'[u].entry = task[v].entry => u = v
      BY <1>4, <2>1, <2>2 DEF HolderOK
    <3> QED BY <2>1, <2>2, <3>1, <3>2 DEF HolderOK
  <2>3. CASE pc[v] \notin Handling
    BY <2>1, <2>3 DEF HolderOK
  <2> QED BY <2>2, <2>3
<1>7. DeliveriesBounded'
  <2> SUFFICES ASSUME NEW d \in Entries
               PROVE  deliveries'[d] <= MaxRetries + faults'
                                        + (IF d \in acked' \/ Held(d)' THEN 1 ELSE 0)
    BY DEF DeliveriesBounded
  <2>1. CASE d = e
    <3>1. Held(d)'
      BY <1>4, <2>1 DEF Held
    <3> QED BY <1>1, <1>2, <1>4, <2>1, <3>1, ConstantsAssumption DEF DeliveriesBounded
  <2>2. CASE d # e
    <3>1. Held(d)' <=> Held(d)
      <4>1. task[w].entry = NoEntry
        BY <1>1 DEF HolderOK, Handling
      <4>2. task[w].entry # d /\ task'[w].entry # d
        BY <1>4, <2>2, <4>1, ConstantsAssumption
      <4> QED BY <1>4, <4>2 DEF Held
    <3> QED BY <1>1, <1>4, <2>2, <3>1 DEF DeliveriesBounded
  <2> QED BY <2>1, <2>2
<1> QED BY <1>3, <1>5, <1>6, <1>7

\* A worker that drops or settles its entry holds nothing; one that goes on holds it.
LEMMA OthersHolders ==
    ASSUME TypeOK, HoldersInv, NEW w \in Workers,
           Restarted(w) \/ Dropped(w) \/ Settled(w) \/ Moved(w)
    PROVE  HoldersInv'
<1> USE DEF TypeOK, HoldersInv
<1> DEFINE e == task[w].entry
<1>0. /\ pc[w] \in Handling => e \in Entries /\ e \in pel /\ DeliveryCount(e) = deliveries[e]
      /\ MaxRetries \in Nat
    BY ConstantsAssumption DEF HolderOK, DeliveryCount
<1>1. QueueOK'
  <2>1. CASE Restarted(w) \/ Dropped(w) \/ Moved(w)
    BY <2>1 DEF Restarted, Dropped, Moved, jobVars, QueueOK
  <2>2. CASE Settled(w)
    BY <1>0, <2>2 DEF Settled, QueueOK, Handling
  <2> QED BY <2>1, <2>2
<1>2. ASSUME NEW v \in Workers PROVE HolderOK(v)'
  <2>1. CASE Restarted(w)
    BY <2>1 DEF Restarted, Goto, jobVars, HolderOK, Handling
  <2>2. CASE Dropped(w)
    BY <1>0, <2>2, ConstantsAssumption DEF Dropped, Leave, NoTask, jobVars, HolderOK, Handling
  <2>3. CASE Settled(w)
    BY <1>0, <2>3, ConstantsAssumption DEF Settled, Leave, NoTask, HolderOK, Handling
  <2>4. CASE Moved(w)
    <3>1. /\ \A u \in Workers : task'[u].entry = task[u].entry /\ task'[u].take = task[u].take
          /\ \A u \in Workers \ {w} : pc'[u] = pc[u] /\ task'[u] = task[u]
          /\ pc[w] \in Handling /\ pc'[w] \in Handling
          /\ UNCHANGED <<pel, deliveries>>
      BY <2>4 DEF Moved, jobVars, Beyond
    <3>2. e \notin Malformed => task'[w].attempt = task'[w].take
      BY <1>0, <2>4 DEF Moved, HolderOK, Beyond
    <3> QED BY <3>1, <3>2 DEF HolderOK
  <2> QED BY <2>1, <2>2, <2>3, <2>4
<1>3. DeliveriesBounded'
  <2> SUFFICES ASSUME NEW d \in Entries
               PROVE  deliveries'[d] <= MaxRetries + faults'
                                        + (IF d \in acked' \/ Held(d)' THEN 1 ELSE 0)
    BY DEF DeliveriesBounded
  <2>0. deliveries[d] <= MaxRetries + faults + (IF d \in acked \/ Held(d) THEN 1 ELSE 0)
    BY DEF DeliveriesBounded
  <2>1. CASE Restarted(w)
    BY <2>0, <2>1 DEF Restarted, Goto, jobVars, Held
  <2>2. CASE Moved(w)
    <3>1. Held(d)' <=> Held(d)
      BY <2>2 DEF Moved, Held
    <3> QED BY <1>0, <2>0, <2>2, <3>1 DEF Moved, jobVars
  <2>3. CASE Settled(w)
    <3>1. d # e => (Held(d)' <=> Held(d))
      BY <2>3, ConstantsAssumption DEF Settled, Leave, NoTask, Held
    <3> QED BY <1>0, <2>0, <2>3, <3>1 DEF Settled
  <2>4. CASE Dropped(w)
    <3>1. d # e => (Held(d)' <=> Held(d))
      BY <2>4, ConstantsAssumption DEF Dropped, Leave, NoTask, Held
    <3>2. d = e => d \notin acked
      BY <1>0, <2>4 DEF Dropped, QueueOK
    <3> QED BY <1>0, <2>0, <2>4, <3>1, <3>2 DEF Dropped, jobVars
  <2> QED BY <2>1, <2>2, <2>3, <2>4
<1> QED BY <1>1, <1>2, <1>3

\* A submitted entry is new.
LEMMA SubmitHolders ==
    ASSUME TypeOK, HoldersInv, NEW e \in Entries, Submit(e)
    PROVE  HoldersInv'
<1> USE DEF TypeOK, HoldersInv
<1>1. UNCHANGED <<pel, acked, deliveries, pc, task, faults>> /\ queue' = Append(queue, e)
    BY DEF Submit, boundVars
<1>2. e \notin pel \cup acked /\ \A i \in 1..Len(queue) : queue[i] # e
    BY DEF Submit, Submitted
<1>3. QueueOK'
    BY <1>1, <1>2 DEF QueueOK
<1> QED BY <1>1, <1>3 DEF HolderOK, DeliveriesBounded, Held

-----------------------------------------------------------------------------
(* What a step does to the result streams.                                 *)

Cleared(w) ==
    /\ pc[w] = "clear"
    /\ Goto(w, "resolve")
    /\ results' = [results EXCEPT ![Req(w)] = <<>>]

Chunk(w, k, n) == [kind |-> k, seq |-> n, attempt |-> task[w].attempt,
                   src |-> <<task[w].entry, task[w].take>>]

Published(w, k, n) ==
    /\ results' = [results EXCEPT ![Req(w)] = Append(results[Req(w)], Chunk(w, k, n))]
    /\ \/ k = "chunk" /\ pc[w] = "engine" /\ n = task[w].seq /\ n < Sentences[Req(w)]
       \/ k = "final" /\ pc[w] = "final" /\ n = task[w].seq /\ Req(w) \in announced'
       \/ k = "error" /\ pc[w] = "error"

\* The DEL of an attempt, an XADD, or nothing.
LEMMA ResultsForms ==
    ASSUME TypeOK, NEW w \in Workers, StepOf(w)
    PROVE  /\ announced \subseteq announced'
           /\ \/ results' = results
              \/ Cleared(w)
              \/ \E k \in {"chunk", "final", "error"}, n \in Nat : Published(w, k, n)
<1> USE DEF redisVars, jobVars, dbVars, boundVars
<1>0. task[w].seq \in Nat
    BY DEF TypeOK, Task
<1>1. CASE Tick(w) \/ \E e \in Entries : Sweep(w, e)
    BY <1>1 DEF Tick, Sweep
<1>2. CASE ReadAttempt(w) \/ Resolve(w) \/ EngineDone(w) \/ Archive(w) \/ Commit(w) \/ Retry(w)
    BY <1>2 DEF ReadAttempt, Resolve, EngineDone, Archive, Commit, Retry
<1>3. CASE \/ FailRequest(w) \/ SendToDlq(w) \/ Ack(w) \/ Restart(w) \/ Raises(w) \/ Crash(w)
    BY <1>3 DEF FailRequest, SendToDlq, Ack, Restart, Raises, Crash
<1>4. CASE ClearResults(w)
    BY <1>4 DEF ClearResults, Cleared
<1>5. CASE PublishChunk(w)
  <2>1. Published(w, "chunk", task[w].seq) /\ announced' = announced
    BY <1>5 DEF PublishChunk, XaddResult, Published, Chunk
  <2> QED BY <1>0, <2>1
<1>6. CASE PublishFinal(w)
  <2>1. Published(w, "final", task[w].seq) /\ announced \subseteq announced'
    BY <1>6 DEF PublishFinal, XaddResult, Published, Chunk
  <2> QED BY <1>0, <2>1
<1>7. CASE PublishError(w)
  <2>1. Published(w, "error", 0) /\ announced' = announced
    BY <1>7 DEF PublishError, XaddResult, Published, Chunk
  <2> QED BY <2>1
<1> QED BY <1>1, <1>2, <1>3, <1>4, <1>5, <1>6, <1>7 DEF StepOf, Step

\* A worker that clears or publishes works for a request, and what it publishes is typed.
LEMMA WriterTyped ==
    ASSUME TypeOK, NEW w \in Workers, pc[w] \in Handling
    PROVE  /\ task[w].entry \in Entries /\ Req(w) \in Requests
           /\ results[Req(w)] \in Seq(Result)
           /\ \A k \in {"chunk", "final", "error"}, n \in Nat : Chunk(w, k, n) \in Result
<1>1. task[w] \in Task /\ task[w].entry \in Entries
    BY DEF TypeOK
<1> QED BY <1>1, ConstantsAssumption DEF TypeOK, Req, Chunk, Result, Task

\* A caller that starts over on a new stream keeps everything but its place in the old one.
LEMMA Rewound ==
    ASSUME NEW rd \in ReaderState
    PROVE  LET new == [rd EXCEPT !.fetched = 0]
           IN  /\ new \in ReaderState
               /\ new.st = rd.st /\ new.fetched = 0 /\ new.inbox = rd.inbox
               /\ new.attempt = rd.attempt /\ new.seen = rd.seen /\ new.body = rd.body
<1> DEFINE S == Seq(Result)
           B == Seq(Nat \X (Entries \X Nat))
<1>1. rd \in [st : {"off", "reading", "final", "error", "gone"}, fetched : Nat,
              inbox : S, attempt : Int, seen : SUBSET Nat, body : B]
    BY DEF ReaderState
<1> HIDE DEF S, B
<1>2. [rd EXCEPT !.fetched = 0] \in
        [st : {"off", "reading", "final", "error", "gone"}, fetched : Nat,
         inbox : S, attempt : Int, seen : SUBSET Nat, body : B]
    BY <1>1
<1> QED BY <1>1, <1>2 DEF ReaderState, S, B

\* A worker's step keeps the markers announced.
LEMMA WorkerFinals ==
    ASSUME ReaderInv, WorkerStep
    PROVE  FinalsAnnounced' /\ reader' \in [Readers -> ReaderState]
<1> USE DEF ReaderInv
<1>0. TypeOK /\ IInv
    BY DEF IInv
<1>1. /\ reader' \in [Readers -> ReaderState]
      /\ \A g \in Readers : reader'[g].inbox = reader[g].inbox /\ reader'[g].st = reader[g].st
  <2>1. \A g \in Readers : reader'[g] \in {reader[g], [reader[g] EXCEPT !.fetched = 0]}
    BY DEF WorkerStep
  <2>2. \A g \in Readers : reader[g] \in ReaderState
    BY DEF ReaderTypeOK
  <2>3. \A g \in Readers : reader'[g] \in ReaderState
    BY <2>1, <2>2, Rewound
  <2>4. \A g \in Readers : reader'[g].inbox = reader[g].inbox /\ reader'[g].st = reader[g].st
    BY <2>1, <2>2, Rewound
  <2> QED BY <2>3, <2>4 DEF WorkerStep
<1>2. CASE \E e \in Entries : Submit(e)
    BY <1>1, <1>2 DEF Submit, FinalsAnnounced
<1>3. ASSUME NEW w \in Workers, StepOf(w)
      PROVE  FinalsAnnounced'
  <2>1. announced \subseteq announced'
    BY <1>0, <1>3, ResultsForms
  <2>2. ASSUME NEW r \in Requests, NEW i \in 1..Len(results'[r]), results'[r][i].kind = "final"
        PROVE  r \in announced'
    <3>1. CASE results' = results
      BY <2>1, <2>2, <3>1 DEF FinalsAnnounced
    <3>2. CASE Cleared(w)
      BY <1>0, <2>1, <2>2, <3>2 DEF Cleared, FinalsAnnounced, TypeOK
    <3>3. ASSUME NEW k \in {"chunk", "final", "error"}, NEW n \in Nat, Published(w, k, n)
          PROVE  r \in announced'
      <4>1. pc[w] \in Handling
        BY <3>3 DEF Published, Handling
      <4>2. CASE r # Req(w)
        BY <1>0, <2>1, <2>2, <3>3, <4>2 DEF Published, FinalsAnnounced, TypeOK
      <4>3. CASE r = Req(w)
        <5> DEFINE c == Chunk(w, k, n)
        <5>1. results'[r] = Append(results[r], c) /\ results[r] \in Seq(Result) /\ c \in Result
          BY <1>0, <3>3, <4>1, <4>3, WriterTyped DEF Published, TypeOK
        <5>2. c.kind = k
          BY DEF Chunk
        <5> HIDE DEF c
        <5>3. CASE i \in 1..Len(results[r])
          <6>1. results[r][i].kind = "final"
            BY <2>2, <5>1, <5>3
          <6> QED BY <2>1, <5>3, <6>1 DEF FinalsAnnounced
        <5>4. CASE i = Len(results[r]) + 1
          <6>1. k = "final"
            BY <2>2, <5>1, <5>2, <5>4
          <6> QED BY <3>3, <4>3, <6>1 DEF Published
        <5> QED BY <5>1, <5>3, <5>4
      <4> QED BY <4>2, <4>3
    <3> QED BY <1>0, <1>3, <3>1, <3>2, <3>3, ResultsForms
  <2> QED BY <1>1, <2>1, <2>2 DEF FinalsAnnounced
<1> QED BY <1>1, <1>2, <1>3 DEF WorkerStep, Next, StepOf

-----------------------------------------------------------------------------
(* What a caller does with a chunk.                                        *)

\* The caller after it has looked at the attempt of its next chunk.
Looked(rd) == Reset([rd EXCEPT !.inbox = Tail(@)], rd.inbox[1].attempt)

\* It has forgotten older attempts.
LEMMA LookedAt ==
    ASSUME NEW rd \in ReaderState, rd.inbox # <<>>
    PROVE  /\ rd.inbox[1] \in Result /\ Tail(rd.inbox) \in Seq(Result)
           /\ Looked(rd) \in ReaderState
           /\ Looked(rd).st = rd.st
           /\ Looked(rd).fetched = rd.fetched
           /\ Looked(rd).inbox = Tail(rd.inbox)
           /\ IF rd.inbox[1].attempt > rd.attempt
              THEN /\ Looked(rd).attempt = rd.inbox[1].attempt
                   /\ Looked(rd).seen = {} /\ Looked(rd).body = <<>>
              ELSE /\ Looked(rd).attempt = rd.attempt
                   /\ Looked(rd).seen = rd.seen /\ Looked(rd).body = rd.body
<1> DEFINE S == Seq(Result)
           B == Seq(Nat \X (Entries \X Nat))
           a == rd.inbox[1].attempt
           t == Tail(rd.inbox)
<1>1. rd \in [st : {"off", "reading", "final", "error", "gone"}, fetched : Nat,
              inbox : S, attempt : Int, seen : SUBSET Nat, body : B]
    BY DEF ReaderState
<1>2. rd.inbox[1] \in Result /\ t \in S
    BY <1>1
<1>3. a \in Int
    BY <1>2 DEF Result
<1>4. <<>> \in B
    OBVIOUS
<1>5. Looked(rd) = IF a > rd.attempt
                   THEN [rd EXCEPT !.inbox = t, !.attempt = a, !.seen = {}, !.body = <<>>]
                   ELSE [rd EXCEPT !.inbox = t]
  <2> HIDE DEF S, B, a, t
  <2>1. [rd EXCEPT !.inbox = t].attempt = rd.attempt
    BY <1>1
  <2>2. Looked(rd) = Reset([rd EXCEPT !.inbox = t], a)
    BY DEF Looked, a, t
  <2> QED BY <1>1, <2>1, <2>2 DEF Reset
<1> HIDE DEF S, B, a, t
<1>6. /\ Looked(rd) \in [st : {"off", "reading", "final", "error", "gone"}, fetched : Nat,
                         inbox : S, attempt : Int, seen : SUBSET Nat, body : B]
      /\ Looked(rd).st = rd.st
      /\ Looked(rd).fetched = rd.fetched
      /\ Looked(rd).inbox = t
      /\ IF a > rd.attempt
         THEN Looked(rd).attempt = a /\ Looked(rd).seen = {} /\ Looked(rd).body = <<>>
         ELSE /\ Looked(rd).attempt = rd.attempt
              /\ Looked(rd).seen = rd.seen /\ Looked(rd).body = rd.body
    BY <1>1, <1>2, <1>3, <1>4, <1>5
<1> QED BY <1>2, <1>6 DEF ReaderState, S, B, a, t

\* The chunk is dropped, collected, or ends the read.
Skipped(g) ==
    LET c == reader[g].inbox[1]
        rd == Looked(reader[g])
    IN  /\ c.attempt < rd.attempt \/ (c.kind = "chunk" /\ c.seq \in rd.seen)
        /\ reader' = [reader EXCEPT ![g] = rd]
        /\ UNCHANGED vars

Collected(g) ==
    LET c == reader[g].inbox[1]
        rd == Looked(reader[g])
    IN  /\ c.attempt = rd.attempt /\ c.kind = "chunk" /\ c.seq \notin rd.seen
        /\ \E new \in ReaderState :
             /\ reader' = [reader EXCEPT ![g] = new]
             /\ new.st = rd.st /\ new.fetched = rd.fetched /\ new.inbox = rd.inbox
             /\ new.attempt = rd.attempt
             /\ new.seen = rd.seen \cup {c.seq}
             /\ new.body = Append(rd.body, <<c.seq, c.src>>)
        /\ UNCHANGED vars

\* Caller g stops with st, and the stream is DELeted.
Stopped(g, st, body) ==
    /\ reader' \in [Readers -> ReaderState]
    /\ reader'[g].st = st /\ reader'[g].inbox = <<>> /\ reader'[g].body = body
    /\ \A f \in Readers \ {g} :
         reader'[f] \in {reader[f], [reader[f] EXCEPT !.fetched = 0]}
         /\ (Awaits[f] # Awaits[g] => reader'[f] = reader[f])
    /\ DelStream(g)
    /\ UNCHANGED <<queue, pel, acked, deliveries, dlq, idem, usage, artifacts, pc, task,
                   announced, faults, steals>>

\* A stop, and the new streams every waiting caller starts over on.
LEMMA StopForm ==
    ASSUME reader \in [Readers -> ReaderState], NEW g \in Readers,
           NEW rd \in ReaderState, NEW st \in {"final", "error", "gone"},
           reader' = Rewind([reader EXCEPT ![g] = [rd EXCEPT !.st = st, !.inbox = <<>>]],
                            Awaits[g]),
           DelStream(g),
           UNCHANGED <<jobVars, dlq, announced, dbVars, artifacts, pc, task, boundVars>>
    PROVE  Stopped(g, st, rd.body)
<1> DEFINE S == Seq(Result)
           B == Seq(Nat \X (Entries \X Nat))
           new == [rd EXCEPT !.st = st, !.inbox = <<>>]
           now == [reader EXCEPT ![g] = new]
<1>1. rd \in [st : {"off", "reading", "final", "error", "gone"}, fetched : Nat,
              inbox : S, attempt : Int, seen : SUBSET Nat, body : B]
    BY DEF ReaderState
<1>2. <<>> \in S
    OBVIOUS
<1> HIDE DEF S, B
<1>3. /\ new \in [st : {"off", "reading", "final", "error", "gone"}, fetched : Nat,
                  inbox : S, attempt : Int, seen : SUBSET Nat, body : B]
      /\ new.st = st /\ new.inbox = <<>> /\ new.body = rd.body
    BY <1>1, <1>2
<1>4. new \in ReaderState
    BY <1>3 DEF ReaderState, S, B
<1> HIDE DEF new
<1>5. /\ \A f \in Readers : now[f] \in ReaderState
      /\ now[g] = new /\ \A f \in Readers \ {g} : now[f] = reader[f]
    BY <1>4
<1>6. \A f \in Readers :
         reader'[f] = IF Awaits[f] = Awaits[g] THEN [now[f] EXCEPT !.fetched = 0] ELSE now[f]
    BY DEF Rewind, new
<1>7. reader' = [f \in Readers |-> IF Awaits[f] = Awaits[g]
                                   THEN [now[f] EXCEPT !.fetched = 0] ELSE now[f]]
    BY DEF Rewind, new
<1> HIDE DEF now
<1>8. reader' \in [Readers -> ReaderState]
    BY <1>5, <1>7, Rewound
<1>9. reader'[g].st = st /\ reader'[g].inbox = <<>> /\ reader'[g].body = rd.body
    BY <1>3, <1>4, <1>5, <1>6, Rewound
<1>10. \A f \in Readers \ {g} :
         reader'[f] \in {reader[f], [reader[f] EXCEPT !.fetched = 0]}
         /\ (Awaits[f] # Awaits[g] => reader'[f] = reader[f])
    BY <1>5, <1>6
<1> QED BY <1>8, <1>9, <1>10 DEF Stopped, jobVars, dbVars, boundVars

\* What XREAD returns: the rest of the stream.
LEMMA Suffix ==
    ASSUME NEW S, NEW s \in Seq(S), NEW n \in 0..Len(s)
    PROVE  LET t == SubSeq(s, n + 1, Len(s))
           IN  /\ t \in Seq(S)
               /\ Len(t) = Len(s) - n
               /\ \A i \in 1..Len(t) : t[i] = s[n + i] /\ n + i \in 1..Len(s)
<1> DEFINE t == SubSeq(s, n + 1, Len(s))
<1>0. Len(s) \in Nat /\ n \in Nat /\ n + 1 \in 1..Len(s) + 1
    OBVIOUS
<1>1. /\ t \in Seq(S)
      /\ Len(t) = IF n + 1 <= Len(s) THEN Len(s) - (n + 1) + 1 ELSE 0
      /\ \A i \in 1..(Len(s) - (n + 1) + 1) : t[i] = s[(n + 1) + i - 1]
    BY <1>0, SubSeqProperties
<1> QED BY <1>0, <1>1

\* What happens to the next chunk of a caller's inbox.
LEMMA ConsumeForms ==
    ASSUME ReaderTypeOK, NEW g \in Readers, Consume(g)
    PROVE  /\ reader[g].st = "reading" /\ reader[g].inbox # <<>>
           /\ \/ Skipped(g)
              \/ Collected(g)
              \/ LET c == reader[g].inbox[1]
                     rd == Looked(reader[g])
                 IN  c.attempt = rd.attempt /\ c.kind # "chunk" /\ Stopped(g, c.kind, rd.body)
<1> DEFINE c == reader[g].inbox[1]
           rd == Looked(reader[g])
<1>1. reader[g].st = "reading" /\ reader[g].inbox # <<>> /\ reader[g] \in ReaderState
    BY DEF Consume, ReaderTypeOK
<1>2. /\ Head(reader[g].inbox) = c
      /\ Reset([reader[g] EXCEPT !.inbox = Tail(@)], c.attempt) = rd
      /\ c \in Result /\ rd \in ReaderState
  <2>1. Head(reader[g].inbox) = c
    BY <1>1 DEF ReaderState
  <2>2. Reset([reader[g] EXCEPT !.inbox = Tail(@)], c.attempt) = rd
    BY DEF Looked
  <2>3. c \in Result /\ rd \in ReaderState
    BY <1>1, LookedAt
  <2> QED BY <2>1, <2>2, <2>3
<1>3. \/ /\ c.attempt < rd.attempt \/ (c.kind = "chunk" /\ c.seq \in rd.seen)
         /\ reader' = [reader EXCEPT ![g] = rd]
         /\ UNCHANGED vars
      \/ /\ c.attempt = rd.attempt
         /\ c.kind = "chunk"
         /\ c.seq \notin rd.seen
         /\ reader' = [reader EXCEPT ![g] =
                         [rd EXCEPT !.seen = @ \cup {c.seq},
                                    !.body = Append(@, <<c.seq, c.src>>)]]
         /\ UNCHANGED vars
      \/ /\ c.attempt = rd.attempt
         /\ c.kind # "chunk"
         /\ reader' = Rewind([reader EXCEPT ![g] =
                         [rd EXCEPT !.st = c.kind, !.inbox = <<>>]], Awaits[g])
         /\ DelStream(g)
         /\ UNCHANGED <<jobVars, dlq, announced, dbVars, artifacts, pc, task, boundVars>>
    BY <1>2 DEF Consume
<1> HIDE DEF rd, c
<1>4. CASE /\ c.attempt < rd.attempt \/ (c.kind = "chunk" /\ c.seq \in rd.seen)
           /\ reader' = [reader EXCEPT ![g] = rd]
           /\ UNCHANGED vars
    BY <1>1, <1>4 DEF Skipped, rd, c
<1>5. CASE /\ c.attempt = rd.attempt
           /\ c.kind = "chunk"
           /\ c.seq \notin rd.seen
           /\ reader' = [reader EXCEPT ![g] =
                           [rd EXCEPT !.seen = @ \cup {c.seq},
                                      !.body = Append(@, <<c.seq, c.src>>)]]
           /\ UNCHANGED vars
  <2> DEFINE S == Seq(Result)
             B == Seq(Nat \X (Entries \X Nat))
             b == Append(rd.body, <<c.seq, c.src>>)
             new == [rd EXCEPT !.seen = rd.seen \cup {c.seq}, !.body = b]
  <2>1. rd \in [st : {"off", "reading", "final", "error", "gone"}, fetched : Nat,
                inbox : S, attempt : Int, seen : SUBSET Nat, body : B]
    BY <1>2 DEF ReaderState
  <2>2. <<c.seq, c.src>> \in Nat \X (Entries \X Nat) /\ c.seq \in Nat
    BY <1>2 DEF Result
  <2>3. b \in B
    BY <2>1, <2>2
  <2> HIDE DEF S, B, b
  <2>4. /\ new \in [st : {"off", "reading", "final", "error", "gone"}, fetched : Nat,
                    inbox : S, attempt : Int, seen : SUBSET Nat, body : B]
        /\ new.st = rd.st /\ new.fetched = rd.fetched /\ new.inbox = rd.inbox
        /\ new.attempt = rd.attempt
        /\ new.seen = rd.seen \cup {c.seq} /\ new.body = b
    BY <2>1, <2>2, <2>3
  <2>5. reader' = [reader EXCEPT ![g] = new]
    BY <1>5 DEF b
  <2> HIDE DEF new
  <2>6. new \in ReaderState
    BY <2>4 DEF ReaderState, S, B
  <2>7. Collected(g)
    BY <1>5, <2>4, <2>5, <2>6 DEF Collected, b, rd, c
  <2> QED BY <1>1, <2>7
<1>6. CASE /\ c.attempt = rd.attempt
           /\ c.kind # "chunk"
           /\ reader' = Rewind([reader EXCEPT ![g] =
                           [rd EXCEPT !.st = c.kind, !.inbox = <<>>]], Awaits[g])
           /\ DelStream(g)
           /\ UNCHANGED <<jobVars, dlq, announced, dbVars, artifacts, pc, task, boundVars>>
  <2>1. c.kind \in {"final", "error", "gone"}
    BY <1>2, <1>6 DEF Result
  <2>2. Stopped(g, c.kind, rd.body)
    BY <1>2, <1>6, <2>1, StopForm DEF ReaderTypeOK
  <2> QED BY <1>1, <1>6, <2>2 DEF rd, c
<1> QED BY <1>3, <1>4, <1>5, <1>6

\* A caller that gives up stops as well.
LEMMA GiveUpForm ==
    ASSUME ReaderTypeOK, NEW g \in Readers, GiveUp(g)
    PROVE  Stopped(g, "gone", reader[g].body)
<1>1. reader' = Rewind([reader EXCEPT ![g] = [reader[g] EXCEPT !.st = "gone", !.inbox = <<>>]],
                       Awaits[g])
    BY DEF GiveUp, ReaderTypeOK
<1> QED BY <1>1, StopForm DEF GiveUp, ReaderTypeOK

-----------------------------------------------------------------------------
(* Durability.                                                             *)

\* A caller's step keeps the markers announced.
LEMMA ReaderFinals ==
    ASSUME ReaderInv, NEW g \in Readers,
           Open(g) \/ XRead(g) \/ Consume(g) \/ GiveUp(g)
    PROVE  ReaderInv'
<1> USE DEF ReaderInv
<1>0. /\ TypeOK /\ IInv /\ reader \in [Readers -> ReaderState]
      /\ Awaits[g] \in Requests /\ Awaits \in [Readers -> Requests]
    BY ReadersAssumption DEF ReaderTypeOK
<1>1. ASSUME UNCHANGED vars, NEW rd \in ReaderState, reader' = [reader EXCEPT ![g] = rd],
             \A i \in 1..Len(rd.inbox) : rd.inbox[i].kind = "final" => Awaits[g] \in announced,
             rd.st = "final" => Awaits[g] \in announced
      PROVE  ReaderInv'
  <2>1. IInv' /\ TypeOK'
    BY <1>0, <1>1, Inductive DEF IInv
  <2>2. reader' \in [Readers -> ReaderState]
    BY <1>0, <1>1
  <2>3. \A f \in Readers : reader'[f] = IF f = g THEN rd ELSE reader[f]
    BY <1>0, <1>1
  <2>4. UNCHANGED <<results, announced>>
    BY <1>1 DEF vars
  <2>5. FinalsAnnounced'
    BY <1>1, <2>3, <2>4 DEF FinalsAnnounced
  <2> QED BY <2>1, <2>2, <2>5 DEF ReaderTypeOK
<1>2. ASSUME NEW st \in {"final", "error", "gone"}, NEW body, Stopped(g, st, body),
             st = "final" => Awaits[g] \in announced
      PROVE  ReaderInv'
  <2>1. /\ UNCHANGED <<queue, pel, acked, deliveries, dlq, idem, usage, artifacts, pc, task,
                       announced, faults, steals>>
        /\ results' = [results EXCEPT ![Awaits[g]] = <<>>]
    BY <1>2 DEF Stopped, DelStream
  <2>2. IInv' /\ TypeOK'
    BY <1>0, <2>1 DEF IInv, TypeOK, CompleteIsDurable, FinalAfterCommit, AckedHasOutcome, StageOK
  <2>3. reader' \in [Readers -> ReaderState]
    BY <1>2 DEF Stopped
  <2>4. \A f \in Readers \ {g} : reader'[f].st = reader[f].st /\ reader'[f].inbox = reader[f].inbox
    BY <1>0, <1>2, Rewound DEF Stopped
  <2>5. reader'[g].st = st /\ reader'[g].inbox = <<>>
    BY <1>2 DEF Stopped
  <2>6. FinalsAnnounced'
    <3>1. \A r \in Requests : \A i \in 1..Len(results'[r]) :
             results'[r][i].kind = "final" => r \in announced
      <4>1. \A r \in Requests : results'[r] = IF r = Awaits[g] THEN <<>> ELSE results[r]
        BY <1>0, <2>1 DEF TypeOK
      <4>2. \A i \in 1..Len(<<>>) : FALSE
        OBVIOUS
      <4> QED BY <4>1, <4>2 DEF FinalsAnnounced
    <3>2. \A f \in Readers : \A i \in 1..Len(reader'[f].inbox) :
             reader'[f].inbox[i].kind = "final" => Awaits[f] \in announced
      BY <2>4, <2>5 DEF FinalsAnnounced
    <3>3. \A f \in Readers : reader'[f].st = "final" => Awaits[f] \in announced
      BY <1>2, <2>4, <2>5 DEF FinalsAnnounced
    <3>4. announced' = announced
      BY <2>1
    <3> QED BY <3>1, <3>2, <3>3, <3>4 DEF FinalsAnnounced
  <2> QED BY <2>2, <2>3, <2>6 DEF ReaderTypeOK
<1>3. CASE Open(g)
  <2> DEFINE S == Seq(Result)
             B == Seq(Nat \X (Entries \X Nat))
             rd == [reader[g] EXCEPT !.st = "reading"]
  <2>1. reader[g] \in [st : {"off", "reading", "final", "error", "gone"}, fetched : Nat,
                       inbox : S, attempt : Int, seen : SUBSET Nat, body : B]
    BY <1>0 DEF ReaderState
  <2> HIDE DEF S, B
  <2>2. /\ rd \in [st : {"off", "reading", "final", "error", "gone"}, fetched : Nat,
                   inbox : S, attempt : Int, seen : SUBSET Nat, body : B]
        /\ rd.st = "reading" /\ rd.inbox = reader[g].inbox
    BY <2>1
  <2>3. reader' = [reader EXCEPT ![g] = rd] /\ UNCHANGED vars
    BY <1>3 DEF Open
  <2>4. rd \in ReaderState
    BY <2>2 DEF ReaderState, S, B
  <2> HIDE DEF rd
  <2> QED BY <1>1, <2>2, <2>3, <2>4 DEF FinalsAnnounced
<1>4. CASE XRead(g)
  <2> DEFINE S == Seq(Result)
             B == Seq(Nat \X (Entries \X Nat))
             s == results[Awaits[g]]
             t == SubSeq(s, reader[g].fetched + 1, Len(s))
             rd == [reader[g] EXCEPT !.inbox = t, !.fetched = Len(s)]
  <2>1. reader[g] \in [st : {"off", "reading", "final", "error", "gone"}, fetched : Nat,
                       inbox : S, attempt : Int, seen : SUBSET Nat, body : B]
    BY <1>0 DEF ReaderState
  <2>2. s \in Seq(Result) /\ Len(s) \in Nat
    BY <1>0 DEF TypeOK
  <2>3. t \in S /\ \A i \in 1..Len(t) : t[i] = s[reader[g].fetched + i]
                                        /\ reader[g].fetched + i \in 1..Len(s)
    <3>1. reader[g].fetched \in Nat /\ reader[g].fetched < Len(s)
      BY <1>4, <2>1 DEF XRead
    <3> DEFINE n == reader[g].fetched
    <3>2. n \in 0..Len(s)
      BY <2>2, <3>1
    <3>3. /\ SubSeq(s, n + 1, Len(s)) \in Seq(Result)
          /\ Len(SubSeq(s, n + 1, Len(s))) = Len(s) - n
          /\ \A i \in 1..Len(SubSeq(s, n + 1, Len(s))) :
                SubSeq(s, n + 1, Len(s))[i] = s[n + i] /\ n + i \in 1..Len(s)
      <4> HIDE DEF s, n
      <4> QED BY <2>2, <3>2, Suffix, Zenon
    <3> QED BY <3>3
  <2>4. reader' = [reader EXCEPT ![g] = rd] /\ UNCHANGED vars
    BY <1>0, <1>4 DEF XRead
  <2> HIDE DEF S, B, t
  <2>5. /\ rd \in [st : {"off", "reading", "final", "error", "gone"}, fetched : Nat,
                   inbox : S, attempt : Int, seen : SUBSET Nat, body : B]
        /\ rd.st = reader[g].st /\ rd.inbox = t
    BY <2>1, <2>2, <2>3
  <2>6. rd \in ReaderState
    BY <2>5 DEF ReaderState, S, B
  <2>7. \A i \in 1..Len(t) : t[i].kind = "final" => Awaits[g] \in announced
    BY <1>0, <2>3 DEF FinalsAnnounced
  <2> HIDE DEF rd
  <2> QED BY <1>1, <2>4, <2>5, <2>6, <2>7 DEF FinalsAnnounced
<1>5. CASE Consume(g)
  <2> DEFINE c == reader[g].inbox[1]
             rd == Looked(reader[g])
  <2>1. reader[g] \in ReaderState /\ reader[g].inbox # <<>> /\ reader[g].st = "reading"
    BY <1>0, <1>5, ConsumeForms
  <2>2. rd \in ReaderState /\ rd.st = "reading" /\ rd.inbox = Tail(reader[g].inbox)
    BY <2>1, LookedAt
  <2>3. \A i \in 1..Len(rd.inbox) : rd.inbox[i].kind = "final" => Awaits[g] \in announced
    <3>1. reader[g].inbox \in Seq(Result)
      BY <2>1 DEF ReaderState
    <3>2. \A i \in 1..Len(rd.inbox) : rd.inbox[i] = reader[g].inbox[i + 1]
                                      /\ i + 1 \in 1..Len(reader[g].inbox)
      BY <2>1, <2>2, <3>1
    <3> QED BY <3>2 DEF FinalsAnnounced
  <2>4. CASE Skipped(g)
    BY <1>1, <2>2, <2>3, <2>4 DEF Skipped
  <2>5. CASE Collected(g)
    <3>1. PICK new \in ReaderState :
             /\ reader' = [reader EXCEPT ![g] = new]
             /\ new.st = rd.st /\ new.inbox = rd.inbox
             /\ UNCHANGED vars
      BY <2>5 DEF Collected
    <3> QED BY <1>1, <2>2, <2>3, <3>1
  <2>6. CASE c.kind # "chunk" /\ Stopped(g, c.kind, rd.body)
    <3>1. c \in Result /\ 1 \in 1..Len(reader[g].inbox)
      BY <2>1, LookedAt DEF ReaderState
    <3>2. c.kind \in {"final", "error", "gone"}
      BY <2>6, <3>1 DEF Result
    <3>3. c.kind = "final" => Awaits[g] \in announced
      BY <3>1 DEF FinalsAnnounced
    <3> QED BY <1>2, <2>6, <3>2, <3>3
  <2> QED BY <1>0, <1>5, <2>4, <2>5, <2>6, ConsumeForms
<1>6. CASE GiveUp(g)
    BY <1>0, <1>2, <1>6, GiveUpForm
<1> QED BY <1>3, <1>4, <1>5, <1>6

\* The markers of every stream and inbox are announced, always.
LEMMA ReaderInductive ==
    /\ ReaderInit => ReaderInv
    /\ ReaderInv /\ [ReaderNext]_allVars => ReaderInv'
<1>1. ReaderInit => ReaderInv
  <2> SUFFICES ASSUME ReaderInit PROVE ReaderInv
    OBVIOUS
  <2>1. IInv /\ TypeOK
    BY Inductive DEF ReaderInit, IInv
  <2>2. ReaderOff \in ReaderState /\ ReaderOff.st = "off" /\ ReaderOff.inbox = <<>>
    BY DEF ReaderOff, ReaderState
  <2>3. ReaderTypeOK
    BY <2>1, <2>2 DEF ReaderInit, ReaderTypeOK
  <2>4. FinalsAnnounced
    BY <2>2 DEF ReaderInit, Init, FinalsAnnounced
  <2> QED BY <2>1, <2>3, <2>4 DEF ReaderInv
<1>2. ReaderInv /\ [ReaderNext]_allVars => ReaderInv'
  <2> SUFFICES ASSUME ReaderInv, [ReaderNext]_allVars PROVE ReaderInv'
    OBVIOUS
  <2>1. CASE UNCHANGED allVars
    <3>1. IInv' /\ TypeOK'
      BY <2>1, Inductive DEF allVars, ReaderInv, IInv
    <3> QED
      BY <2>1, <3>1 DEF allVars, vars, ReaderInv, ReaderTypeOK, FinalsAnnounced
  <2>2. CASE WorkerStep
    <3>1. IInv' /\ TypeOK'
      BY <2>2, Inductive DEF WorkerStep, ReaderInv, IInv
    <3> QED
      BY <2>2, <3>1, WorkerFinals DEF ReaderInv, ReaderTypeOK
  <2> QED BY <2>1, <2>2, ReaderFinals DEF ReaderNext
<1> QED BY <1>1, <1>2

\* A caller told that its audio is done is told so of a request that is billed and
\* whose artifact is archived, whoever reads, claims or DELs what
\* (consume_result_stream, _stream_result_chunks).
THEOREM DoneDurable == ReaderSpec => []DoneIsDurable
<1>1. ReaderInv => DoneIsDurable
    BY DEF ReaderInv, IInv, FinalAfterCommit, FinalsAnnounced, DoneIsDurable
<1> QED BY <1>1, ReaderInductive, PTL DEF ReaderSpec

-----------------------------------------------------------------------------
(* Scripts.                                                                *)

\* A request has one entry.
LEMMA OwnEntry ==
    ASSUME Exclusive, NEW e \in Entries \ Malformed
    PROVE  EntryOf(Rid[e]) = e
BY DEF Exclusive, EntryOf

\* The rest of a script, after some sentences of it.
LEMMA ScriptRest ==
    ASSUME NEW s \in Seq(Result), NEW t \in Seq(Result), NEW k \in Nat, NEW n \in Nat, NEW r,
           t # <<>>, Len(t) = Len(s) - n, \A i \in 1..Len(t) : t[i] = s[n + i],
           Script(s, k, r), Lead(s, n + 1), t[1].kind # "error"
    PROVE  Script(t, k + n, r) /\ t[1].attempt = s[1].attempt
<1>1. /\ Len(s) \in Nat /\ Len(t) \in Nat /\ 1 \in 1..Len(t) /\ n + 1 \in 1..Len(s)
      /\ t[1] = s[n + 1] /\ t[1] \in Result
    OBVIOUS
<1>2. t[1].attempt = s[1].attempt
    BY <1>1 DEF Script, Result
<1>3. ASSUME NEW i \in 1..Len(t), Lead(t, i)
      PROVE  /\ t[i].kind = "chunk" =>
                  /\ t[i].attempt = t[1].attempt
                  /\ t[i].src = <<EntryOf(r), t[1].attempt>>
                  /\ t[i].seq = k + n + i - 1
                  /\ k + n + i <= Sentences[r]
             /\ t[i].kind = "final" =>
                  t[i].attempt = t[1].attempt /\ k + n + i = Sentences[r] + 1
             /\ t[i].attempt >= t[1].attempt
  <2>1. n + i \in 1..Len(s) /\ t[i] = s[n + i]
    BY <1>1, <1>3
  <2>2. Lead(s, n + i)
    <3> SUFFICES ASSUME NEW j \in 1..(n + i - 1) PROVE s[j].kind = "chunk"
      BY DEF Lead
    <3>1. CASE j <= n
      BY <3>1 DEF Lead
    <3>2. CASE j > n
      <4>1. j - n \in 1..(i - 1) /\ j - n \in 1..Len(t) /\ n + (j - n) = j
        BY <1>1, <3>2
      <4> QED BY <1>3, <4>1 DEF Lead
    <3> QED BY <3>1, <3>2
  <2>3. /\ s[n + i].kind = "chunk" =>
             /\ s[n + i].attempt = s[1].attempt
             /\ s[n + i].src = <<EntryOf(r), s[1].attempt>>
             /\ s[n + i].seq = k + (n + i) - 1
             /\ k + (n + i) <= Sentences[r]
        /\ s[n + i].kind = "final" =>
             s[n + i].attempt = s[1].attempt /\ k + (n + i) = Sentences[r] + 1
        /\ s[n + i].attempt >= s[1].attempt
    BY <2>1, <2>2 DEF Script
  <2>4. k + n + i = k + (n + i) /\ k + n + i - 1 = k + (n + i) - 1
    OBVIOUS
  <2> QED BY <1>2, <2>1, <2>3, <2>4
<1> QED BY <1>2, <1>3 DEF Script

\* A script that goes on with c.
LEMMA ScriptAppend ==
    ASSUME NEW s \in Seq(Result), NEW c \in Result, NEW r, Script(s, 0, r),
           \A i \in 1..Len(s) : c.attempt >= s[i].attempt,
           c.kind \in {"chunk", "final"} =>
               \A i \in 1..Len(s) : s[i].kind = "chunk" /\ s[i].attempt = c.attempt,
           c.kind = "chunk" =>
               /\ c.src = <<EntryOf(r), c.attempt>>
               /\ c.seq = Len(s)
               /\ Len(s) < Sentences[r],
           c.kind = "final" => Len(s) = Sentences[r],
           Sentences[r] \in Nat
    PROVE  Script(Append(s, c), 0, r)
<1> DEFINE t == Append(s, c)
<1>1. /\ Len(s) \in Nat /\ Len(t) = Len(s) + 1
      /\ \A i \in 1..Len(s) : t[i] = s[i]
      /\ t[Len(s) + 1] = c
    OBVIOUS
<1>2. t[1].attempt \in Nat /\ c.attempt \in Nat
      /\ (s # <<>> => t[1] = s[1] /\ 1 \in 1..Len(s)) /\ (s = <<>> => t[1] = c)
  <2>1. c.attempt \in Nat
    BY DEF Result
  <2>2. CASE s = <<>>
    <3>1. t[1] = c
      BY <1>1, <2>2
    <3> QED BY <2>1, <2>2, <3>1
  <2>3. CASE s # <<>>
    <3>1. 1 \in 1..Len(s) /\ t[1] = s[1] /\ s[1] \in Result
      BY <1>1, <2>3
    <3> QED BY <2>1, <2>3, <3>1 DEF Result
  <2> QED BY <2>2, <2>3
<1> HIDE DEF t
<1>3. ASSUME NEW i \in 1..Len(t), Lead(t, i)
      PROVE  /\ t[i].kind = "chunk" =>
                  /\ t[i].attempt = t[1].attempt
                  /\ t[i].src = <<EntryOf(r), t[1].attempt>>
                  /\ t[i].seq = 0 + i - 1
                  /\ 0 + i <= Sentences[r]
             /\ t[i].kind = "final" =>
                  t[i].attempt = t[1].attempt /\ 0 + i = Sentences[r] + 1
             /\ t[i].attempt >= t[1].attempt
  <2>1. CASE i \in 1..Len(s)
    <3>1. t[i] = s[i] /\ t[1] = s[1] /\ Lead(s, i)
      BY <1>1, <1>2, <1>3, <2>1 DEF Lead
    <3> QED BY <2>1, <3>1 DEF Script
  <2>2. CASE i = Len(s) + 1
    <3>1. t[i] = c /\ c.attempt >= t[1].attempt
          /\ (c.kind \in {"chunk", "final"} => c.attempt = t[1].attempt)
      BY <1>1, <1>2, <2>2
    <3> QED BY <1>1, <2>2, <3>1
  <2> QED BY <1>1, <2>1, <2>2
<1> QED BY <1>3 DEF Script, t

-----------------------------------------------------------------------------
(* The workers' part of exact audio.                                       *)

\* How a worker gets from one await of process_one_job to the next.
StageForm(w) ==
    \/ pc'[w] \in {"idle", "down", "retry", "error", "fail", "dlq", "ack"}
    \/ /\ pc'[w] = "attempt" /\ task'[w].seq = 0
       /\ task'[w].take = deliveries[task'[w].entry] + 1
       /\ task'[w].entry \in Entries \ Malformed
       /\ results' = results
    \/ /\ pc[w] = "attempt" /\ pc'[w] = "clear"
       /\ task'[w].seq = task[w].seq
       /\ task'[w].entry = task[w].entry /\ task'[w].take = task[w].take
       /\ results' = results
    \/ Cleared(w)
    \/ pc[w] = "resolve" /\ Goto(w, "engine") /\ results' = results
    \/ /\ pc[w] = "engine" /\ pc'[w] = "engine"
       /\ Published(w, "chunk", task[w].seq)
       /\ task'[w].seq = task[w].seq + 1
       /\ task'[w].entry = task[w].entry /\ task'[w].take = task[w].take
    \/ /\ pc[w] = "engine" /\ Goto(w, "archive") /\ results' = results
       /\ task[w].seq = Sentences[Req(w)]
    \/ pc[w] = "archive" /\ Goto(w, "commit") /\ results' = results
    \/ pc[w] = "commit" /\ Goto(w, "final") /\ results' = results

\* Every step of a worker has one of those forms.
LEMMA StageForms ==
    ASSUME TypeOK, NEW w \in Workers, StepOf(w)
    PROVE  StageForm(w)
<1> USE DEF redisVars, jobVars, dbVars, boundVars
<1>0. task[w] \in Task
    BY DEF TypeOK
<1>1. ASSUME NEW e \in Entries, NEW via, Take(w, e, via), results' = results PROVE StageForm(w)
  <2>1. CASE e \in Malformed
    BY <1>1, <2>1 DEF Take, StageForm, TypeOK
  <2>2. CASE e \notin Malformed
    BY <1>1, <2>2 DEF Take, StageForm, TypeOK
  <2> QED BY <2>1, <2>2
<1>2. CASE Tick(w)
  <2>1. Head(queue) \in Entries
    BY <1>2 DEF Tick, TypeOK
  <2> QED BY <1>1, <1>2, <2>1 DEF Tick
<1>3. CASE \E e \in Entries : Sweep(w, e)
    BY <1>1, <1>3 DEF Sweep
<1>4. CASE ReadAttempt(w)
    BY <1>0, <1>4 DEF ReadAttempt, StageForm, TypeOK, Task
<1>5. CASE ClearResults(w)
    BY <1>5 DEF ClearResults, Cleared, StageForm
<1>6. CASE Resolve(w) \/ EngineDone(w) \/ Archive(w) \/ Commit(w)
    BY <1>6 DEF Resolve, EngineDone, Archive, Commit, Goto, StageForm, TypeOK
<1>7. CASE PublishChunk(w)
  <2>1. Published(w, "chunk", task[w].seq)
    BY <1>7 DEF PublishChunk, XaddResult, Published, Chunk
  <2> QED BY <1>0, <1>7, <2>1 DEF PublishChunk, Goto, StageForm, TypeOK, Task
<1>8. CASE \/ PublishFinal(w) \/ Retry(w) \/ PublishError(w) \/ FailRequest(w) \/ SendToDlq(w)
           \/ Ack(w) \/ Restart(w) \/ Raises(w) \/ Crash(w)
    BY <1>8 DEF PublishFinal, Retry, PublishError, FailRequest, SendToDlq, Ack, Restart,
       Raises, Crash, RaiseFrom, Escape, Leave, Goto, StageForm, TypeOK
<1> QED BY <1>2, <1>3, <1>4, <1>5, <1>6, <1>7, <1>8 DEF StepOf, Step

\* A worker's step leaves the other workers alone, and delivery counts only grow.
LEMMA StepShape ==
    ASSUME TypeOK, MaxSteals = 0, ~CountMayFail, NEW w \in Workers, StepOf(w)
    PROVE  /\ \A v \in Workers \ {w} : pc'[v] = pc[v] /\ task'[v] = task[v]
           /\ \A e \in Entries : deliveries'[e] >= deliveries[e]
<1>1. CASE Taken(w)
    BY <1>1 DEF Taken, Take, TypeOK
<1>2. CASE Restarted(w) \/ Dropped(w) \/ Settled(w) \/ Moved(w)
    BY <1>2 DEF Restarted, Dropped, Settled, Moved, Goto, Leave, jobVars, TypeOK
<1> QED BY <1>1, <1>2, TaskForms

\* A worker publishes on the stream of its request, stamped with the last delivery.
LEMMA Publisher ==
    ASSUME Exclusive, TypeOK, HoldersInv, NEW w \in Workers, StageOK(w),
           NEW k \in {"chunk", "final", "error"}, NEW n \in Nat, Published(w, k, n)
    PROVE  LET r == Req(w)
               c == Chunk(w, k, n)
           IN  /\ pc[w] \in Handling /\ r \in Requests /\ results[r] \in Seq(Result)
               /\ task[w].entry \in Entries \ Malformed /\ EntryOf(r) = task[w].entry
               /\ c \in Result /\ c.kind = k /\ c.seq = n
               /\ c.attempt = task[w].take /\ c.attempt = deliveries[EntryOf(r)]
               /\ c.attempt >= 1
               /\ c.src = <<EntryOf(r), c.attempt>>
               /\ results' = [results EXCEPT ![r] = Append(results[r], c)]
<1>1. pc[w] \in {"engine", "final", "error"}
    BY DEF Published
<1>2. pc[w] \in Handling /\ task[w].entry \in Entries \ Malformed /\ pc[w] \in Beyond
    BY <1>1 DEF Handling, Beyond, StageOK, TypeOK
<1>3. Req(w) \in Requests /\ results[Req(w)] \in Seq(Result) /\ Chunk(w, k, n) \in Result
    BY <1>2, WriterTyped
<1>4. EntryOf(Req(w)) = task[w].entry
    BY <1>2, OwnEntry DEF Req
<1>5. /\ task[w].attempt = task[w].take /\ task[w].take = deliveries[task[w].entry]
      /\ task[w].take >= 1
    BY <1>2 DEF HoldersInv, HolderOK
<1> QED BY <1>2, <1>3, <1>4, <1>5 DEF Published, Chunk

\* What a worker puts on a clean stream goes on with its script.
LEMMA StreamKept ==
    ASSUME Exclusive, TypeOK, HoldersInv, NEW w \in Workers, StageOK(w), WriterOK(w),
           StepOf(w), NEW r \in Requests, Clean(r), StreamOK(r)
    PROVE  StreamOK(r)'
<1>0. /\ \A e \in Entries : deliveries'[e] >= deliveries[e]
      /\ MaxSteals = 0 /\ ~CountMayFail
      /\ deliveries' \in [Entries -> Nat] /\ deliveries \in [Entries -> Nat]
      /\ results[r] \in Seq(Result)
  <2>1. TypeOK'
    BY StepType DEF StepOf
  <2> QED BY <2>1, StepShape DEF Exclusive, TypeOK
<1>1. CASE results'[r] = results[r]
  <2>1. CASE results[r] = <<>>
    BY <1>1, <2>1 DEF StreamOK, Script
  <2>2. CASE results[r] # <<>>
    <3>1. \A i \in 1..Len(results[r]) : results[r][i].attempt \in 1..deliveries'[EntryOf(r)]
      BY <1>0, <2>2 DEF StreamOK
    <3> QED BY <1>1, <2>2, <3>1 DEF StreamOK, Script, Lead
  <2> QED BY <2>1, <2>2
<1>2. CASE results'[r] = <<>>
  BY <1>2 DEF StreamOK, Script
<1>3. ASSUME NEW k \in {"chunk", "final", "error"}, NEW n \in Nat, Published(w, k, n), r = Req(w)
      PROVE  StreamOK(r)'
  <2> DEFINE c == Chunk(w, k, n)
             s == results[r]
             e == EntryOf(r)
  <2>1. /\ pc[w] \in Handling
        /\ task[w].entry \in Entries \ Malformed /\ e = task[w].entry
        /\ c \in Result /\ c.kind = k /\ c.seq = n
        /\ c.attempt = task[w].take /\ c.attempt = deliveries[e]
        /\ c.attempt >= 1
        /\ c.src = <<e, c.attempt>>
        /\ results' = [results EXCEPT ![r] = Append(s, c)]
    BY <1>3, Publisher
  <2>2. k = "chunk" => pc[w] = "engine" /\ n = task[w].seq /\ n < Sentences[r]
    BY <1>3 DEF Published
  <2>3. k = "final" => pc[w] = "final" /\ n = task[w].seq
    BY <1>3 DEF Published
  <2>4. k \in {"chunk", "final"} =>
          Len(s) = task[w].seq /\ \A i \in 1..Len(s) : s[i].kind = "chunk" /\ s[i].attempt = c.attempt
    BY <1>3, <2>1, <2>2, <2>3 DEF WriterOK
  <2>5. k = "final" => Len(s) = Sentences[r]
    BY <1>3, <2>1, <2>3, <2>4 DEF WriterOK
  <2>6. \A i \in 1..Len(s) : s[i].attempt \in 1..deliveries[e]
    BY DEF StreamOK
  <2>7. c.attempt \in Nat /\ \A i \in 1..Len(s) : c.attempt >= s[i].attempt
    BY <1>0, <2>1, <2>6
  <2>8. results'[r] = Append(s, c) /\ s \in Seq(Result) /\ Sentences[r] \in Nat
    BY <1>0, <2>1, ConstantsAssumption DEF TypeOK
  <2>9. Script(s, 0, r)
    BY DEF StreamOK
  <2> HIDE DEF c, s
  <2>10. c.kind = "chunk" => c.src = <<EntryOf(r), c.attempt>> /\ c.seq = Len(s) /\ Len(s) < Sentences[r]
    BY <2>1, <2>2, <2>4
  <2>11. Script(Append(s, c), 0, r)
    BY <2>1, <2>4, <2>5, <2>7, <2>8, <2>9, <2>10, ScriptAppend
  <2>12. \A i \in 1..Len(Append(s, c)) : Append(s, c)[i].attempt \in 1..deliveries'[e]
    <3>1. \A i \in 1..Len(Append(s, c)) :
             (i \in 1..Len(s) /\ Append(s, c)[i] = s[i]) \/ Append(s, c)[i] = c
      BY <2>8
    <3>2. deliveries'[e] \in Nat /\ deliveries[e] \in Nat /\ deliveries'[e] >= deliveries[e]
      BY <1>0, <2>1
    <3>3. c.attempt \in 1..deliveries'[e]
      BY <2>1, <2>7, <3>2
    <3>4. \A i \in 1..Len(s) : s[i].attempt \in 1..deliveries'[e]
      BY <2>6, <3>2
    <3> QED BY <3>1, <3>3, <3>4
  <2>13. Script(results'[r], 0, r) /\ e \in Entries \ Malformed
         /\ \A i \in 1..Len(results'[r]) : results'[r][i].attempt \in 1..deliveries'[e]
    BY <2>1, <2>8, <2>11, <2>12
  <2> QED BY <2>13 DEF StreamOK, Script, Lead
<1>4. \/ results'[r] = results[r]
      \/ results'[r] = <<>>
      \/ \E k \in {"chunk", "final", "error"}, n \in Nat : Published(w, k, n) /\ r = Req(w)
  <2>1. CASE results' = results
    BY <2>1
  <2>2. CASE Cleared(w)
    BY <2>2 DEF Cleared, TypeOK
  <2>3. ASSUME NEW k \in {"chunk", "final", "error"}, NEW n \in Nat, Published(w, k, n)
        PROVE  results'[r] = results[r] \/ r = Req(w)
    BY <2>3 DEF Published, TypeOK
  <2> QED BY <2>1, <2>2, <2>3, ResultsForms
<1> QED BY <1>1, <1>2, <1>3, <1>4

\* A worker's step keeps what every worker knows of its clean stream.
LEMMA WriterKept ==
    ASSUME Exclusive, TypeOK, HoldersInv, NEW w \in Workers, StageOK(w), StepOf(w),
           \A v \in Workers : WriterOK(v), \A r \in Requests : Clean(r) => StreamOK(r),
           reader' \in [Readers -> ReaderState],
           \A g \in Readers : reader'[g].st = reader[g].st,
           NEW v \in Workers
    PROVE  WriterOK(v)'
<1>0. /\ \A u \in Workers \ {w} : pc'[u] = pc[u] /\ task'[u] = task[u]
      /\ MaxSteals = 0 /\ ~CountMayFail
      /\ \A r : Clean(r)' => Clean(r)
    BY StepShape DEF Exclusive, Clean
<1>1. CASE v # w
  <2>0. pc'[v] = pc[v] /\ task'[v] = task[v] /\ Req(v)' = Req(v)
    BY <1>0, <1>1 DEF Req
  <2>7. Clean(Req(v))' => Clean(Req(v))
    BY <2>0 DEF Clean
  <2>8. WriterOK(v)
    OBVIOUS
  <2>9. (pc[v] \in Handling /\ task[v].entry \notin Malformed /\ Clean(Req(v))
           => results'[Req(v)] = results[Req(v)]) => WriterOK(v)'
    <3> HIDE DEF Req, Clean
    <3> QED BY <2>0, <2>7, <2>8 DEF WriterOK
  <2> SUFFICES ASSUME pc[v] \in Handling, task[v].entry \notin Malformed, Clean(Req(v))
               PROVE  results'[Req(v)] = results[Req(v)]
    BY <2>9
  <2>1. task[v].entry \in Entries \ Malformed /\ Req(v) \in Requests
    BY WriterTyped
  <2>2. pc[w] \in Handling => task[w].entry \in Entries /\ task[w].entry # task[v].entry
    BY <1>1 DEF HoldersInv, HolderOK, TypeOK
  <2>3. pc[w] \in Handling /\ task[w].entry \notin Malformed => Req(w) # Req(v)
    BY <2>1, <2>2 DEF Exclusive, Req
  <2>4. CASE results' = results
    BY <2>4
  <2>5. CASE Cleared(w)
    <3>1. pc[w] \in Handling /\ task[w].entry \notin Malformed
      BY <2>5 DEF Cleared, Handling, StageOK
    <3> QED BY <2>1, <2>3, <2>5, <3>1 DEF Cleared, TypeOK
  <2>6. ASSUME NEW k \in {"chunk", "final", "error"}, NEW n \in Nat, Published(w, k, n)
        PROVE  results'[Req(v)] = results[Req(v)]
    BY <2>1, <2>3, <2>6, Publisher DEF TypeOK
  <2> QED BY <2>4, <2>5, <2>6, ResultsForms
<1>2. CASE v = w
  <2> SUFFICES ASSUME pc'[w] \in Handling, task'[w].entry \notin Malformed, Clean(Req(w))'
               PROVE  WriterOK(w)'
    BY <1>2 DEF WriterOK
  <2>0. StageForm(w)
    BY StageForms
  <2>1. CASE pc'[w] \in {"idle", "down", "retry", "error", "fail", "dlq", "ack"}
    BY <2>1 DEF WriterOK
  <2>2. CASE /\ pc'[w] = "attempt" /\ task'[w].seq = 0
             /\ task'[w].take = deliveries[task'[w].entry] + 1
             /\ task'[w].entry \in Entries \ Malformed
             /\ results' = results
    <3>1. Req(w)' \in Requests /\ EntryOf(Req(w)') = task'[w].entry /\ Clean(Req(w)')
      BY <1>0, <2>2, OwnEntry, ConstantsAssumption DEF Req
    <3>2. \A i \in 1..Len(results[Req(w)']) :
             results[Req(w)'][i].attempt \in 1..deliveries[task'[w].entry]
      BY <3>1 DEF StreamOK
    <3>3. \A i \in 1..Len(results[Req(w)']) : results[Req(w)'][i].attempt < task'[w].take
      BY <2>2, <3>2 DEF TypeOK
    <3> QED BY <2>2, <3>3 DEF WriterOK
  <2>3. CASE /\ pc[w] = "attempt" /\ pc'[w] = "clear"
             /\ task'[w].seq = task[w].seq
             /\ task'[w].entry = task[w].entry /\ task'[w].take = task[w].take
             /\ results' = results
    BY <1>0, <2>3 DEF WriterOK, Req, Handling
  <2>4. CASE Cleared(w)
    BY <1>0, <2>4, WriterTyped, SMTT(30) DEF Cleared, Goto, WriterOK, Req, Handling, TypeOK
  <2>5. CASE /\ results' = results
             /\ \/ pc[w] = "resolve" /\ Goto(w, "engine")
                \/ pc[w] = "engine" /\ Goto(w, "archive") /\ task[w].seq = Sentences[Req(w)]
                \/ pc[w] = "archive" /\ Goto(w, "commit")
                \/ pc[w] = "commit" /\ Goto(w, "final")
    <3>1. task'[w] = task[w] /\ Req(w)' = Req(w) /\ pc[w] \in Handling
      BY <2>5 DEF Goto, Req, Handling
    <3>2. Clean(Req(w)) /\ task[w].entry \notin Malformed
      BY <1>0, <3>1
    <3>3. /\ \/ pc[w] = "resolve" /\ pc'[w] = "engine"
             \/ pc[w] = "engine" /\ pc'[w] = "archive" /\ task[w].seq = Sentences[Req(w)]
             \/ pc[w] = "archive" /\ pc'[w] = "commit"
             \/ pc[w] = "commit" /\ pc'[w] = "final"
      BY <2>5 DEF Goto, TypeOK
    <3>4. WriterOK(w)
      OBVIOUS
    <3> QED BY <2>5, <3>1, <3>2, <3>3, <3>4 DEF WriterOK
  <2>6. CASE /\ pc[w] = "engine" /\ pc'[w] = "engine"
             /\ Published(w, "chunk", task[w].seq)
             /\ task'[w].seq = task[w].seq + 1
             /\ task'[w].entry = task[w].entry /\ task'[w].take = task[w].take
    <3> DEFINE r == Req(w)
               s == results[r]
               c == Chunk(w, "chunk", task[w].seq)
    <3>1. task[w].seq \in Nat
      BY DEF TypeOK, Task
    <3>2. /\ r \in Requests /\ s \in Seq(Result)
          /\ c \in Result /\ c.kind = "chunk"
          /\ c.attempt = task[w].take
          /\ results' = [results EXCEPT ![r] = Append(s, c)]
      BY <2>6, <3>1, Publisher
    <3>3. results'[r] = Append(s, c) /\ Req(w)' = r
      BY <2>6, <3>2 DEF TypeOK, Req
    <3>4. Len(s) = task[w].seq /\ \A i \in 1..Len(s) : s[i].kind = "chunk" /\ s[i].attempt = task[w].take
      BY <1>0, <2>6, <3>3 DEF WriterOK, Handling, Req
    <3> HIDE DEF s, c
    <3>5. \A i \in 1..Len(Append(s, c)) :
             Append(s, c)[i].kind = "chunk" /\ Append(s, c)[i].attempt = task[w].take
      <4>1. \A i \in 1..Len(Append(s, c)) :
               (i \in 1..Len(s) /\ Append(s, c)[i] = s[i]) \/ Append(s, c)[i] = c
        BY <3>2
      <4> QED BY <3>2, <3>4, <4>1
    <3>6. Len(Append(s, c)) = task[w].seq + 1
      BY <3>2, <3>4
    <3>7. results'[Req(w)'] = Append(s, c)
      BY <3>3
    <3>8. task'[w].take = task[w].take /\ task'[w].seq = task[w].seq + 1 /\ pc'[w] = "engine"
      BY <2>6
    <3> QED BY <3>5, <3>6, <3>7, <3>8 DEF WriterOK
  <2> QED BY <2>0, <2>1, <2>2, <2>3, <2>4, <2>5, <2>6 DEF StageForm
<1> QED BY <1>1, <1>2

-----------------------------------------------------------------------------
(* A worker's step, seen by a caller.                                      *)

\* What a worker's step does to one stream: it belongs to whom touches it.
LEMMA StreamForms ==
    ASSUME Exclusive, TypeOK, HoldersInv, NEW w \in Workers, StageOK(w), StepOf(w),
           NEW r \in Requests
    PROVE  \/ results'[r] = results[r]
           \/ /\ results'[r] = <<>> /\ pc[w] = "clear" /\ task[w].entry = EntryOf(r)
           \/ /\ pc[w] \in Handling /\ task[w].entry = EntryOf(r)
              /\ \E c \in Result :
                   c.attempt = task[w].take /\ results'[r] = Append(results[r], c)
<1>1. CASE results' = results
  BY <1>1
<1>2. CASE Cleared(w)
  <2>1. task[w].entry \in Entries \ Malformed
    BY <1>2 DEF Cleared, Handling, StageOK, TypeOK
  <2>2. EntryOf(Req(w)) = task[w].entry
    BY <2>1, OwnEntry DEF Req
  <2> QED BY <1>2, <2>2 DEF Cleared, TypeOK
<1>3. ASSUME NEW k \in {"chunk", "final", "error"}, NEW n \in Nat, Published(w, k, n)
      PROVE  \/ results'[r] = results[r]
             \/ /\ pc[w] \in Handling /\ task[w].entry = EntryOf(r)
                /\ \E c \in Result :
                     c.attempt = task[w].take /\ results'[r] = Append(results[r], c)
  <2> DEFINE c == Chunk(w, k, n)
  <2>1. /\ pc[w] \in Handling /\ Req(w) \in Requests
        /\ EntryOf(Req(w)) = task[w].entry
        /\ c \in Result /\ c.attempt = task[w].take
        /\ results' = [results EXCEPT ![Req(w)] = Append(results[Req(w)], c)]
    BY <1>3, Publisher
  <2> HIDE DEF c
  <2>2. CASE r = Req(w)
    <3>1. results'[r] = Append(results[r], c)
      BY <2>1, <2>2 DEF TypeOK
    <3> QED BY <2>1, <2>2, <3>1
  <2>3. CASE r # Req(w)
    BY <2>1, <2>3 DEF TypeOK
  <2> QED BY <2>2, <2>3
<1> QED BY <1>1, <1>2, <1>3, ResultsForms

\* All that one worker's step changes for a caller who is reading.
LEMMA CallerKept ==
    ASSUME Exclusive, TypeOK, ReaderTypeOK, HoldersInv, NEW w \in Workers, StageOK(w), StepOf(w),
           NEW g \in Readers, BodyOK(g), CursorOK(g), \A v \in Workers : FreshOK(g, v),
           reader'[g] = IF Len(results'[Awaits[g]]) < Len(results[Awaits[g]])
                        THEN [reader[g] EXCEPT !.fetched = 0] ELSE reader[g]
    PROVE  BodyOK(g)' /\ CursorOK(g)' /\ \A v \in Workers : FreshOK(g, v)'
<1> DEFINE r == Awaits[g]
           s == results[r]
           e == EntryOf(r)
<1>0. /\ r \in Requests /\ s \in Seq(Result) /\ e \in Entries \ Malformed
      /\ \A u \in Workers \ {w} : pc'[u] = pc[u] /\ task'[u] = task[u]
      /\ deliveries'[e] >= deliveries[e] /\ deliveries[e] \in Nat /\ deliveries'[e] \in Nat
      /\ MaxSteals = 0 /\ ~CountMayFail
  <2>1. TypeOK'
    BY StepType DEF StepOf
  <2>2. e \in Entries \ Malformed
    BY DEF BodyOK
  <2> QED BY <2>1, <2>2, StepShape, ReadersAssumption DEF Exclusive, TypeOK
<1>1. /\ reader[g] \in ReaderState
      /\ reader'[g].inbox = reader[g].inbox
      /\ reader'[g].attempt = reader[g].attempt
      /\ reader'[g].seen = reader[g].seen /\ reader'[g].body = reader[g].body
      /\ reader'[g].fetched = IF Len(results'[r]) < Len(s) THEN 0 ELSE reader[g].fetched
  <2>1. reader[g] \in ReaderState
    BY DEF ReaderTypeOK
  <2> QED BY <2>1, Rewound
<1>2. BodyOK(g)'
  <2>1. reader[g].attempt <= deliveries'[e]
        /\ \A i \in 1..Len(reader[g].inbox) : reader[g].inbox[i].attempt \in 1..deliveries'[e]
    BY <1>0, <1>1 DEF BodyOK, ReaderState
  <2> QED BY <1>1, <2>1 DEF BodyOK, Script, Lead
<1>3. \/ results'[r] = s
      \/ results'[r] = <<>> /\ pc[w] = "clear" /\ task[w].entry = e
      \/ /\ pc[w] \in Handling /\ task[w].entry = e
         /\ \E c \in Result : c.attempt = task[w].take /\ results'[r] = Append(s, c)
  BY <1>0, StreamForms
<1>4. CursorOK(g)'
  <2>1. CASE results'[r] = s
    BY <1>0, <1>1, <2>1 DEF CursorOK
  <2>2. CASE results'[r] = <<>>
    <3>1. reader'[g].fetched = 0
      BY <1>0, <1>1, <2>2 DEF CursorOK, ReaderState
    <3> QED BY <2>2, <3>1 DEF CursorOK
  <2>3. ASSUME pc[w] \in Handling, task[w].entry = e,
               NEW c \in Result, c.attempt = task[w].take, results'[r] = Append(s, c)
        PROVE  CursorOK(g)'
    <3> DEFINE F == reader[g].fetched
               b == reader[g].inbox
               t == results'[r]
    <3>0. <<>> = s \/ 1 \in 1..Len(s)
      BY <1>0
    <3>1. /\ Len(t) = Len(s) + 1 /\ \A i \in 1..Len(s) : t[i] = s[i]
          /\ t[Len(s) + 1] = c /\ Len(s) \in Nat
      BY <1>0, <2>3
    <3>2. reader'[g].fetched = F /\ F \in Nat /\ Len(b) \in Nat /\ F <= Len(s)
      BY <1>1, <3>1 DEF CursorOK, ReaderState
    <3>3. CASE F > 0
      <4>1. /\ F - Len(b) >= 0
            /\ \A i \in 1..Len(b) : b[i] = s[F - Len(b) + i]
            /\ \A i \in 1..(F - Len(b)) : s[i].kind = "chunk"
            /\ IF F - Len(b) = 0 THEN reader[g].attempt < s[1].attempt
               ELSE reader[g].attempt = s[1].attempt /\ Len(reader[g].body) = F - Len(b)
        BY <3>3 DEF CursorOK
      <4>2. t[1] = s[1]
        BY <3>1, <3>2, <3>3
      <4>3. \A i \in 1..Len(b) : b[i] = t[F - Len(b) + i]
        <5>1. \A i \in 1..Len(b) : F - Len(b) + i \in 1..Len(s)
          <6> HIDE DEF F, b, t, s
          <6> QED BY <3>1, <3>2, <4>1
        <5> HIDE DEF F, b, t
        <5> QED BY <3>1, <4>1, <5>1
      <4>4. \A i \in 1..(F - Len(b)) : t[i].kind = "chunk"
        <5>1. \A i \in 1..(F - Len(b)) : i \in 1..Len(s)
          <6> HIDE DEF F, b, t, s
          <6> QED BY <3>1, <3>2, <4>1
        <5> HIDE DEF F, b, t
        <5> QED BY <3>1, <4>1, <5>1
      <4> QED BY <1>1, <3>1, <3>2, <3>3, <4>1, <4>2, <4>3, <4>4 DEF CursorOK
    <3>4. CASE F = 0
      <4>1. CASE s = <<>>
        <5>1. t[1] = c
          BY <3>1, <4>1
        <5>2. reader[g].attempt < c.attempt /\ \A i \in 1..Len(b) : b[i].attempt < c.attempt
          BY <2>3, <3>4 DEF FreshOK
        <5> QED BY <1>1, <3>1, <3>2, <3>4, <5>1, <5>2 DEF CursorOK
      <4>2. CASE s # <<>>
        <5>1. t[1] = s[1]
          BY <1>0, <3>1, <4>2
        <5>2. reader[g].attempt < s[1].attempt /\ \A i \in 1..Len(b) : b[i].attempt < s[1].attempt
          BY <3>4, <4>2 DEF CursorOK
        <5> QED BY <1>1, <3>1, <3>2, <3>4, <5>1, <5>2 DEF CursorOK
      <4> QED BY <4>1, <4>2
    <3> QED BY <3>2, <3>3, <3>4
  <2> QED BY <1>3, <2>1, <2>2, <2>3
<1>5. ASSUME NEW v \in Workers PROVE FreshOK(g, v)'
  <2> SUFFICES ASSUME pc'[v] \in Handling, task'[v].entry = e,
                      reader'[g].fetched = 0 \/ pc'[v] \in {"attempt", "clear"}
               PROVE  /\ reader[g].attempt < task'[v].take
                      /\ \A i \in 1..Len(reader[g].inbox) : reader[g].inbox[i].attempt < task'[v].take
    BY <1>1 DEF FreshOK
  <2>1. reader'[g].fetched = 0 =>
          reader[g].fetched = 0 \/ (pc[w] = "clear" /\ task[w].entry = e)
    <3>1. ASSUME NEW c \in Result, results'[r] = Append(s, c)
          PROVE  ~(Len(results'[r]) < Len(s))
      <4>1. Len(Append(s, c)) = Len(s) + 1 /\ Len(s) \in Nat
        BY <1>0
      <4> QED BY <3>1, <4>1
    <3>2. ~(Len(s) < Len(s))
      BY <1>0
    <3> QED BY <1>1, <1>3, <3>1, <3>2
  <2>2. CASE v # w
    <3>1. pc[v] \in Handling /\ task[v].entry = e /\ task'[v] = task[v] /\ pc'[v] = pc[v]
      BY <1>0, <2>2
    <3>2. ~(pc[w] = "clear" /\ task[w].entry = e)
      BY <2>2, <3>1 DEF HoldersInv, HolderOK
    <3> QED BY <2>1, <3>1, <3>2 DEF FreshOK
  <2>3. CASE v = w /\ Taken(w)
    <3>1. task'[w].take = deliveries[e] + 1
      BY <2>3 DEF Taken, Take, TypeOK
    <3>2. /\ reader[g].attempt <= deliveries[e] /\ reader[g].attempt \in Int
          /\ \A i \in 1..Len(reader[g].inbox) : reader[g].inbox[i].attempt \in 1..deliveries[e]
      BY <1>1 DEF BodyOK, ReaderState
    <3> DEFINE n == deliveries[e]
               b == reader[g].inbox
               a == reader[g].attempt
    <3>3. n \in Nat
      BY <1>0
    <3> HIDE DEF n, b, a
    <3>4. a < n + 1 /\ \A i \in 1..Len(b) : b[i].attempt < n + 1
      BY <3>2, <3>3 DEF n, b, a
    <3> QED BY <2>3, <3>1, <3>4 DEF n, b, a
  <2>4. CASE v = w /\ Moved(w)
    <3>1. /\ pc[w] \in Handling /\ task'[w].entry = task[w].entry
          /\ task'[w].take = task[w].take
          /\ pc'[w] # "attempt"
      BY <2>4 DEF Moved, Beyond, TypeOK
    <3>2. pc'[w] = "clear" => pc[w] = "attempt"
      <4>1. StageForm(w)
        BY StageForms
      <4> QED BY <4>1, <3>1 DEF StageForm, Goto, Cleared, TypeOK
    <3> QED BY <2>1, <2>4, <3>1, <3>2 DEF FreshOK
  <2>5. CASE v = w /\ (Restarted(w) \/ Dropped(w) \/ Settled(w))
    BY <2>5 DEF Restarted, Dropped, Settled, Goto, Leave, Handling, TypeOK
  <2> QED BY <1>0, <2>2, <2>3, <2>4, <2>5, TaskForms
<1> QED BY <1>2, <1>4, <1>5

\* The faults injected stay within their bound.
LEMMA FaultsBounded ==
    ASSUME TypeOK, faults <= MaxFaults, NEW w \in Workers, StepOf(w)
    PROVE  faults' <= MaxFaults
<1>1. UNCHANGED faults \/ Fault
  BY DEF StepOf, Step, Tick, ReadAttempt, ClearResults, Resolve, PublishChunk, EngineDone,
         Archive, Commit, PublishFinal, Retry, PublishError, FailRequest, SendToDlq, Ack,
         Restart, Raises, Crash, Sweep, boundVars
<1> QED BY <1>1, ConstantsAssumption DEF Fault, TypeOK

\* A worker's step, and the gateway's XADD, keep the invariant.
LEMMA WorkerExact ==
    ASSUME Exclusive, ExactInv, WorkerStep
    PROVE  ExactInv'
<1> USE DEF ExactInv
<1>0. /\ TypeOK /\ IInv /\ ReaderTypeOK /\ ReaderInv /\ HoldersInv
      /\ \A w \in Workers : StageOK(w)
      /\ reader \in [Readers -> ReaderState]
    BY DEF ReaderInv, IInv, ReaderTypeOK
<1>1. ReaderInv'
    BY ReaderInductive DEF ReaderNext
<1>2. /\ reader' \in [Readers -> ReaderState]
      /\ \A g \in Readers :
           /\ reader'[g].st = reader[g].st /\ reader'[g].body = reader[g].body
           /\ reader'[g] = IF Len(results'[Awaits[g]]) < Len(results[Awaits[g]])
                           THEN [reader[g] EXCEPT !.fetched = 0] ELSE reader[g]
  <2>1. reader' \in [Readers -> ReaderState]
    BY <1>1 DEF ReaderInv, ReaderTypeOK
  <2>2. \A g \in Readers :
          reader'[g] = IF Len(results'[Awaits[g]]) < Len(results[Awaits[g]])
                       THEN [reader[g] EXCEPT !.fetched = 0] ELSE reader[g]
    BY DEF WorkerStep
  <2>3. \A g \in Readers : reader'[g].st = reader[g].st /\ reader'[g].body = reader[g].body
    BY <1>0, <2>2, Rewound
  <2> QED BY <2>1, <2>2, <2>3
<1>3. ASSUME NEW g \in Readers
      PROVE  /\ reader'[g].st = "off" => reader'[g] = ReaderOff
             /\ reader'[g].st = "final" => WholeBody(g)'
  <2>1. [ReaderOff EXCEPT !.fetched = 0] = ReaderOff
    BY DEF ReaderOff
  <2> QED BY <1>2, <2>1 DEF WholeBody
<1>4. \A r : Clean(r)' => Clean(r)
    BY <1>2 DEF Clean
<1>5. CASE \E e \in Entries : Submit(e)
  <2>1. PICK e \in Entries : Submit(e)
    BY <1>5
  <2>2. UNCHANGED <<results, deliveries, pc, task, faults>>
    BY <2>1 DEF Submit, boundVars
  <2>3. HoldersInv'
    BY <1>0, <2>1, SubmitHolders
  <2>4. \A g \in Readers : reader'[g] = reader[g]
    <3>1. \A g \in Readers : ~(Len(results[Awaits[g]]) < Len(results[Awaits[g]]))
      BY <1>0, ReadersAssumption DEF TypeOK
    <3> QED BY <1>2, <2>2, <3>1
  <2>5. /\ \A r \in Requests : Clean(r)' => StreamOK(r)'
        /\ \A w \in Workers : WriterOK(w)'
    <3>1. \A r \in Requests : Clean(r)' => StreamOK(r)'
      BY <1>4, <2>2 DEF StreamOK, Script, Lead
    <3>2. ASSUME NEW w \in Workers PROVE WriterOK(w)'
      <4>1. Req(w)' = Req(w) /\ (Clean(Req(w))' => Clean(Req(w)))
        BY <1>4, <2>2 DEF Req
      <4>2. WriterOK(w)
        OBVIOUS
      <4> QED BY <2>2, <4>1, <4>2 DEF WriterOK
    <3> QED BY <3>1, <3>2
  <2>6. ASSUME NEW g \in Readers, reader[g].st = "reading"
        PROVE  BodyOK(g)' /\ CursorOK(g)' /\ \A w \in Workers : FreshOK(g, w)'
    <3>1. BodyOK(g) /\ CursorOK(g) /\ \A w \in Workers : FreshOK(g, w)
      BY <2>6
    <3>2. BodyOK(g)'
      <4>1. reader'[g] = reader[g] /\ deliveries' = deliveries /\ BodyOK(g)
        BY <2>2, <2>4, <3>1
      <4> QED BY <4>1 DEF BodyOK
    <3>3. CursorOK(g)'
      BY <2>2, <2>4, <3>1 DEF CursorOK
    <3>4. \A w \in Workers : FreshOK(g, w)'
      BY <2>2, <2>4, <3>1 DEF FreshOK
    <3> QED BY <3>2, <3>3, <3>4
  <2> QED BY <1>1, <1>2, <1>3, <2>2, <2>3, <2>5, <2>6
<1>6. ASSUME NEW w \in Workers, StepOf(w)
      PROVE  ExactInv'
  <2>1. HoldersInv'
    BY <1>0, <1>6, TaskForms, TakenHolders, OthersHolders DEF Exclusive
  <2>2. faults' <= MaxFaults
    BY <1>0, <1>6, FaultsBounded
  <2>3. \A r \in Requests : Clean(r)' => StreamOK(r)'
    BY <1>0, <1>4, <1>6, StreamKept
  <2>4. \A v \in Workers : WriterOK(v)'
    BY <1>0, <1>2, <1>6, WriterKept
  <2>5. ASSUME NEW g \in Readers, reader[g].st = "reading"
        PROVE  BodyOK(g)' /\ CursorOK(g)' /\ \A v \in Workers : FreshOK(g, v)'
    BY <1>0, <1>2, <1>6, <2>5, CallerKept
  <2> QED BY <1>1, <1>2, <1>3, <2>1, <2>2, <2>3, <2>4, <2>5
<1> QED BY <1>5, <1>6 DEF WorkerStep, Next, StepOf

-----------------------------------------------------------------------------
(* The caller's own steps.                                                 *)

\* The next chunk of a caller continues what it has.
LEMMA NextChunk ==
    ASSUME NEW g \in Readers, reader[g] \in ReaderState, BodyOK(g), reader[g].inbox # <<>>
    PROVE  LET c == reader[g].inbox[1]
               rd == Looked(reader[g])
               e == EntryOf(Awaits[g])
               k == Len(rd.body)
           IN  /\ c \in Result /\ c.attempt \in 1..deliveries[e]
               /\ rd \in ReaderState /\ k \in Nat
               /\ rd.attempt = c.attempt
               /\ rd.seen = 0..(k - 1)
               /\ \A i \in 1..k : rd.body[i] = <<i - 1, <<e, c.attempt>>>>
               /\ c.kind # "error" => Script(reader[g].inbox, k, Awaits[g])
               /\ c.kind = "chunk" => c.seq = k /\ c.src = <<e, c.attempt>>
               /\ c.kind = "final" => k = Sentences[Awaits[g]]
<1> DEFINE b == reader[g].inbox
           c == b[1]
           rd == Looked(reader[g])
           e == EntryOf(Awaits[g])
           k == Len(rd.body)
<1>1. /\ c \in Result /\ rd \in ReaderState
      /\ IF c.attempt > reader[g].attempt
         THEN rd.attempt = c.attempt /\ rd.seen = {} /\ rd.body = <<>>
         ELSE /\ rd.attempt = reader[g].attempt
              /\ rd.seen = reader[g].seen /\ rd.body = reader[g].body
    BY LookedAt
<1>2. 1 \in 1..Len(b) /\ c.attempt \in Nat /\ reader[g].attempt \in Int /\ k \in Nat
  <2>1. 1 \in 1..Len(b) /\ reader[g].attempt \in Int
    BY DEF ReaderState
  <2>2. c.attempt \in Nat
    BY <1>1 DEF Result
  <2>3. rd.body \in Seq(Nat \X (Entries \X Nat))
    <3> HIDE DEF rd
    <3> QED BY <1>1 DEF ReaderState
  <2> QED BY <2>1, <2>2, <2>3
<1>3. /\ c.attempt \in 1..deliveries[e] /\ c.attempt >= reader[g].attempt
      /\ c.kind # "error" =>
           Script(b, IF c.attempt = reader[g].attempt THEN Len(reader[g].body) ELSE 0, Awaits[g])
      /\ reader[g].seen = 0..(Len(reader[g].body) - 1)
      /\ \A i \in 1..Len(reader[g].body) :
            reader[g].body[i] = <<i - 1, <<e, reader[g].attempt>>>>
    BY <1>2 DEF BodyOK
<1> HIDE DEF rd, c, b, e
<1>4. rd.attempt = c.attempt
    BY <1>1, <1>2, <1>3
<1>5. /\ rd.seen = 0..(k - 1)
      /\ \A i \in 1..k : rd.body[i] = <<i - 1, <<e, c.attempt>>>>
      /\ c.kind # "error" => Script(b, k, Awaits[g])
  <2>1. CASE c.attempt > reader[g].attempt
    <3>1. k = 0 /\ rd.seen = {} /\ c.attempt # reader[g].attempt
      BY <1>1, <1>2, <2>1
    <3>2. 0..(0 - 1) = {} /\ 1..0 = {}
      OBVIOUS
    <3> QED BY <1>3, <3>1, <3>2
  <2>2. CASE ~(c.attempt > reader[g].attempt)
    <3>1. c.attempt = reader[g].attempt
      BY <1>2, <1>3, <2>2
    <3>2. rd.seen = reader[g].seen /\ rd.body = reader[g].body
      BY <1>1, <2>2
    <3> QED BY <1>3, <3>1, <3>2
  <2> QED BY <2>1, <2>2
<1>6. /\ c.kind = "chunk" => c.seq = k /\ c.src = <<e, c.attempt>>
      /\ c.kind = "final" => k = Sentences[Awaits[g]]
  <2>1. Lead(b, 1)
    BY DEF Lead
  <2>2. c.kind # "error" =>
          /\ b[1].kind = "chunk" => /\ b[1].src = <<e, b[1].attempt>>
                                    /\ b[1].seq = k + 1 - 1
          /\ b[1].kind = "final" => k + 1 = Sentences[Awaits[g]] + 1
    <3> HIDE DEF k
    <3> QED BY <1>2, <1>5, <2>1 DEF Script, e
  <2>3. Sentences[Awaits[g]] \in Nat
    BY ReadersAssumption, ConstantsAssumption
  <2> HIDE DEF k
  <2> QED BY <1>2, <2>2, <2>3 DEF c
<1> QED BY <1>1, <1>2, <1>3, <1>4, <1>5, <1>6 DEF rd, c, b, e

\* A caller that goes on reading disturbs nobody.
LEMMA ReadsOn ==
    ASSUME Exclusive, ExactInv, ReaderInv', UNCHANGED vars, NEW g \in Readers,
           NEW rd \in ReaderState, reader' = [reader EXCEPT ![g] = rd],
           reader[g].st \in {"off", "reading"}, rd.st = "reading",
           BodyOK(g)', CursorOK(g)', \A w \in Workers : FreshOK(g, w)'
    PROVE  ExactInv'
<1> USE DEF ExactInv
<1>1. /\ reader \in [Readers -> ReaderState]
      /\ UNCHANGED <<queue, pel, acked, deliveries, results, pc, task, faults>>
    BY DEF ReaderInv, ReaderTypeOK, vars
<1>2. HoldersInv' /\ (faults <= MaxFaults)'
    BY <1>1 DEF HoldersInv, QueueOK, HolderOK, DeliveriesBounded, Held
<1>3. \A r : Clean(r)' => Clean(r)
    BY <1>1 DEF Clean
<1>4. \A r \in Requests : Clean(r)' => StreamOK(r)'
    BY <1>1, <1>3 DEF StreamOK, Script, Lead
<1>5. ASSUME NEW w \in Workers PROVE WriterOK(w)'
  <2>1. Req(w)' = Req(w) /\ (Clean(Req(w))' => Clean(Req(w)))
    BY <1>1, <1>3 DEF Req
  <2>2. WriterOK(w)
    OBVIOUS
  <2> QED BY <1>1, <2>1, <2>2 DEF WriterOK
<1>6. ASSUME NEW f \in Readers
      PROVE  /\ reader'[f].st = "off" => reader'[f] = ReaderOff
             /\ reader'[f].st = "reading" =>
                  BodyOK(f)' /\ CursorOK(f)' /\ \A w \in Workers : FreshOK(f, w)'
             /\ reader'[f].st = "final" => WholeBody(f)'
  <2>1. CASE f = g
    BY <1>1, <2>1
  <2>2. CASE f # g
    <3>1. reader'[f] = reader[f] /\ deliveries' = deliveries /\ results' = results
          /\ pc' = pc /\ task' = task
      BY <1>1, <2>2
    <3>2. BodyOK(f) => BodyOK(f)'
      BY <3>1, SMTT(30) DEF BodyOK
    <3>3. CursorOK(f) => CursorOK(f)'
      BY <3>1 DEF CursorOK
    <3>4. \A w \in Workers : FreshOK(f, w) => FreshOK(f, w)'
      BY <3>1 DEF FreshOK
    <3> QED BY <3>1, <3>2, <3>3, <3>4, SMTT(30) DEF WholeBody
  <2> QED BY <2>1, <2>2
<1> QED BY <1>2, <1>4, <1>5, <1>6

\* A caller that stops leaves a stream nobody else waits for.
LEMMA StopsAlone ==
    ASSUME Exclusive, ExactInv, ReaderInv', NEW g \in Readers, reader[g].st = "reading",
           NEW st \in {"final", "error", "gone"}, NEW body, Stopped(g, st, body),
           st = "final" => WholeBody(g)'
    PROVE  ExactInv'
<1> USE DEF ExactInv
<1>1. /\ \A f \in Readers \ {g} : reader'[f] = reader[f] /\ Awaits[f] # Awaits[g]
      /\ reader'[g].st = st
      /\ UNCHANGED <<queue, pel, acked, deliveries, pc, task, faults>>
      /\ \A r \in Requests \ {Awaits[g]} : results'[r] = results[r]
    BY DEF Stopped, Exclusive, DelStream, ReaderInv, IInv, TypeOK
<1>2. HoldersInv' /\ (faults <= MaxFaults)'
    BY <1>1 DEF HoldersInv, QueueOK, HolderOK, DeliveriesBounded, Held
<1>3. \A r : Clean(r)' => Clean(r) /\ r # Awaits[g]
    BY <1>1 DEF Clean
<1>4. \A r \in Requests : Clean(r)' => StreamOK(r)'
    BY <1>1, <1>3 DEF StreamOK, Script, Lead
<1>5. ASSUME NEW w \in Workers PROVE WriterOK(w)'
  <2>1. Req(w)' = Req(w) /\ (Clean(Req(w))' => Clean(Req(w)) /\ Req(w) # Awaits[g])
    BY <1>1, <1>3 DEF Req
  <2>2. pc[w] \in Handling => Req(w) \in Requests
    BY WriterTyped DEF ReaderInv, IInv
  <2>3. WriterOK(w)
    OBVIOUS
  <2> QED BY <1>1, <2>1, <2>2, <2>3 DEF WriterOK
<1>6. ASSUME NEW f \in Readers
      PROVE  /\ reader'[f].st = "off" => reader'[f] = ReaderOff
             /\ reader'[f].st = "reading" =>
                  BodyOK(f)' /\ CursorOK(f)' /\ \A w \in Workers : FreshOK(f, w)'
             /\ reader'[f].st = "final" => WholeBody(f)'
  <2>1. CASE f = g
    BY <1>1, <2>1
  <2>2. CASE f # g
    <3>1. reader'[f] = reader[f] /\ deliveries' = deliveries /\ pc' = pc /\ task' = task
          /\ results'[Awaits[f]] = results[Awaits[f]]
      BY <1>1, <2>2, ReadersAssumption
    <3>2. BodyOK(f) => BodyOK(f)'
      BY <3>1 DEF BodyOK
    <3>3. CursorOK(f) => CursorOK(f)'
      BY <3>1 DEF CursorOK
    <3>4. \A w \in Workers : FreshOK(f, w) => FreshOK(f, w)'
      BY <3>1 DEF FreshOK
    <3> QED BY <3>1, <3>2, <3>3, <3>4 DEF WholeBody
  <2> QED BY <2>1, <2>2
<1> QED BY <1>2, <1>4, <1>5, <1>6

\* A caller that subscribes has heard nothing.
LEMMA OpenExact ==
    ASSUME Exclusive, ExactInv, NEW g \in Readers, Open(g)
    PROVE  ExactInv'
<1> DEFINE r == Awaits[g]
           rd == [st |-> "reading", fetched |-> 0, inbox |-> <<>>, attempt |-> -1,
                  seen |-> {}, body |-> <<>>]
<1>1. /\ reader \in [Readers -> ReaderState] /\ TypeOK /\ reader[g] = ReaderOff
      /\ r \in Requests /\ results[r] \in Seq(Result)
      /\ \A w \in Workers : task[w].take \in Nat
    BY ReadersAssumption DEF Open, ExactInv, ReaderInv, ReaderTypeOK, TypeOK, Task
<1>2. /\ rd.st = "reading" /\ rd.fetched = 0 /\ rd.inbox = <<>> /\ rd.attempt = -1
      /\ rd.seen = {} /\ rd.body = <<>> /\ rd \in ReaderState
    BY DEF ReaderOff, ReaderState
<1> HIDE DEF rd
<1>3. reader' = [reader EXCEPT ![g] = rd] /\ UNCHANGED vars /\ reader'[g] = rd
  <2>1. reader' = [reader EXCEPT ![g].st = "reading"] /\ UNCHANGED vars
    BY DEF Open
  <2>2. rd = [ReaderOff EXCEPT !.st = "reading"]
    <3> DEFINE m == -1
               q == {}
               z == <<>>
    <3>1. /\ ReaderOff = [st |-> "off", fetched |-> 0, inbox |-> z, attempt |-> m,
                          seen |-> q, body |-> z]
          /\ rd = [st |-> "reading", fetched |-> 0, inbox |-> z, attempt |-> m,
                   seen |-> q, body |-> z]
      BY DEF rd, ReaderOff
    <3> HIDE DEF m, q, z
    <3> QED BY <3>1
  <2> QED BY <1>1, <2>1, <2>2
<1>4. UNCHANGED <<results, deliveries, pc, task>>
    BY <1>3 DEF vars
<1>5. ReaderInv'
    BY ReaderInductive DEF ReaderNext, ExactInv
<1>6. EntryOf(r) \in Entries \ Malformed /\ Rid[EntryOf(r)] = r /\ deliveries[EntryOf(r)] \in Nat
  <2>1. PICK e \in Submitted \ Malformed : Rid[e] = r
    BY DEF Open
  <2>2. e \in Entries \ Malformed
    BY <1>1 DEF Submitted, TypeOK
  <2> QED BY <1>1, <2>1, <2>2, OwnEntry DEF TypeOK
<1>7. BodyOK(g)'
  <2>1. 0..(0 - 1) = {} /\ 1..0 = {} /\ Len(<<>>) = 0
    OBVIOUS
  <2>2. -1 <= deliveries[EntryOf(r)] /\ deliveries' = deliveries
    BY <1>4, <1>6
  <2>3. /\ reader'[g].inbox = <<>> /\ reader'[g].body = <<>> /\ reader'[g].seen = {}
        /\ reader'[g].attempt = -1
    BY <1>2, <1>3
  <2> QED BY <1>6, <2>1, <2>2, <2>3 DEF BodyOK
<1>8. CursorOK(g)'
  <2>1. Clean(r)
    BY DEF Clean, Open, Exclusive
  <2>2. results[r] # <<>> => 1 \in 1..Len(results[r]) /\ results[r][1].attempt \in Nat
    <3> SUFFICES ASSUME results[r] # <<>>
                 PROVE  1 \in 1..Len(results[r]) /\ results[r][1].attempt \in Nat
      OBVIOUS
    <3>1. 1 \in 1..Len(results[r]) /\ results[r][1] \in Result
      BY <1>1
    <3> QED BY <3>1 DEF Result
  <2>3. \A i \in 1..Len(results[r]) : results[r][i].attempt \in 1..deliveries[EntryOf(r)]
    BY <1>1, <2>1 DEF ExactInv, StreamOK
  <2>4. results[r] # <<>> => -1 < results[r][1].attempt
    BY <2>2
  <2> QED BY <1>1, <1>2, <1>3, <1>4, <2>4 DEF CursorOK
<1>9. \A w \in Workers : FreshOK(g, w)'
    BY <1>1, <1>2, <1>3, <1>4 DEF FreshOK
<1>10. reader[g].st \in {"off", "reading"}
    BY DEF Open
<1> QED BY <1>2, <1>3, <1>5, <1>7, <1>8, <1>9, <1>10, ReadsOn

\* XREAD returns the rest of the script.
LEMMA XReadExact ==
    ASSUME Exclusive, ExactInv, NEW g \in Readers, XRead(g)
    PROVE  ExactInv'
<1> DEFINE r == Awaits[g]
           e == EntryOf(r)
           s == results[r]
           F == reader[g].fetched
           t == SubSeq(s, F + 1, Len(s))
           rd == [reader[g] EXCEPT !.inbox = t, !.fetched = Len(s)]
<1>1. /\ reader \in [Readers -> ReaderState] /\ TypeOK /\ reader[g] \in ReaderState
      /\ reader[g].st = "reading" /\ reader[g].inbox = <<>>
      /\ r \in Requests /\ s \in Seq(Result)
      /\ F \in Nat /\ Len(s) \in Nat /\ F < Len(s)
      /\ BodyOK(g) /\ CursorOK(g) /\ \A w \in Workers : FreshOK(g, w)
      /\ reader[g].attempt \in Int
  <2>1. /\ reader \in [Readers -> ReaderState] /\ TypeOK /\ r \in Requests
        /\ reader[g].st = "reading" /\ reader[g].inbox = <<>> /\ F < Len(s)
    BY ReadersAssumption DEF XRead, ExactInv, ReaderInv, ReaderTypeOK
  <2>2. reader[g] \in ReaderState /\ s \in Seq(Result)
    BY <2>1 DEF TypeOK
  <2>3. F \in Nat /\ reader[g].attempt \in Int /\ Len(s) \in Nat
    BY <2>2 DEF ReaderState
  <2>4. BodyOK(g) /\ CursorOK(g) /\ \A w \in Workers : FreshOK(g, w)
    BY <2>1 DEF ExactInv
  <2> QED BY <2>1, <2>2, <2>3, <2>4
<1>2. /\ t \in Seq(Result) /\ Len(t) = Len(s) - F
      /\ \A i \in 1..Len(t) : t[i] = s[F + i] /\ F + i \in 1..Len(s)
  <2> HIDE DEF F, s
  <2>1. F \in 0..Len(s) /\ s \in Seq(Result)
    BY <1>1
  <2> QED BY <2>1, Suffix
<1>3. /\ rd \in ReaderState /\ rd.st = "reading" /\ rd.inbox = t /\ rd.fetched = Len(s)
      /\ rd.attempt = reader[g].attempt /\ rd.seen = reader[g].seen /\ rd.body = reader[g].body
  <2> DEFINE S == Seq(Result)
             B == Seq(Nat \X (Entries \X Nat))
  <2> HIDE DEF s, F, t
  <2>1. reader[g] \in [st : {"off", "reading", "final", "error", "gone"}, fetched : Nat,
                       inbox : S, attempt : Int, seen : SUBSET Nat, body : B]
    BY <1>1 DEF ReaderState
  <2>2. t \in S
    BY <1>2
  <2> HIDE DEF S, B
  <2>3. rd \in [st : {"off", "reading", "final", "error", "gone"}, fetched : Nat,
                inbox : S, attempt : Int, seen : SUBSET Nat, body : B]
    BY <1>1, <2>1, <2>2
  <2>4. rd \in ReaderState
    BY <2>3 DEF ReaderState, S, B
  <2> QED BY <1>1, <2>1, <2>4
<1>4. reader' = [reader EXCEPT ![g] = rd] /\ UNCHANGED vars /\ reader'[g] = rd
  <2>1. reader' = [reader EXCEPT ![g].inbox = t, ![g].fetched = Len(s)] /\ UNCHANGED vars
    BY DEF XRead
  <2>2. reader' = [reader EXCEPT ![g] = rd]
    BY <1>1, <2>1
  <2> HIDE DEF rd
  <2> QED BY <1>1, <2>1, <2>2
<1> HIDE DEF rd, t, F
<1>5. UNCHANGED <<results, deliveries, pc, task>>
    BY <1>4 DEF vars
<1>6. ReaderInv'
    BY ReaderInductive DEF ReaderNext, ExactInv
<1>7. Clean(r) /\ StreamOK(r)
  <2>1. Clean(r)
    BY <1>1 DEF Clean, Exclusive
  <2> QED BY <1>1, <2>1 DEF ExactInv
<1>8. /\ F > 0 => /\ \A i \in 1..F : s[i].kind = "chunk"
                  /\ reader[g].attempt = s[1].attempt /\ Len(reader[g].body) = F
      /\ F = 0 => reader[g].attempt < s[1].attempt
  <2>1. Len(<<>>) = 0 /\ F - 0 = F
    BY <1>1
  <2>2. F = 0 => s # <<>>
    BY <1>1
  <2> QED BY <1>1, <2>1, <2>2 DEF CursorOK, F
<1>9. /\ t # <<>> /\ 1 \in 1..Len(t) /\ t[1] \in Result
      /\ t[1].attempt >= reader[g].attempt
      /\ t[1].kind # "error" => /\ Script(t, F, r)
                                /\ t[1].attempt = s[1].attempt
  <2>1. t # <<>> /\ 1 \in 1..Len(t) /\ t[1] = s[F + 1] /\ F + 1 \in 1..Len(s) /\ t[1] \in Result
    BY <1>1, <1>2
  <2>2. Lead(s, F + 1)
    BY <1>1, <1>8 DEF Lead
  <2>3. Script(s, 0, r)
    BY <1>7 DEF StreamOK
  <2>4. t[1].attempt >= s[1].attempt
    BY <2>1, <2>2, <2>3 DEF Script
  <2>5. s[1] \in Result /\ s[1].attempt \in Nat /\ t[1].attempt \in Nat
    <3>1. 1 \in 1..Len(s)
      BY <1>1
    <3>2. s[1] \in Result /\ t[1] \in Result
      BY <1>1, <2>1, <3>1
    <3> QED BY <3>2 DEF Result
  <2>6. t[1].kind # "error" => Script(t, 0 + F, r) /\ t[1].attempt = s[1].attempt
    <3>1. \A i \in 1..Len(t) : t[i] = s[F + i]
      BY <1>2
    <3>2. 0 \in Nat /\ F \in Nat
      BY <1>1
    <3> HIDE DEF s
    <3> QED BY <1>1, <1>2, <2>1, <2>2, <2>3, <3>1, <3>2, ScriptRest
  <2>7. 0 + F = F
    BY <1>1
  <2> QED BY <1>1, <1>8, <2>1, <2>4, <2>5, <2>6, <2>7
<1>10. \A i \in 1..Len(t) : t[i].attempt \in 1..deliveries[e]
    BY <1>2, <1>7 DEF StreamOK
<1>11. BodyOK(g)'
  <2>1. t[1].kind # "error" =>
          Script(t, IF t[1].attempt = reader[g].attempt THEN Len(reader[g].body) ELSE 0, r)
    <3>1. F = 0 => (t[1].kind # "error" => t[1].attempt # reader[g].attempt)
      <4>0. 1 \in 1..Len(s)
        BY <1>1
      <4>1. s[1] \in Result
        BY <1>1, <4>0
      <4>2. s[1].attempt \in Nat
        BY <4>1 DEF Result
      <4> QED BY <1>1, <1>8, <1>9, <4>2
    <3> QED BY <1>1, <1>8, <1>9, <3>1
  <2> QED BY <1>1, <1>3, <1>4, <1>5, <1>9, <1>10, <2>1 DEF BodyOK
<1>12. CursorOK(g)'
  <2>1. Len(s) - Len(t) = F /\ Len(s) > 0 /\ Len(s) # 0 /\ Len(s) <= Len(s) /\ F >= 0
    BY <1>1, <1>2
  <2>2. /\ reader'[g].fetched = Len(s) /\ reader'[g].inbox = t /\ results' = results
        /\ reader'[g].attempt = reader[g].attempt /\ reader'[g].body = reader[g].body
    BY <1>3, <1>4, <1>5
  <2>3. \A i \in 1..F : s[i].kind = "chunk"
    BY <1>1, <1>8
  <2>4. IF F = 0 THEN reader[g].attempt < s[1].attempt
        ELSE reader[g].attempt = s[1].attempt /\ Len(reader[g].body) = F
    BY <1>1, <1>8
  <2>5. \A i \in 1..Len(t) : t[i] = s[F + i]
    BY <1>2
  <2> HIDE DEF s
  <2>6. s = results[r]
    BY DEF s
  <2> QED BY <2>1, <2>2, <2>3, <2>4, <2>5, <2>6 DEF CursorOK
<1>13. ASSUME NEW w \in Workers PROVE FreshOK(g, w)'
  <2> SUFFICES ASSUME pc[w] \in {"attempt", "clear"}, task[w].entry = e
               PROVE  /\ reader[g].attempt < task[w].take
                      /\ \A i \in 1..Len(t) : t[i].attempt < task[w].take
    BY <1>1, <1>3, <1>4, <1>5 DEF FreshOK
  <2>1. pc[w] \in Handling /\ Req(w) = r /\ e \notin Malformed
    BY <1>1 DEF Handling, Req, BodyOK
  <2>2. \A i \in 1..Len(s) : s[i].attempt < task[w].take
    BY <1>7, <2>1 DEF ExactInv, WriterOK
  <2> QED BY <1>1, <1>2, <2>1, <2>2 DEF FreshOK
<1> QED BY <1>1, <1>3, <1>4, <1>6, <1>11, <1>12, <1>13, ReadsOn

\* A sentence that a caller collects extends what it has.
LEMMA CollectExact ==
    ASSUME Exclusive, ExactInv, ReaderInv', NEW g \in Readers, reader[g].st = "reading",
           reader[g].inbox # <<>>, Collected(g)
    PROVE  ExactInv'
<1> DEFINE r == Awaits[g]
           e == EntryOf(r)
           s == results[r]
           b == reader[g].inbox
           c == b[1]
           rd == Looked(reader[g])
           k == Len(rd.body)
           t == Tail(b)
           F == reader[g].fetched
           n == F - Len(b)
<1>1. /\ reader \in [Readers -> ReaderState] /\ TypeOK /\ r \in Requests /\ s \in Seq(Result)
      /\ reader[g] \in ReaderState /\ b \in Seq(Result) /\ F \in Nat
      /\ BodyOK(g) /\ CursorOK(g) /\ \A w \in Workers : FreshOK(g, w)
  <2>1. /\ reader \in [Readers -> ReaderState] /\ TypeOK /\ r \in Requests
        /\ BodyOK(g) /\ CursorOK(g) /\ \A w \in Workers : FreshOK(g, w)
    BY ReadersAssumption DEF ExactInv, ReaderInv, ReaderTypeOK
  <2> QED BY <2>1 DEF TypeOK, ReaderState
<1>2. PICK new \in ReaderState :
        /\ reader' = [reader EXCEPT ![g] = new]
        /\ new.st = rd.st /\ new.fetched = rd.fetched /\ new.inbox = rd.inbox
        /\ new.attempt = rd.attempt
        /\ new.seen = rd.seen \cup {c.seq}
        /\ new.body = Append(rd.body, <<c.seq, c.src>>)
    BY DEF Collected
<1>3. /\ c \in Result /\ c.attempt \in 1..deliveries[e] /\ c.kind = "chunk"
      /\ rd \in ReaderState /\ k \in Nat
      /\ rd.attempt = c.attempt
      /\ rd.seen = 0..(k - 1)
      /\ \A i \in 1..k : rd.body[i] = <<i - 1, <<e, c.attempt>>>>
      /\ Script(b, k, r)
      /\ c.seq = k /\ c.src = <<e, c.attempt>>
    BY <1>1, NextChunk DEF Collected
<1>4. rd.st = "reading" /\ rd.fetched = F /\ rd.inbox = t /\ t \in Seq(Result)
    BY <1>1, LookedAt
<1>5. /\ reader'[g] = new /\ UNCHANGED vars
      /\ UNCHANGED <<results, deliveries, pc, task>>
    BY <1>1, <1>2 DEF Collected, vars
<1>6. /\ Len(b) \in Nat /\ 1 \in 1..Len(b) /\ Len(t) = Len(b) - 1
      /\ \A i \in 1..Len(t) : t[i] = b[1 + i] /\ 1 + i \in 1..Len(b)
      /\ \A i \in 1..Len(b) : b[i] \in Result
    BY <1>1
<1>7. /\ deliveries[e] \in Nat /\ e \in Entries \ Malformed /\ Rid[e] = r
      /\ \A i \in 1..Len(b) : b[i].attempt \in 1..deliveries[e]
  <2>1. /\ e \in Entries \ Malformed /\ Rid[e] = r
        /\ \A i \in 1..Len(b) : b[i].attempt \in 1..deliveries[e]
    BY <1>1 DEF BodyOK
  <2> QED BY <1>1, <2>1 DEF TypeOK
<1>8. /\ Len(new.body) = k + 1
      /\ \A i \in 1..(k + 1) : new.body[i] = <<i - 1, <<e, c.attempt>>>>
      /\ new.seen = 0..k
  <2>1. rd.body \in Seq(Nat \X (Entries \X Nat))
    <3> HIDE DEF rd
    <3> QED BY <1>3 DEF ReaderState
  <2> DEFINE q == rd.body
             x == <<c.seq, c.src>>
  <2>2. x = <<k, <<e, c.attempt>>>>
    BY <1>3
  <2>3. \A i \in 1..k : q[i] = <<i - 1, <<e, c.attempt>>>>
    BY <1>3
  <2>4. Len(q) = k /\ k \in Nat
    BY <1>3
  <2> HIDE DEF q, x, k, rd, c, e
  <2>5. Len(Append(q, x)) = k + 1 /\ (\A i \in 1..k : Append(q, x)[i] = q[i])
        /\ Append(q, x)[k + 1] = x
    BY <2>1, <2>4 DEF q
  <2>6. k + 1 - 1 = k
    BY <2>4
  <2>7. \A i \in 1..(k + 1) : i \in 1..k \/ i = k + 1
    BY <2>4
  <2>8. new.body = Append(q, x)
    BY <1>2 DEF q, x
  <2>9. 0..(k - 1) \cup {k} = 0..k
    BY <2>4
  <2> QED BY <1>2, <1>3, <2>2, <2>3, <2>5, <2>6, <2>7, <2>8, <2>9
<1> HIDE DEF rd, t, k
<1>9. BodyOK(g)'
  <2>1. t # <<>> => /\ 1 \in 1..Len(t) /\ t[1].attempt >= c.attempt
                    /\ t[1].kind # "error" =>
                         Script(t, IF t[1].attempt = c.attempt THEN k + 1 ELSE 0, r)
    <3> SUFFICES ASSUME t # <<>>
                 PROVE  /\ 1 \in 1..Len(t) /\ t[1].attempt >= c.attempt
                        /\ t[1].kind # "error" =>
                             Script(t, IF t[1].attempt = c.attempt THEN k + 1 ELSE 0, r)
      OBVIOUS
    <3>1. 1 \in 1..Len(t)
      BY <1>4
    <3>2. t[1] = b[1 + 1] /\ 1 + 1 \in 1..Len(b)
      BY <1>6, <3>1
    <3>3. Lead(b, 1 + 1)
      <4>1. \A j \in 1..(1 + 1 - 1) : j = 1
        OBVIOUS
      <4> QED BY <1>3, <4>1 DEF Lead
    <3>4. t[1].attempt >= c.attempt
      BY <1>3, <3>2, <3>3 DEF Script
    <3>5. ASSUME t[1].kind # "error"
          PROVE  Script(t, k + 1, r) /\ t[1].attempt = c.attempt
      <4>1. \A i \in 1..Len(t) : t[i] = b[1 + i]
        BY <1>6
      <4>2. b \in Seq(Result) /\ t \in Seq(Result) /\ Len(t) = Len(b) - 1 /\ 1 \in Nat
        BY <1>1, <1>4, <1>6
      <4>3. Script(b, k, r) /\ k \in Nat
        BY <1>3
      <4> HIDE DEF b, r
      <4> QED BY <3>3, <3>5, <4>1, <4>2, <4>3, ScriptRest
    <3> QED BY <3>1, <3>4, <3>5
  <2>2. \A i \in 1..Len(t) : t[i].attempt \in 1..deliveries[e]
    BY <1>6, <1>7
  <2>3. c.attempt <= deliveries[e] /\ k + 1 - 1 = k
    BY <1>3, <1>7
  <2>4. /\ reader'[g].inbox = t /\ reader'[g].attempt = c.attempt
        /\ reader'[g].seen = new.seen /\ reader'[g].body = new.body
    BY <1>2, <1>3, <1>4, <1>5
  <2>5. /\ EntryOf(Awaits[g]) \in Entries \ Malformed /\ Rid[EntryOf(Awaits[g])] = Awaits[g]
        /\ \A i \in 1..Len(new.body) : new.body[i] = <<i - 1, <<EntryOf(Awaits[g]), c.attempt>>>>
        /\ new.seen = 0..(Len(new.body) - 1)
        /\ t # <<>> =>
             /\ t[1].attempt >= c.attempt
             /\ t[1].kind # "error" =>
                  Script(t, IF t[1].attempt = c.attempt THEN Len(new.body) ELSE 0, Awaits[g])
        /\ c.attempt <= deliveries'[EntryOf(Awaits[g])]
        /\ \A i \in 1..Len(t) : t[i].attempt \in 1..deliveries'[EntryOf(Awaits[g])]
    <3>1. deliveries'[e] = deliveries[e] /\ Len(new.body) - 1 = k
      <4>1. Len(new.body) = k + 1 /\ k \in Nat
        BY <1>3, <1>8
      <4>2. deliveries' = deliveries
        BY <1>5
      <4> HIDE DEF e
      <4> QED BY <4>1, <4>2
    <3>2. \A i \in 1..Len(new.body) : new.body[i] = <<i - 1, <<e, c.attempt>>>>
      BY <1>8
    <3>3. new.seen = 0..(Len(new.body) - 1)
      BY <1>8, <3>1
    <3>4. t # <<>> =>
            /\ t[1].attempt >= c.attempt
            /\ t[1].kind # "error" =>
                 Script(t, IF t[1].attempt = c.attempt THEN Len(new.body) ELSE 0, r)
      BY <1>8, <2>1
    <3> HIDE DEF c
    <3> QED BY <1>7, <2>2, <2>3, <3>1, <3>2, <3>3, <3>4
  <2> HIDE DEF c
  <2> QED BY <2>4, <2>5 DEF BodyOK
<1>10. Clean(r) /\ StreamOK(r)
  <2>1. Clean(r)
    BY DEF Clean, Exclusive
  <2> QED BY <1>1, <2>1 DEF ExactInv
<1>11. CursorOK(g)'
  <2>1. /\ reader'[g].inbox = t /\ reader'[g].attempt = c.attempt
        /\ reader'[g].fetched = F /\ reader'[g].body = new.body
    BY <1>2, <1>3, <1>4, <1>5
  <2>2. F <= Len(s)
    BY <1>1 DEF CursorOK
  <2>3. CASE F > 0
    <3>1. /\ n >= 0
          /\ \A i \in 1..Len(b) : b[i] = s[n + i]
          /\ \A i \in 1..n : s[i].kind = "chunk"
          /\ IF n = 0 THEN reader[g].attempt < s[1].attempt
             ELSE reader[g].attempt = s[1].attempt /\ Len(reader[g].body) = n
      BY <1>1, <2>3 DEF CursorOK
    <3>2. n \in Nat /\ F - Len(t) = n + 1 /\ n + 1 > 0 /\ n + 1 # 0 /\ n + 1 \in 1..Len(s)
          /\ Len(s) \in Nat
      <4>1. /\ Len(s) \in Nat /\ Len(b) \in Nat /\ F \in Nat /\ F <= Len(s)
            /\ Len(t) = Len(b) - 1
        BY <1>1, <1>6, <2>2
      <4>2. Len(b) >= 1
        <5> HIDE DEF b, t
        <5> QED BY <1>6
      <4>3. n >= 0 /\ n = F - Len(b)
        BY <3>1
      <4> HIDE DEF s, F, b, t, n
      <4> QED BY <4>1, <4>2, <4>3
    <3> HIDE DEF n
    <3>3. c = s[n + 1]
      BY <1>6, <3>1
    <3>4. \A i \in 1..Len(t) : t[i] = s[n + 1 + i]
      <4>1. \A i \in 1..Len(t) : n + (1 + i) = n + 1 + i
        BY <3>2
      <4>2. \A i \in 1..Len(t) : b[1 + i] = s[n + (1 + i)]
        BY <1>6, <3>1
      <4> QED BY <1>6, <4>1, <4>2
    <3>5. \A i \in 1..(n + 1) : s[i].kind = "chunk"
      <4>1. \A i \in 1..(n + 1) : i \in 1..n \/ i = n + 1
        BY <3>2
      <4>2. c.kind = "chunk" /\ s[n + 1].kind = "chunk"
        BY <1>3, <3>3
      <4> QED BY <3>1, <4>1, <4>2
    <3>6. c.attempt = s[1].attempt
      <4>1. Lead(s, n + 1)
        <5>1. n + 1 - 1 = n
          BY <3>2
        <5> QED BY <3>1, <5>1 DEF Lead
      <4>2. Script(s, 0, r)
        BY <1>10 DEF StreamOK
      <4>3. s[n + 1].kind = "chunk"
        BY <1>3, <3>3
      <4> HIDE DEF s
      <4>4. s[n + 1].attempt = s[1].attempt
        BY <3>2, <4>1, <4>2, <4>3 DEF Script
      <4> QED BY <3>3, <4>4
    <3>7. k = n
      <4>1. IF c.attempt > reader[g].attempt THEN rd.body = <<>> ELSE rd.body = reader[g].body
        BY <1>1, LookedAt DEF rd
      <4>2. reader[g].attempt \in Int /\ c.attempt \in Nat
        BY <1>1, <1>3 DEF ReaderState, Result
      <4>3. CASE n = 0
        <5>1. rd.body = <<>>
          BY <3>1, <3>6, <4>1, <4>2, <4>3
        <5> QED BY <4>3, <5>1 DEF k
      <4>4. CASE n # 0
        <5>1. rd.body = reader[g].body
          BY <3>1, <3>6, <4>1, <4>2, <4>4
        <5> QED BY <3>1, <4>4, <5>1 DEF k
      <4> QED BY <4>3, <4>4
    <3>8. /\ results'[Awaits[g]] = s /\ F <= Len(s) /\ n + 1 >= 0
          /\ Len(new.body) = n + 1 /\ c.attempt = s[1].attempt /\ F # 0
      BY <1>5, <1>8, <2>2, <2>3, <3>2, <3>6, <3>7
    <3> HIDE DEF s, c, F
    <3> QED BY <2>1, <3>2, <3>4, <3>5, <3>8 DEF CursorOK
  <2>4. CASE F = 0
    <3>1. s # <<>> => /\ c.attempt < s[1].attempt
                      /\ \A i \in 1..Len(t) : t[i].attempt < s[1].attempt
      BY <1>1, <1>6, <2>4 DEF CursorOK
    <3> QED BY <1>5, <2>1, <2>2, <2>4, <3>1 DEF CursorOK
  <2> QED BY <1>1, <2>3, <2>4
<1>12. ASSUME NEW w \in Workers PROVE FreshOK(g, w)'
  <2>1. /\ reader'[g].inbox = t /\ reader'[g].attempt = c.attempt /\ reader'[g].fetched = F
    BY <1>2, <1>3, <1>4, <1>5
  <2>2. FreshOK(g, w)
    BY <1>1
  <2> QED BY <1>5, <1>6, <2>1, <2>2 DEF FreshOK
<1>13. new.st = "reading"
    BY <1>2, <1>4
<1> QED BY <1>2, <1>5, <1>9, <1>11, <1>12, <1>13, ReadsOn

\* A caller that finds the final marker has the whole text.
LEMMA FinalWhole ==
    ASSUME Exclusive, ExactInv, NEW g \in Readers, reader[g].st = "reading",
           reader[g].inbox # <<>>, reader[g].inbox[1].kind = "final",
           Stopped(g, "final", Looked(reader[g]).body)
    PROVE  WholeBody(g)'
<1> DEFINE r == Awaits[g]
           e == EntryOf(r)
           c == reader[g].inbox[1]
           q == Looked(reader[g]).body
           k == Len(q)
           a == c.attempt
<1>1. /\ reader[g] \in ReaderState /\ TypeOK /\ BodyOK(g) /\ HoldersInv /\ faults <= MaxFaults
    BY DEF ExactInv, ReaderInv, ReaderTypeOK
<1>2. /\ a \in 1..deliveries[e] /\ k \in Nat /\ Looked(reader[g]) \in ReaderState
      /\ \A i \in 1..k : q[i] = <<i - 1, <<e, a>>>>
      /\ k = Sentences[r]
    BY <1>1, NextChunk
<1>3. q \in Seq(Nat \X (Entries \X Nat))
  <2> DEFINE rd == Looked(reader[g])
  <2> HIDE DEF rd
  <2>1. rd \in ReaderState => rd.body \in Seq(Nat \X (Entries \X Nat))
    BY DEF ReaderState
  <2> QED BY <1>2, <2>1 DEF rd
<1>4. e \in Entries /\ a \in 1..(MaxFaults + MaxSteals + MaxRetries + 1)
  <2>1. e \in Entries
    BY <1>1 DEF BodyOK
  <2>2. deliveries[e] <= MaxRetries + faults + 1 /\ deliveries[e] \in Nat /\ faults \in Nat
    BY <1>1, <2>1, ConstantsAssumption DEF HoldersInv, DeliveriesBounded, TypeOK
  <2> HIDE DEF a
  <2> QED BY <1>1, <1>2, <2>1, <2>2, ConstantsAssumption
<1>5. reader'[g].body = q
    BY DEF Stopped
<1> HIDE DEF q, a, e
<1>6. q = [i \in 1..Len(q) |-> q[i]]
    BY <1>3
<1>7. q = [i \in 1..Sentences[r] |-> <<i - 1, <<e, a>>>>]
    BY <1>2, <1>6
<1> QED BY <1>4, <1>5, <1>7 DEF WholeBody

\* Looking at a chunk keeps the invariant.
LEMMA ConsumeExact ==
    ASSUME Exclusive, ExactInv, NEW g \in Readers, Consume(g)
    PROVE  ExactInv'
<1> DEFINE c == reader[g].inbox[1]
           rd == Looked(reader[g])
<1>1. ReaderTypeOK /\ ReaderInv' /\ reader[g] \in ReaderState
  <2>1. ReaderTypeOK /\ ReaderInv
    BY DEF ExactInv, ReaderInv
  <2>2. ReaderInv'
    BY <2>1, ReaderInductive DEF ReaderNext
  <2> QED BY <2>1, <2>2 DEF ReaderTypeOK
<1>2. /\ reader[g].st = "reading" /\ reader[g].inbox # <<>>
      /\ \/ Skipped(g)
         \/ Collected(g)
         \/ c.attempt = rd.attempt /\ c.kind # "chunk" /\ Stopped(g, c.kind, rd.body)
    BY <1>1, ConsumeForms
<1>3. BodyOK(g)
    BY <1>2 DEF ExactInv
<1>4. ~Skipped(g)
  <2>1. /\ rd.attempt = c.attempt /\ c.attempt \in Nat
        /\ rd.seen = 0..(Len(rd.body) - 1) /\ Len(rd.body) \in Nat
        /\ c.kind = "chunk" => c.seq = Len(rd.body)
    <3>1. /\ rd.attempt = c.attempt /\ c \in Result
          /\ rd.seen = 0..(Len(rd.body) - 1) /\ Len(rd.body) \in Nat
          /\ c.kind = "chunk" => c.seq = Len(rd.body)
      BY <1>1, <1>2, <1>3, NextChunk
    <3> HIDE DEF c, rd
    <3> QED BY <3>1 DEF Result
  <2>2. ~(c.attempt < rd.attempt)
    BY <2>1
  <2>3. c.kind = "chunk" => c.seq \notin rd.seen
    <3> HIDE DEF c, rd
    <3> QED BY <2>1
  <2> QED BY <2>2, <2>3 DEF Skipped
<1>5. CASE Collected(g)
    BY <1>1, <1>2, <1>5, CollectExact
<1>6. CASE c.kind # "chunk" /\ Stopped(g, c.kind, rd.body)
  <2>1. c \in Result
    BY <1>1, <1>2, LookedAt
  <2>2. c.kind \in {"final", "error", "gone"}
    BY <1>6, <2>1 DEF Result
  <2>3. c.kind = "final" => WholeBody(g)'
    BY <1>2, <1>6, FinalWhole
  <2> HIDE DEF c, rd
  <2> QED BY <1>1, <1>2, <1>6, <2>2, <2>3, StopsAlone
<1> QED BY <1>2, <1>4, <1>5, <1>6

\* Exact audio is inductive.
LEMMA ExactInductive ==
    ASSUME Exclusive
    PROVE  /\ ReaderInit => ExactInv
           /\ ExactInv /\ [ReaderNext]_allVars => ExactInv'
<1>1. ASSUME ReaderInit PROVE ExactInv
  <2>1. ReaderInv
    BY <1>1, ReaderInductive
  <2>2. /\ queue = <<>> /\ pel = {} /\ acked = {} /\ faults = 0
        /\ deliveries = [e \in Entries |-> 0] /\ results = [r \in Requests |-> <<>>]
        /\ pc = [w \in Workers |-> "idle"] /\ task = [w \in Workers |-> NoTask]
        /\ reader = [g \in Readers |-> ReaderOff] /\ ReaderOff.st = "off"
    BY <1>1 DEF ReaderInit, Init, ReaderOff
  <2>3. HoldersInv /\ faults <= MaxFaults
    BY <2>2, ConstantsAssumption
       DEF HoldersInv, QueueOK, HolderOK, DeliveriesBounded, Held, Handling, NoTask
  <2>4. \A r \in Requests : StreamOK(r)
    BY <2>2 DEF StreamOK, Script
  <2>5. \A w \in Workers : WriterOK(w)
    BY <2>2 DEF WriterOK, Handling
  <2> QED BY <2>1, <2>2, <2>3, <2>4, <2>5 DEF ExactInv
<1>2. ASSUME ExactInv, [ReaderNext]_allVars PROVE ExactInv'
  <2>1. CASE UNCHANGED allVars
    <3>1. ReaderInv'
      BY <1>2, ReaderInductive DEF ExactInv
    <3>2. /\ UNCHANGED <<queue, pel, acked, deliveries, results, pc, task, faults>>
          /\ reader' = reader
      BY <2>1 DEF allVars, vars
    <3>3. HoldersInv' /\ (faults <= MaxFaults)'
      BY <1>2, <3>2 DEF ExactInv, HoldersInv, QueueOK, HolderOK, DeliveriesBounded, Held
    <3>4. \A r \in Requests : Clean(r)' => StreamOK(r)'
      BY <1>2, <3>2 DEF ExactInv, StreamOK, Clean
    <3>5. ASSUME NEW w \in Workers PROVE WriterOK(w)'
      <4>1. Req(w)' = Req(w) /\ (Clean(Req(w))' <=> Clean(Req(w)))
        BY <3>2 DEF Req, Clean
      <4>2. WriterOK(w)
        BY <1>2 DEF ExactInv
      <4> QED BY <3>2, <4>1, <4>2 DEF WriterOK
    <3>6. ASSUME NEW f \in Readers
          PROVE  /\ reader'[f].st = "off" => reader'[f] = ReaderOff
                 /\ reader'[f].st = "reading" =>
                      BodyOK(f)' /\ CursorOK(f)' /\ \A w \in Workers : FreshOK(f, w)'
                 /\ reader'[f].st = "final" => WholeBody(f)'
      <4>1. BodyOK(f) => BodyOK(f)'
        BY <3>2 DEF BodyOK
      <4>2. CursorOK(f) => CursorOK(f)'
        BY <3>2 DEF CursorOK
      <4>3. \A w \in Workers : FreshOK(f, w) => FreshOK(f, w)'
        BY <3>2 DEF FreshOK
      <4> QED BY <1>2, <3>2, <4>1, <4>2, <4>3 DEF ExactInv, WholeBody
    <3> QED BY <3>1, <3>3, <3>4, <3>5, <3>6 DEF ExactInv
  <2>2. CASE WorkerStep
    BY <1>2, <2>2, WorkerExact
  <2>3. ASSUME NEW g \in Readers, GiveUp(g)
        PROVE  ExactInv'
    <3>1. ReaderTypeOK /\ ReaderInv'
      BY <1>2, ReaderInductive DEF ExactInv, ReaderInv
    <3>2. Stopped(g, "gone", reader[g].body) /\ reader[g].st = "reading"
      BY <2>3, <3>1, GiveUpForm DEF GiveUp
    <3> QED BY <1>2, <3>1, <3>2, StopsAlone
  <2> QED BY <1>2, <2>1, <2>2, <2>3, OpenExact, XReadExact, ConsumeExact DEF ReaderNext
<1> QED BY <1>1, <1>2

\* What a synchronous caller is told is done is whole, in order, of one delivery and durable
\* (collect_pcm_until_final), as long as every job is enqueued once, entries are claimed
\* only from dead workers, XPENDING answers, and a request has one caller.
THEOREM WholeAudio ==
    ASSUME Exclusive
    PROVE  ReaderSpec => []ReaderSound
<1>1. ExactInv => ReaderSound
  <2>1. ExactInv => ReaderTypeOK /\ ExactAudio
    BY DEF ExactInv, ReaderInv, ExactAudio
  <2>2. ExactInv => DoneIsDurable
    BY DEF ExactInv, ReaderInv, IInv, FinalAfterCommit, FinalsAnnounced, DoneIsDurable
  <2> QED BY <2>1, <2>2 DEF ReaderSound
<1> QED BY <1>1, ExactInductive, PTL DEF ReaderSpec
=============================================================================
