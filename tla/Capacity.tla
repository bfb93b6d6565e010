------------------------------ MODULE Capacity ------------------------------
(***************************************************************************)
(* Heartbeats and backpressure: the heartbeat loop of a worker             *)
(* (src/worker/heartbeat.py) and its place in the worker's life            *)
(* (src/worker/main.py, consumer.run and _tick), the gateway's reading of  *)
(* the heartbeats (src/server/heartbeat.py) and of the queue               *)
(* (TtsJobQueue.backlog_depth), and the admission decision                 *)
(* (_compute_backpressure_decision, src/server/main.py) before a job is    *)
(* added to the stream.                                                    *)
(*                                                                         *)
(* A tick is one heartbeat interval, and time is kept as ages, so there is *)
(* no bound on it.  A worker that runs writes once per tick or fails to.   *)
(* SCAN and the HGETALLs are one step; Redis reports the lag of the group. *)
(***************************************************************************)
EXTENDS Integers, FiniteSets, FiniteSetsExt

CONSTANTS
    Workers,
    Handlers,        \* requests a gateway serves at once
    QueueLimit,      \* NEUROVOICE_QUEUE_DEPTH_LIMIT
    WorkerCapacity,  \* NEUROVOICE_WORKER_CAPACITY
    BeatTtl,         \* NEUROVOICE_WORKER_HEARTBEAT_TTL_S, in intervals
    StaleAfter,      \* NEUROVOICE_GATEWAY_HEARTBEAT_STALE_MS, in intervals
    Skews,           \* gateway clock minus worker clock, in intervals
    CapacityFaults   \* bound: failed commands, crashes, shutdowns, failed jobs

ASSUME CapacityAssumption ==
    /\ IsFiniteSet(Workers)
    /\ IsFiniteSet(Handlers)
    /\ QueueLimit \in Nat
    /\ WorkerCapacity \in Nat \ {0}
    /\ BeatTtl \in Nat \ {0}
    /\ StaleAfter \in Nat \ {0}
    /\ Skews \subseteq Int /\ IsFiniteSet(Skews)
    /\ CapacityFaults \in Nat

VARIABLES
    beatKey,  \* the hash of each worker in Redis
    worker,   \* the worker processes
    lag,      \* entries not yet delivered
    orphans,  \* entries delivered, not acknowledged, that nobody works on
    caller,   \* the requests in the gateway
    skew,
    hitches   \* faults so far

capacityVars == <<beatKey, worker, lag, orphans, caller, skew, hitches>>

MaxAge == StaleAfter + Max({1} \cup {-s : s \in Skews}) + 1
NoTtl == BeatTtl + 1   \* a key without expiry

Beat == [set : BOOLEAN, age : 0..MaxAge, ttl : 0..NoTtl, in_flight : Int]
Process == [state : {"off", "up", "stopping", "dead"},
            beat : {"due", "pexpire", "sleep", "over"},
            busy : {"no", "tick", "sweep"},
            in_flight : Nat,
            missed : 0..MaxAge,           \* history: ticks in a row without a full write
            gone : 0..MaxAge]             \* history: ticks since it last ran
Caller == [at : {"idle", "decide", "submit"}, depth : Nat]

CapacityTypeOK ==
    /\ beatKey \in [Workers -> Beat]
    /\ worker \in [Workers -> Process]
    /\ lag \in Nat
    /\ orphans \in Nat
    /\ caller \in [Handlers -> Caller]
    /\ skew \in Skews
    /\ hitches \in 0..CapacityFaults

NoBeat == [set |-> FALSE, age |-> 0, ttl |-> NoTtl, in_flight |-> 0]
Off == [state |-> "off", beat |-> "over", busy |-> "no", in_flight |-> 0, missed |-> MaxAge,
        gone |-> MaxAge]

CapacityInit ==
    /\ beatKey = [w \in Workers |-> NoBeat]
    /\ worker = [w \in Workers |-> Off]
    /\ lag = 0
    /\ orphans = 0
    /\ caller = [h \in Handlers |-> [at |-> "idle", depth |-> 0]]
    /\ skew \in Skews
    /\ hitches = 0

Older(a) == Min({a + 1, MaxAge})

Hitch == hitches < CapacityFaults /\ hitches' = hitches + 1

Runs(w) == worker[w].state \in {"up", "stopping"}
Busy == {w \in Workers : worker[w].busy # "no"}

-----------------------------------------------------------------------------
(* The worker process.                                                     *)

\* boot_worker is done: the heartbeat task starts and the consumer runs.
Boot(w) ==
    /\ worker[w].state \in {"off", "dead"}
    /\ worker' = [worker EXCEPT ![w] = [Off EXCEPT !.state = "up", !.beat = "due", !.gone = 0]]
    /\ UNCHANGED <<beatKey, lag, orphans, caller, skew, hitches>>

Missed(w) == worker' = [worker EXCEPT ![w].beat = "sleep", ![w].missed = Older(@)]

\* Mutant of Hset: the time of the last job is written, not that of the beat.
HsetPickup(w) ==
    /\ worker[w].beat = "due" /\ worker[w].state = "up"
    /\ \/ /\ beatKey' = [beatKey EXCEPT ![w] = [@ EXCEPT !.set = TRUE,
                             !.age = IF worker[w].busy = "no" /\ beatKey[w].set THEN @ ELSE 0,
                             !.in_flight = worker[w].in_flight]]
          /\ worker' = [worker EXCEPT ![w].beat = "pexpire"]
          /\ UNCHANGED hitches
       \/ Hitch /\ Missed(w) /\ UNCHANGED beatKey
    /\ UNCHANGED <<lag, orphans, caller, skew>>

\* _write_once: HSET, which keeps the expiry the key has, or its failure,
\* which the loop swallows ...
Hset(w) ==
    /\ worker[w].beat = "due" /\ worker[w].state = "up"
    /\ \/ /\ beatKey' = [beatKey EXCEPT ![w] = [@ EXCEPT !.set = TRUE, !.age = 0,
                                                         !.in_flight = worker[w].in_flight]]
          /\ worker' = [worker EXCEPT ![w].beat = "pexpire"]
          /\ UNCHANGED hitches
       \/ Hitch /\ Missed(w) /\ UNCHANGED beatKey
    /\ UNCHANGED <<lag, orphans, caller, skew>>

\* ... and PEXPIRE.
Pexpire(w) ==
    /\ worker[w].beat = "pexpire"
    /\ \/ /\ beatKey' = [beatKey EXCEPT ![w].ttl = IF beatKey[w].set THEN BeatTtl ELSE @]
          /\ worker' = [worker EXCEPT ![w].beat = "sleep", ![w].missed = 0]
          /\ UNCHANGED hitches
       \/ Hitch /\ Missed(w) /\ UNCHANGED beatKey
    /\ UNCHANGED <<lag, orphans, caller, skew>>

\* The end of the loop: DEL, whose failure is only logged.
BeatStops(w) ==
    /\ worker[w].state = "stopping" /\ worker[w].beat \in {"due", "sleep"}
    /\ worker' = [worker EXCEPT ![w].beat = "over"]
    /\ \/ beatKey' = [beatKey EXCEPT ![w] = NoBeat] /\ UNCHANGED hitches
       \/ Hitch /\ UNCHANGED beatKey
    /\ UNCHANGED <<lag, orphans, caller, skew>>

\* _tick: XREADGROUP returns an entry.
Pickup(w) ==
    /\ worker[w].state = "up" /\ worker[w].busy = "no"
    /\ lag > 0
    /\ lag' = lag - 1
    /\ worker' = [worker EXCEPT ![w].busy = "tick", ![w].in_flight = @ + 1]
    /\ UNCHANGED <<beatKey, orphans, caller, skew, hitches>>

\* _xautoclaim_sweep works on an abandoned entry, and in_flight says nothing of it.
Sweep(w) ==
    /\ worker[w].state = "up" /\ worker[w].busy = "no"
    /\ orphans > 0
    /\ orphans' = orphans - 1
    /\ worker' = [worker EXCEPT ![w].busy = "sweep"]
    /\ UNCHANGED <<beatKey, lag, caller, skew, hitches>>

\* Mutant of CountDown: only a job that ends well is taken off the count.
CountDownOnAck(w, acked) ==
    worker' = [worker EXCEPT ![w].busy = "no",
        ![w].in_flight = IF worker[w].busy = "tick" /\ acked THEN Max({0, @ - 1}) ELSE @]

\* The finally of _tick.
CountDown(w, acked) ==
    worker' = [worker EXCEPT ![w].busy = "no",
        ![w].in_flight = IF worker[w].busy = "tick" THEN Max({0, @ - 1}) ELSE @]

\* _handle_one is over: the entry is acknowledged, or left for a sweep.
JobOver(w) ==
    /\ Runs(w) /\ worker[w].busy # "no"
    /\ \/ CountDown(w, TRUE) /\ UNCHANGED <<orphans, hitches>>
       \/ Hitch /\ CountDown(w, FALSE) /\ orphans' = orphans + 1
    /\ UNCHANGED <<beatKey, lag, caller, skew>>

\* SIGTERM sets the stop event: the heartbeat ends at once, the job in hand first.
Stop(w) ==
    /\ worker[w].state = "up"
    /\ Hitch
    /\ worker' = [worker EXCEPT ![w].state = "stopping"]
    /\ UNCHANGED <<beatKey, lag, orphans, caller, skew>>

Exit(w) ==
    /\ worker[w].state = "stopping" /\ worker[w].beat = "over" /\ worker[w].busy = "no"
    /\ worker' = [worker EXCEPT ![w] = [Off EXCEPT !.gone = 0]]
    /\ UNCHANGED <<beatKey, lag, orphans, caller, skew, hitches>>

\* The process is killed; its hash stays, possibly without an expiry.
Crash(w) ==
    /\ Runs(w)
    /\ Hitch
    /\ orphans' = IF worker[w].busy = "no" THEN orphans ELSE orphans + 1
    /\ worker' = [worker EXCEPT ![w] = [Off EXCEPT !.state = "dead", !.gone = 0]]
    /\ UNCHANGED <<beatKey, lag, caller, skew>>

-----------------------------------------------------------------------------
(* Time: an interval passes once every heartbeat loop has had its turn.    *)

Aged(k) ==
    IF ~k.set THEN k
    ELSE IF k.ttl = 1 THEN NoBeat   \* Redis expires the key
    ELSE [k EXCEPT !.age = Older(@), !.ttl = IF @ = NoTtl THEN @ ELSE @ - 1]

Tick ==
    /\ \A w \in Workers : Runs(w) => worker[w].beat \in {"sleep", "over"}
    /\ beatKey' = [w \in Workers |-> Aged(beatKey[w])]
    /\ worker' = [w \in Workers |->
           [worker[w] EXCEPT !.beat = IF @ = "sleep" THEN "due" ELSE @,
                             !.gone = IF Runs(w) THEN 0 ELSE Older(@)]]
    /\ UNCHANGED <<lag, orphans, caller, skew, hitches>>

-----------------------------------------------------------------------------
(* The gateway.                                                            *)

\* A heartbeat that is there and not older than the threshold.
Healthy(w) == beatKey[w].set /\ beatKey[w].age + skew <= StaleAfter

\* pending + lag.
backlog_depth == Cardinality(Busy) + orphans + lag

HealthyWorkers == {w \in Workers : Healthy(w)}
total_capacity == WorkerCapacity * Cardinality(HealthyWorkers)
total_inflight == MapThenSumSet(LAMBDA w : beatKey[w].in_flight, HealthyWorkers)

\* _compute_backpressure_decision; known: the SCAN did not fail.
Admit(depth, known) ==
    LET headroom == total_capacity - total_inflight IN
    IF known /\ HealthyWorkers # {}
    THEN headroom >= 0 /\ depth <= QueueLimit /\ depth <= headroom + total_capacity
    ELSE depth <= QueueLimit

ReadDepth(h) ==
    /\ caller[h].at = "idle"
    /\ caller' = [caller EXCEPT ![h] = [at |-> "decide", depth |-> backlog_depth]]
    /\ UNCHANGED <<beatKey, worker, lag, orphans, skew, hitches>>

\* read_cluster_capacity and the decision: 503, or on to the submission.
Decide(h) ==
    /\ caller[h].at = "decide"
    /\ \E known \in BOOLEAN :
          /\ IF known THEN UNCHANGED hitches ELSE Hitch
          /\ caller' = [caller EXCEPT ![h] =
                 [at |-> IF Admit(caller[h].depth, known) THEN "submit" ELSE "idle",
                  depth |-> 0]]
    /\ UNCHANGED <<beatKey, worker, lag, orphans, skew>>

\* XADD.
Submit(h) ==
    /\ caller[h].at = "submit"
    /\ lag' = lag + 1
    /\ caller' = [caller EXCEPT ![h] = [at |-> "idle", depth |-> 0]]
    /\ UNCHANGED <<beatKey, worker, orphans, skew, hitches>>

-----------------------------------------------------------------------------

\* The two tasks of a worker's event loop.
Heartbeat(w) == Hset(w) \/ Pexpire(w) \/ BeatStops(w)
Consumer(w) == Pickup(w) \/ Sweep(w) \/ JobOver(w) \/ Exit(w)

CapacityNext ==
    \/ \E w \in Workers : Boot(w) \/ Heartbeat(w) \/ Consumer(w) \/ Stop(w) \/ Crash(w)
    \/ Tick
    \/ \E h \in Handlers : ReadDepth(h) \/ Decide(h) \/ Submit(h)

CapacitySpec ==
    /\ CapacityInit
    /\ [][CapacityNext]_capacityVars
    /\ \A w \in Workers : /\ WF_capacityVars(Boot(w))
                         /\ WF_capacityVars(Heartbeat(w))
                         /\ WF_capacityVars(Consumer(w))
    /\ WF_capacityVars(Tick)

-----------------------------------------------------------------------------
(* Properties.                                                             *)

Admitted == {h \in Handlers : caller[h].at = "submit"}

\* "Hard ceiling on live queue backlog": requests that are admitted on a depth
\* read earlier, whatever the heartbeats say, add at most one entry each.
BacklogBounded == backlog_depth + Cardinality(Admitted) <= QueueLimit + Cardinality(Handlers)

\* A worker that is gone stops being counted once its last heartbeat is stale,
\* by whatever clock the gateway goes, even when it died between HSET and
\* PEXPIRE and left a key that never expires.
DeadNotCounted ==
    \A w \in Workers : Healthy(w) => worker[w].gone + skew <= StaleAfter

\* "Idle-but-alive workers must NOT be evicted just because no jobs arrived": a
\* worker that runs and has written a heartbeat is counted, also through as many
\* failed writes as the expiry and the threshold leave room for, and though its
\* predecessor left a key behind.
AliveIsCounted ==
    \A w \in Workers :
        /\ worker[w].state = "up" /\ worker[w].beat = "sleep"
        /\ worker[w].missed < BeatTtl /\ worker[w].missed + skew <= StaleAfter
        => Healthy(w)

\* The gateway does not refuse for ever: a backlog, abandoned entries, jobs that
\* raise and workers that restart leave a state in which it admits again.
AdmitsAgain == []<>Admit(backlog_depth, TRUE)

\* What the gateway makes of heartbeats and backlog, in every state: the dead are
\* not counted, the living are, and what is admitted on old readings is bounded.
CapacitySound ==
    CapacityTypeOK /\ BacklogBounded /\ DeadNotCounted /\ AliveIsCounted
=============================================================================
