------------------------------- MODULE Engine -------------------------------
(***************************************************************************)
(* The inside of a worker process: the model cache and the locks of        *)
(* VoxCPM2Engine (src/worker/engine.py), the thread that runs it for a job *)
(* and the queue that brings its chunks to the event loop                  *)
(* (src/worker/live.py), the boot (src/worker/runtime.py) and the loop of  *)
(* process_one_job that publishes the chunks (src/worker/pipeline.py).     *)
(*                                                                         *)
(* The event loop serves one job after the other.  A job that fails while  *)
(* its thread is inside the engine leaves the thread behind (iter_engine_  *)
(* chunks is given no cancel_event), so threads of several jobs can be in  *)
(* the engine at once.  Watermarking and speed change bytes only.          *)
(***************************************************************************)
EXTENDS Integers, Sequences, SequencesExt, FiniteSets

CONSTANTS
    Adapters,      \* LoRA adapters of voices
    Base,          \* the model without an adapter: the default one
    Jobs,          \* bound: the jobs are 1..Jobs
    MaxSentences,  \* bound: segments of a text
    CacheSize,     \* NEUROVOICE_LORA_CACHE_SIZE
    PoolSize,      \* threads of the default executor
    WarmupVoices,  \* adapters of NEUROVOICE_WORKER_WARMUP_VOICES, in order
    EngineFaults   \* bound: exceptions from outside the modelled code

ASSUME EngineAssumption ==
    /\ Base \notin Adapters
    /\ Jobs \in Nat
    /\ MaxSentences \in Nat
    /\ CacheSize \in Nat \ {0}
    /\ PoolSize \in Nat \ {0}
    /\ WarmupVoices \in Seq(Adapters)
    /\ EngineFaults \in Nat

VARIABLES
    models,    \* _models: keys, least recently used first
    loadLock,  \* _load_lock: 0 or the job whose thread holds it
    inferLock, \* _inference_lock
    thread,    \* the producer thread of each job
    bridge,    \* the asyncio queue of each job
    current,   \* the job the event loop is at, 0 before the first
    loop,      \* what the event loop does
    job,       \* adapter, text and fate of each job
    warmed,    \* voices tried at boot
    mishaps    \* exceptions so far

engineVars == <<models, loadLock, inferLock, thread, bridge, current, loop, job,
                warmed, mishaps>>

Keys == Adapters \cup {Base}
NoAdapter == "no adapter"   \* a voice of the catalogue without one

\* The voice's adapter, or the default of the worker.
adapter_for_voice(a) == IF a = NoAdapter THEN Base ELSE a

JobIds == 1..Jobs

\* Where a thread can stand; "get" and "touch" are the look-up without the lock.
Inside == {"queued", "load", "check", "get", "touch", "lock", "loading", "infer",
           "generate", "yield"}

Thread == [at : Inside \cup {"none", "ended"}, want : Keys, index : Nat]
Item == [kind : {"chunk", "error", "end"}, index : Nat]
Job == [adapter : Adapters \cup {NoAdapter}, sentences : Nat, got : Seq(Nat),
        fate : {"new", "running", "done", "empty", "failed"}]

EngineTypeOK ==
    /\ models \in Seq(Keys)
    /\ loadLock \in 0..Jobs
    /\ inferLock \in 0..Jobs
    /\ thread \in [JobIds -> Thread]
    /\ bridge \in [JobIds -> Seq(Item)]
    /\ current \in 0..Jobs
    /\ loop \in {"boot", "idle", "get"}
    /\ job \in [JobIds -> Job]
    /\ warmed \in 0..Len(WarmupVoices)
    /\ mishaps \in 0..EngineFaults

EngineInit ==
    /\ models \in {<<>>, <<Base>>}   \* warm-up of the base model off or on
    /\ loadLock = 0
    /\ inferLock = 0
    /\ thread = [j \in JobIds |-> [at |-> "none", want |-> Base, index |-> 0]]
    /\ bridge = [j \in JobIds |-> <<>>]
    /\ current = 0
    /\ loop = "boot"
    /\ job = [j \in JobIds |-> [adapter |-> NoAdapter, sentences |-> 0, got |-> <<>>, fate |-> "new"]]
    /\ warmed = IF models = <<>> THEN Len(WarmupVoices) ELSE 0
    /\ mishaps = 0

Mishap == mishaps < EngineFaults /\ mishaps' = mishaps + 1

-----------------------------------------------------------------------------
(* The cache.                                                              *)

Cached(k) == \E i \in DOMAIN models : models[i] = k

\* A key is in the cache once.
move_to_end(s, k) ==
    LET i == CHOOSE i \in DOMAIN s : s[i] = k IN Append(RemoveAt(s, i), k)

\* Mutant of evict_oldest: room is made only once the cache is over its size.
EvictLate(s) == IF Len(s) > CacheSize THEN SubSeq(s, Len(s) - CacheSize + 1, Len(s)) ELSE s

\* Models are dropped from the old end until there is room for one more.
evict_oldest(s) == IF Len(s) >= CacheSize THEN SubSeq(s, Len(s) - CacheSize + 2, Len(s)) ELSE s

-----------------------------------------------------------------------------
(* Boot: the voices of the warm-up list, one after the other, and no other *)
(* thread.  A voice that is gone, frozen or fails to load is skipped.      *)

WarmupVoice ==
    /\ loop = "boot"
    /\ warmed < Len(WarmupVoices)
    /\ warmed' = warmed + 1
    /\ LET k == WarmupVoices[warmed + 1] IN
          \/ /\ models' = IF Cached(k) THEN move_to_end(models, k)
                          ELSE Append(evict_oldest(models), k)
             /\ UNCHANGED mishaps
          \/ Mishap /\ models' \in {models, evict_oldest(models)}
    /\ UNCHANGED <<loadLock, inferLock, thread, bridge, current, loop, job>>

BootReady ==
    /\ loop = "boot"
    /\ warmed = Len(WarmupVoices)
    /\ loop' = "idle"
    /\ UNCHANGED <<models, loadLock, inferLock, thread, bridge, current, job, warmed, mishaps>>

-----------------------------------------------------------------------------
(* The event loop.                                                         *)

\* iter_engine_chunks creates the queue and hands the producer to the executor.
StartJob ==
    /\ loop = "idle"
    /\ current < Jobs
    /\ current' = current + 1
    /\ loop' = "get"
    /\ \E a \in Adapters \cup {NoAdapter}, n \in 0..MaxSentences :
          job' = [job EXCEPT ![current + 1] =
                     [adapter |-> a, sentences |-> n, got |-> <<>>, fate |-> "running"]]
    /\ thread' = [thread EXCEPT ![current + 1].at = "queued"]
    /\ UNCHANGED <<models, loadLock, inferLock, bridge, warmed, mishaps>>

\* The iteration is over: its finally waits at most a second for the thread,
\* with no way to stop it, and the job ends as fate says.
Close(fate) == loop' = "idle" /\ job' = [job EXCEPT ![current].fate = fate]

\* queue.get(): a chunk is published, unless that raises; an exception is
\* raised again; None ends the iteration, and no audio at all is a failure.
QueueGet ==
    /\ loop = "get"
    /\ bridge[current] # <<>>
    /\ bridge' = [bridge EXCEPT ![current] = Tail(@)]
    /\ LET item == Head(bridge[current]) IN
          \/ /\ item.kind = "chunk"
             /\ job' = [job EXCEPT ![current].got = Append(@, item.index)]
             /\ UNCHANGED <<loop, mishaps>>
          \/ item.kind = "chunk" /\ Mishap /\ Close("failed")
          \/ item.kind = "error" /\ Close("failed") /\ UNCHANGED mishaps
          \/ /\ item.kind = "end"
             /\ Close(IF job[current].got = <<>> THEN "empty" ELSE "done")
             /\ UNCHANGED mishaps
    /\ UNCHANGED <<models, loadLock, inferLock, thread, current, warmed>>

-----------------------------------------------------------------------------
(* The producer thread of job j.                                           *)

Goes(j, at) == thread' = [thread EXCEPT ![j].at = at]

Puts(j, items) == bridge' = [bridge EXCEPT ![j] = @ \o items]

Chunk(j) == [kind |-> "chunk", index |-> thread[j].index]
Error == [kind |-> "error", index |-> 0]
End == [kind |-> "end", index |-> 0]

\* Mutant of Ends: an exception is not handed over, only the end.
EndsQuietly(j, items) == Goes(j, "ended") /\ Puts(j, <<End>>)

\* The thread returns: what the except and finally clauses put, then nothing.
Ends(j, items) == Goes(j, "ended") /\ Puts(j, items)

\* An exception leaves synthesize_stream.
Raises(j) == Ends(j, <<Error, End>>)

\* The thread has its model: it goes on to the reference or to the inference.
HasModel(j) == Goes(j, IF thread[j].index = 0 THEN "check" ELSE "infer")

\* The executor has a thread to spare.
Scheduled(j) ==
    /\ thread[j].at = "queued"
    /\ Cardinality({i \in JobIds : thread[i].at \notin {"none", "queued", "ended"}}) < PoolSize
    /\ Goes(j, "load")
    /\ UNCHANGED <<models, loadLock, inferLock, bridge, mishaps>>

\* _load: the default model is wanted only when there is none at all.
Load(j) ==
    /\ thread[j].at = "load"
    /\ Goes(j, IF models = <<>> THEN "get" ELSE "check")
    /\ UNCHANGED <<models, loadLock, inferLock, bridge, mishaps>>

\* The reference file may be gone; a text of no segments yields nothing.
Check(j) ==
    /\ thread[j].at = "check"
    /\ \/ Mishap /\ Raises(j)
       \/ job[j].sentences = 0 /\ Ends(j, <<End>>) /\ UNCHANGED mishaps
       \/ /\ job[j].sentences > 0
          /\ thread' = [thread EXCEPT ![j] =
                           [at |-> "get", want |-> adapter_for_voice(job[j].adapter),
                            index |-> 1]]
          /\ UNCHANGED <<bridge, mishaps>>
    /\ UNCHANGED <<models, loadLock, inferLock>>

\* self._models.get(key) without the lock ...
Get(j) ==
    /\ thread[j].at = "get"
    /\ Goes(j, IF Cached(thread[j].want) THEN "touch" ELSE "lock")
    /\ UNCHANGED <<models, loadLock, inferLock, bridge, mishaps>>

\* ... and move_to_end after it: a KeyError when the model was evicted between.
Touch(j) ==
    /\ thread[j].at = "touch"
    /\ \/ /\ Cached(thread[j].want)
          /\ models' = move_to_end(models, thread[j].want)
          /\ HasModel(j)
          /\ UNCHANGED bridge
       \/ ~Cached(thread[j].want) /\ Raises(j) /\ UNCHANGED models
    /\ UNCHANGED <<loadLock, inferLock, mishaps>>

\* Mutant of Lock: the cache is not looked at again.
LockBlindly(j) ==
    /\ thread[j].at = "lock"
    /\ loadLock = 0
    /\ models' = evict_oldest(models)
    /\ loadLock' = j
    /\ Goes(j, "loading")
    /\ UNCHANGED <<inferLock, bridge, mishaps>>

\* With the load lock the cache is looked at again; on a miss room is made.
Lock(j) ==
    /\ thread[j].at = "lock"
    /\ loadLock = 0
    /\ \/ /\ Cached(thread[j].want)
          /\ models' = move_to_end(models, thread[j].want)
          /\ HasModel(j)
          /\ UNCHANGED loadLock
       \/ /\ ~Cached(thread[j].want)
          /\ models' = evict_oldest(models)
          /\ loadLock' = j
          /\ Goes(j, "loading")
    /\ UNCHANGED <<inferLock, bridge, mishaps>>

\* Mutant of Loading: an exception keeps the lock.
LoadingKeepsLock(j) ==
    /\ thread[j].at = "loading"
    /\ \/ /\ models' = Append(models, thread[j].want)
          /\ HasModel(j)
          /\ loadLock' = 0
          /\ UNCHANGED <<bridge, mishaps>>
       \/ Mishap /\ Raises(j) /\ UNCHANGED <<models, loadLock>>
    /\ UNCHANGED inferLock

\* from_pretrained, or a missing adapter, a bad configuration, no memory.
Loading(j) ==
    /\ thread[j].at = "loading"
    /\ loadLock' = 0
    /\ \/ /\ models' = Append(models, thread[j].want)
          /\ HasModel(j)
          /\ UNCHANGED <<bridge, mishaps>>
       \/ Mishap /\ Raises(j) /\ UNCHANGED models
    /\ UNCHANGED inferLock

\* _generate_one with the inference lock.
Infer(j) ==
    /\ thread[j].at = "infer"
    /\ inferLock = 0
    /\ inferLock' = j
    /\ Goes(j, "generate")
    /\ UNCHANGED <<models, loadLock, bridge, mishaps>>

Generate(j) ==
    /\ thread[j].at = "generate"
    /\ inferLock' = 0
    /\ \/ Goes(j, "yield") /\ UNCHANGED <<bridge, mishaps>>
       \/ Mishap /\ Raises(j)
    /\ UNCHANGED <<models, loadLock>>

\* A chunk is handed over; there is another segment, or the thread returns.
Yield(j) ==
    /\ thread[j].at = "yield"
    /\ \/ /\ thread[j].index < job[j].sentences
          /\ Puts(j, <<Chunk(j)>>)
          /\ thread' = [thread EXCEPT ![j].at = "get", ![j].index = @ + 1]
       \/ thread[j].index = job[j].sentences /\ Ends(j, <<Chunk(j), End>>)
    /\ UNCHANGED <<models, loadLock, inferLock, mishaps>>

Produce(j) ==
    /\ \/ Scheduled(j) \/ Load(j) \/ Check(j) \/ Get(j) \/ Touch(j) \/ Lock(j)
       \/ Loading(j) \/ Infer(j) \/ Generate(j) \/ Yield(j)
    /\ UNCHANGED <<current, loop, job, warmed>>

EngineNext ==
    WarmupVoice \/ BootReady \/ StartJob \/ QueueGet \/ \E j \in JobIds : Produce(j)

EngineSpec ==
    /\ EngineInit
    /\ [][EngineNext]_engineVars
    /\ WF_engineVars(QueueGet)
    /\ \A j \in JobIds : WF_engineVars(Produce(j))

-----------------------------------------------------------------------------
(* Properties.                                                             *)

\* "peak VRAM stays bounded": the cached models and the one being loaded are
\* at most CacheSize, whoever touches, evicts and loads meanwhile.
CacheWithinBudget ==
    Len(models) + Cardinality({j \in JobIds : thread[j].at = "loading"}) <= CacheSize

\* Double-checked locking: what is in the cache is not loaded again, though two
\* threads missed it at once.
OneCopyPerModel ==
    [][\A j \in JobIds :
           thread[j].at # "loading" /\ thread'[j].at = "loading"
           => ~Cached(thread[j].want)]_engineVars

\* What the event loop took is the text's audio from its start, in order, and a
\* job that is done has all of it: an exception in the thread is never mistaken
\* for the end, and no chunk comes from the thread of an earlier job.
DoneIsWhole ==
    \A j \in JobIds :
        /\ \A i \in DOMAIN job[j].got : job[j].got[i] = i
        /\ job[j].fate = "done" => Len(job[j].got) = job[j].sentences

\* The event loop is not left waiting on the queue, whatever the thread ran into
\* and whatever threads earlier jobs left behind.
EveryJobEnds == loop = "get" ~> loop = "idle"

\* The memory of the engine, in every state (_get_or_load_model and its locks).
EngineSound == EngineTypeOK /\ CacheWithinBudget
=============================================================================
