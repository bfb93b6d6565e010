------------------------------- MODULE MCHost -------------------------------
(***************************************************************************)
(* What runs on a GPU host beside the job pipeline: the engine of a worker *)
(* process, the reference cache of the host's workers, and the heartbeats  *)
(* by which the gateways judge them.  They share no state, so a behaviour  *)
(* follows one of them (part) while the others stay in their initial       *)
(* states.                                                                 *)
(***************************************************************************)
EXTENDS Engine, R2Cache, Capacity

VARIABLE part

hostVars == <<engineVars, cacheVars, capacityVars, part>>

Warm == <<"a">>
SizeDef == [u \in Uris |-> IF u = "x" THEN 1 ELSE 2]
ProcDef == [t \in Fetchers |-> IF t = "t3" THEN "q" ELSE "p"]

HostInit ==
    /\ part \in {"engine", "cache", "capacity"}
    /\ EngineInit
    /\ part # "engine" => models = <<>>
    /\ CacheInit
    /\ CapacityInit

EngineOnly(A) == part = "engine" /\ A /\ UNCHANGED <<cacheVars, capacityVars, part>>
CacheOnly(A) == part = "cache" /\ A /\ UNCHANGED <<engineVars, capacityVars, part>>
CapacityOnly(A) == part = "capacity" /\ A /\ UNCHANGED <<engineVars, cacheVars, part>>

HostNext ==
    EngineOnly(EngineNext) \/ CacheOnly(CacheNext) \/ CapacityOnly(CapacityNext)

HostSpec ==
    /\ HostInit
    /\ [][HostNext]_hostVars
    /\ WF_hostVars(EngineOnly(QueueGet))
    /\ \A j \in JobIds : WF_hostVars(EngineOnly(Produce(j)))
    /\ \A t \in Fetchers : WF_hostVars(CacheOnly(FetchStep(t)))
    /\ \A w \in Workers : /\ WF_hostVars(CapacityOnly(Boot(w)))
                         /\ WF_hostVars(CapacityOnly(Heartbeat(w)))
                         /\ WF_hostVars(CapacityOnly(Consumer(w)))
    /\ WF_hostVars(CapacityOnly(Tick))
=============================================================================
