------------------------------ MODULE R2Cache ------------------------------
(***************************************************************************)
(* The on-disk cache of reference audio: R2Storage.download_to_cache and   *)
(* _enforce_cache_limit (src/storage/r2.py), called by                     *)
(* resolve_reference_uri (src/storage/reference_resolver.py) in threads of *)
(* several worker processes that share one cache directory.                *)
(*                                                                         *)
(* A file is the set of blocks written to it.  Which file is the oldest is *)
(* left open: an eviction may pick any.  The listing of the directory is   *)
(* one step.                                                               *)
(***************************************************************************)
EXTENDS Integers, FiniteSets

CONSTANTS
    Uris,        \* references in object storage
    Size,        \* blocks of each object
    CacheMax,    \* cache_max_bytes, in blocks; 0: no limit
    Fetchers,    \* threads that resolve a reference
    ProcessOf,   \* the worker process of each thread
    MaxFetches,  \* bound: calls of resolve_reference_uri
    CacheFaults  \* bound: failed downloads, purged objects, dead processes

ASSUME R2CacheAssumption ==
    /\ Uris # {}
    /\ Size \in [Uris -> Nat \ {0}]
    /\ CacheMax \in Nat
    /\ DOMAIN ProcessOf = Fetchers
    /\ MaxFetches \in Nat
    /\ CacheFaults \in Nat

VARIABLES
    objects,   \* what object storage holds
    files,     \* the cache directory: the blocks of each file, {}: no file
    parts,     \* the .part files that are being written
    uriLock,   \* _download_locks of each process: the threads that hold one
    fetch,     \* each thread
    fetches,   \* calls so far
    troubles   \* faults so far

cacheVars == <<objects, files, parts, uriLock, fetch, fetches, troubles>>

Processes == {ProcessOf[t] : t \in Fetchers}
Names == Fetchers \cup Uris

\* Mutant of tmp_name: the name is derived from the URI, as it was before the fix.
SharedName(t) == fetch[t].uri

\* The PID and a fresh uuid: nobody else's name.
tmp_name(t) == t

Fetch == [at : {"idle", "fast", "stat", "lock", "recheck", "restat", "download",
                "replace", "scan", "evict", "resolve"},
          uri : Uris,
          seen : SUBSET Uris,      \* files _enforce_cache_limit still goes through
          total : Nat,             \* its count of the bytes
          raced : BOOLEAN,         \* history: somebody else evicted the file meanwhile
          answer : {"none", "ok", "missing", "error"}]

CacheTypeOK ==
    /\ objects \subseteq Uris
    /\ files \in [Uris -> SUBSET Nat]
    /\ parts \in [Names -> SUBSET Nat]
    /\ uriLock \in [Processes \X Uris -> SUBSET Fetchers]
    /\ fetch \in [Fetchers -> Fetch]
    /\ fetches \in 0..MaxFetches
    /\ troubles \in 0..CacheFaults

Idle(u) == [at |-> "idle", uri |-> u, seen |-> {}, total |-> 0, raced |-> FALSE,
            answer |-> "none"]

CacheInit ==
    /\ objects = Uris
    /\ files = [u \in Uris |-> {}]
    /\ parts = [n \in Names |-> {}]
    /\ uriLock = [l \in Processes \X Uris |-> {}]
    /\ fetch = [t \in Fetchers |-> Idle(CHOOSE u \in Uris : TRUE)]
    /\ fetches = 0
    /\ troubles = 0

Trouble == troubles < CacheFaults /\ troubles' = troubles + 1

-----------------------------------------------------------------------------

Blocks(u) == 1..Size[u]
InCache(u) == files[u] # {}
LockOf(t) == <<ProcessOf[t], fetch[t].uri>>
Total(us) == Cardinality(UNION {{u} \X files[u] : u \in us})   \* bytes of all of them

Step(t, at) == fetch' = [fetch EXCEPT ![t].at = at]
Answer(t, a) == fetch' = [fetch EXCEPT ![t].at = "idle", ![t].answer = a]

\* Mutant of Release: an exception leaves the lock behind.
ReleaseOnReturn(t) ==
    IF fetch[t].at = "download" THEN UNCHANGED uriLock
    ELSE uriLock' = [uriLock EXCEPT ![LockOf(t)] = @ \ {t}]

Release(t) == uriLock' = [uriLock EXCEPT ![LockOf(t)] = @ \ {t}]

\* resolve_reference_uri(u).
Call(t) ==
    /\ fetch[t].at = "idle"
    /\ fetches < MaxFetches
    /\ fetches' = fetches + 1
    /\ \E u \in Uris : fetch' = [fetch EXCEPT ![t] = [Idle(u) EXCEPT !.at = "fast"]]
    /\ UNCHANGED <<objects, files, parts, uriLock, troubles>>

\* is_file() without the lock ...
FastPath(t) ==
    /\ fetch[t].at = "fast"
    /\ Step(t, IF InCache(fetch[t].uri) THEN "stat" ELSE "lock")
    /\ UNCHANGED <<objects, files, parts, uriLock, fetches, troubles>>

\* ... and stat() after it: FileNotFoundError when the file was evicted between.
Stat(t) ==
    /\ fetch[t].at = "stat"
    /\ IF InCache(fetch[t].uri) THEN Step(t, "resolve") ELSE Answer(t, "missing")
    /\ UNCHANGED <<objects, files, parts, uriLock, fetches, troubles>>

TakeLock(t) ==
    /\ fetch[t].at = "lock"
    /\ uriLock[LockOf(t)] = {}
    /\ uriLock' = [uriLock EXCEPT ![LockOf(t)] = {t}]
    /\ Step(t, "recheck")
    /\ UNCHANGED <<objects, files, parts, fetches, troubles>>

\* Under the lock the file is looked for again; on a miss the .part is opened.
Recheck(t) ==
    /\ fetch[t].at = "recheck"
    /\ Step(t, IF InCache(fetch[t].uri) THEN "restat" ELSE "download")
    /\ parts' = IF InCache(fetch[t].uri) THEN parts ELSE [parts EXCEPT ![tmp_name(t)] = {}]
    /\ UNCHANGED <<objects, files, uriLock, fetches, troubles>>

Restat(t) ==
    /\ fetch[t].at = "restat"
    /\ Release(t)
    /\ IF InCache(fetch[t].uri) THEN Step(t, "resolve") ELSE Answer(t, "missing")
    /\ UNCHANGED <<objects, files, parts, fetches, troubles>>

\* download_file: the next block, and after the last one the file is closed.
Download(t) ==
    /\ fetch[t].at = "download"
    /\ fetch[t].uri \in objects
    /\ LET n == fetch[t].total + 1 IN
          /\ parts' = [parts EXCEPT ![tmp_name(t)] = @ \cup {n}]
          /\ fetch' = [fetch EXCEPT ![t].total = n,
                                    ![t].at = IF n = Size[fetch[t].uri] THEN "replace" ELSE @]
    /\ UNCHANGED <<objects, files, uriLock, fetches, troubles>>

\* It raises: the .part is removed and the lock is released.  A ClientError (an
\* object that is gone) is not a FileNotFoundError.
DownloadFails(t) ==
    /\ fetch[t].at = "download"
    /\ IF fetch[t].uri \in objects THEN Trouble ELSE UNCHANGED troubles
    /\ parts' = [parts EXCEPT ![tmp_name(t)] = {}]
    /\ Release(t)
    /\ Answer(t, "error")
    /\ UNCHANGED <<objects, files, fetches>>

\* os.replace(tmp, local).
Replace(t) ==
    /\ fetch[t].at = "replace"
    /\ files' = [files EXCEPT ![fetch[t].uri] = parts[tmp_name(t)]]
    /\ parts' = [parts EXCEPT ![tmp_name(t)] = {}]
    /\ Step(t, "scan")
    /\ UNCHANGED <<objects, uriLock, fetches, troubles>>

\* Mutant of Victims: the file just downloaded is not protected.
VictimsAll(t, us) == us

\* Files that may go: not the one just downloaded.
Victims(t, us) == us \ {fetch[t].uri}

\* Mutant of Enough: the last block over the limit is let pass.
EnoughLoose(total) == total <= CacheMax + 1

Enough(total) == total <= CacheMax

\* The directory is listed; below the limit there is nothing to do.
Scan(t) ==
    /\ fetch[t].at = "scan"
    /\ LET us == {u \in Uris : InCache(u)}
           done == CacheMax = 0 \/ Enough(Total(us)) \/ Victims(t, us) = {} IN
          /\ fetch' = [fetch EXCEPT ![t].at = IF done THEN "resolve" ELSE "evict",
                                    ![t].seen = IF done THEN {} ELSE Victims(t, us),
                                    ![t].total = IF done THEN 0 ELSE Total(us)]
          /\ IF done THEN Release(t) ELSE UNCHANGED uriLock
    /\ UNCHANGED <<objects, files, parts, fetches, troubles>>

\* One file is unlinked; one that is gone already does not lower the count.
Evict(t) ==
    /\ fetch[t].at = "evict"
    /\ \E u \in fetch[t].seen :
          LET seen == fetch[t].seen \ {u}
              total == fetch[t].total - Cardinality(files[u])
              done == Enough(total) \/ seen = {} IN
          /\ files' = [files EXCEPT ![u] = {}]
          /\ fetch' = [x \in Fetchers |->
                IF x = t THEN [fetch[t] EXCEPT !.at = IF done THEN "resolve" ELSE "evict",
                                               !.seen = IF done THEN {} ELSE seen,
                                               !.total = IF done THEN 0 ELSE total]
                ELSE [fetch[x] EXCEPT !.raced = @ \/ (fetch[x].at # "idle" /\ fetch[x].uri = u)]]
          /\ IF done THEN Release(t) ELSE UNCHANGED uriLock
    /\ UNCHANGED <<objects, parts, fetches, troubles>>

\* resolve_reference_uri looks whether the file is there.
Resolve(t) ==
    /\ fetch[t].at = "resolve"
    /\ Answer(t, IF InCache(fetch[t].uri) THEN "ok" ELSE "missing")
    /\ UNCHANGED <<objects, files, parts, uriLock, fetches, troubles>>

FetchStep(t) ==
    \/ FastPath(t) \/ Stat(t) \/ TakeLock(t) \/ Recheck(t) \/ Restat(t) \/ Download(t)
    \/ DownloadFails(t) \/ Replace(t) \/ Scan(t) \/ Evict(t) \/ Resolve(t)

\* R2Storage.delete, called by the purge of a voice: the caches keep their copy.
Delete ==
    /\ Trouble
    /\ \E u \in objects : objects' = objects \ {u}
    /\ UNCHANGED <<files, parts, uriLock, fetch, fetches>>

\* A worker process dies: its locks go with it, its .part files stay for ever
\* under names nobody uses again.
ProcessDies ==
    /\ Trouble
    /\ \E p \in Processes :
          /\ uriLock' = [l \in DOMAIN uriLock |-> IF l[1] = p THEN {} ELSE uriLock[l]]
          /\ fetch' = [t \in Fetchers |-> IF ProcessOf[t] = p THEN Idle(fetch[t].uri) ELSE fetch[t]]
          /\ parts' = [n \in Names |-> IF n \in Fetchers /\ ProcessOf[n] = p THEN {} ELSE parts[n]]
    /\ UNCHANGED <<objects, files, fetches>>

CacheNext ==
    \/ \E t \in Fetchers : Call(t) \/ FetchStep(t)
    \/ Delete
    \/ ProcessDies

CacheSpec ==
    /\ CacheInit
    /\ [][CacheNext]_cacheVars
    /\ \A t \in Fetchers : WF_cacheVars(FetchStep(t))

-----------------------------------------------------------------------------
(* Properties.                                                             *)

\* A file under a name that is_file() looks for is the whole object, whoever
\* else downloads, evicts, fails or dies ("race-safe").
FilesAreWhole == \A u \in Uris : InCache(u) => files[u] = Blocks(u)

\* "per-URI threading.Lock so a second caller for the same URI blocks on the
\* first download": a process never pulls one object twice at a time.
OneDownloadPerProcess ==
    \A s, t \in Fetchers :
        /\ s # t /\ ProcessOf[s] = ProcessOf[t] /\ fetch[s].uri = fetch[t].uri
        /\ fetch[s].at \in {"download", "replace"}
        => fetch[t].at \notin {"download", "replace"}

\* Once nobody is fetching and nobody died between the replacement and the
\* clean-up, the directory is below its limit or holds one oversized file: two
\* clean-ups at once, each from its own listing, do not leave too much.
DirectoryWithinLimit ==
    LET us == {u \in Uris : InCache(u)} IN
    CacheMax > 0 /\ troubles = 0 /\ (\A t \in Fetchers : fetch[t].at = "idle")
        => Total(us) <= CacheMax \/ Cardinality(us) = 1

\* A reference is reported missing, which the worker takes for final, only when
\* somebody else's clean-up removed the file during the call; never on account
\* of the caller's own clean-up or of a download that failed.
MissingMeansRaced == \A t \in Fetchers : fetch[t].answer = "missing" => fetch[t].raced

\* Every call comes back, whatever the other threads of the process ran into.
EveryFetchEnds == \A t \in Fetchers : fetch[t].at # "idle" ~> fetch[t].at = "idle"

\* A fetch is good, in every state: whole files, one download at a time in a process,
\* and a reference is missing only when it was taken away (download_to_cache).
FetchSound == FilesAreWhole /\ OneDownloadPerProcess /\ MissingMeansRaced

\* The cache directory, in every state: no more bytes than allowed
\* (_enforce_cache_limit).
DirectorySound == CacheTypeOK /\ DirectoryWithinLimit
=============================================================================
