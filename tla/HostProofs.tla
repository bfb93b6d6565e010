----------------------------- MODULE HostProofs -----------------------------
(***************************************************************************)
(* Proofs about what runs on a GPU host: the heartbeats and the admission  *)
(* that reads them (Capacity), the engine of a worker process (Engine) and *)
(* the reference cache of the host's workers (R2Cache).                    *)
(***************************************************************************)
EXTENDS Engine, R2Cache, Capacity, FiniteSetTheorems, SequenceTheorems,
        WellFoundedInduction, TLAPS

-----------------------------------------------------------------------------
(* The least of a set of numbers.                                          *)

\* An order on the natural numbers that is well founded, for WFMin.
LEMMA NatOrder ==
    \E R : IsWellFoundedOn(R, Nat) /\ \A x, y \in Nat : x < y => <<x, y>> \in R
<1> DEFINE R == OpToRel(<, Nat)
<1>1. IsWellFoundedOn(R, Nat)
    BY NatLessThanWellFounded
<1>2. \A x, y \in Nat : x < y => <<x, y>> \in R
    BY DEF OpToRel
<1> QED BY <1>1, <1>2, Zenon

\* A set of natural numbers has a least member.
LEMMA LeastNat ==
    ASSUME NEW S, S \subseteq Nat, S # {}
    PROVE  \E x \in S : \A y \in S : x <= y
<1>1. PICK R : IsWellFoundedOn(R, Nat) /\ \A x, y \in Nat : x < y => <<x, y>> \in R
    BY NatOrder
<1>2. IsWellFoundedOn(R, Nat)
    BY <1>1
<1>3. \E x \in S : \A y \in S : ~(<<y, x>> \in R)
    BY <1>2, WFMin
<1>4. PICK x \in S : \A y \in S : ~(<<y, x>> \in R)
    BY <1>3
<1>5. \A y \in S : ~(y < x)
    BY <1>1, <1>4
<1> QED BY <1>5

\* A finite set of integers has a least member: a smallest counterexample would leave a
\* smaller one.
LEMMA LeastInt ==
    ASSUME NEW S, S \subseteq Int, S # {}, IsFiniteSet(S)
    PROVE  \E x \in S : \A y \in S : x <= y
<1> DEFINE HasLeast(T) == \E x \in T : \A y \in T : x <= y
           Bad(T) == T \subseteq Int /\ T # {} /\ IsFiniteSet(T) /\ ~HasLeast(T)
           Sizes == {n \in Nat : \E T : Bad(T) /\ Cardinality(T) = n}
<1>1. SUFFICES ASSUME Bad(S) PROVE FALSE
    OBVIOUS
<1>2. Cardinality(S) \in Nat
    BY FS_CardinalityType
<1>3. Sizes # {} /\ Sizes \subseteq Nat
    BY <1>1, <1>2
<1>4. PICK n \in Sizes : \A m \in Sizes : n <= m
  <2> HIDE DEF Sizes
  <2> QED BY <1>3, LeastNat
<1>5. PICK T : Bad(T) /\ Cardinality(T) = n
    BY <1>4
<1>6. PICK x \in T : TRUE
    BY <1>5
<1> DEFINE U == T \ {x}
<1>7. IsFiniteSet(U) /\ Cardinality(U) = n - 1 /\ Cardinality(U) \in Nat
    BY <1>5, <1>6, FS_RemoveElement, FS_CardinalityType
<1>8. ~Bad(U)
  <2>1. Bad(U) => n - 1 \in Sizes
    BY <1>7
  <2>2. n - 1 \notin Sizes
    BY <1>4
  <2> QED BY <2>1, <2>2
<1>9. CASE U = {}
  <2>1. T = {x} /\ x \in Int
    BY <1>5, <1>6, <1>9
  <2> QED BY <1>5, <2>1
<1>10. CASE U # {}
  <2>1. HasLeast(U)
    BY <1>5, <1>7, <1>8, <1>10
  <2>2. PICK u \in U : \A y \in U : u <= y
    BY <2>1
  <2>3. x \in Int /\ u \in Int /\ u \in T /\ T \subseteq Int /\ \A y \in T : y = x \/ y \in U
    BY <1>5, <1>6, <2>2
  <2>4. HasLeast(T)
    <3>1. CASE x <= u
      BY <1>6, <2>2, <2>3, <3>1
    <3>2. CASE ~(x <= u)
      BY <1>6, <2>2, <2>3, <3>2
    <3> QED BY <3>1, <3>2
  <2> QED BY <1>5, <2>4
<1> QED BY <1>9, <1>10

-----------------------------------------------------------------------------
(* Heartbeats and backpressure.                                            *)

\* The bound on ages is beyond the threshold, by whatever clock.
LEMMA MaxAgeForm ==
    MaxAge \in Nat /\ MaxAge > 0 /\ \A s \in Skews : MaxAge + s > StaleAfter
<1> DEFINE S == {1} \cup {-s : s \in Skews}
<1>1. Skews \subseteq Int /\ IsFiniteSet(Skews) /\ StaleAfter \in Nat \ {0}
    BY CapacityAssumption
<1>2. S \subseteq Int
    BY <1>1
<1>3. \E x \in S : \A y \in S : x >= y
  <2>1. CASE Skews = {}
    BY <2>1
  <2>2. CASE Skews # {}
    <3>1. PICK m \in Skews : \A s \in Skews : m <= s
      BY <1>1, <2>2, LeastInt
    <3>2. m \in Int /\ \A s \in Skews : -m >= -s
      BY <1>1, <3>1
    <3>3. CASE -m >= 1
      BY <3>2, <3>3
    <3>4. CASE ~(-m >= 1)
      <4>1. \A s \in Skews : 1 >= -s
        BY <1>1, <3>2, <3>4
      <4> QED BY <4>1
    <3> QED BY <3>3, <3>4
  <2> QED BY <2>1, <2>2
<1>4. Max(S) \in S /\ \A y \in S : Max(S) >= y
  <2> HIDE DEF S
  <2> QED BY <1>3 DEF Max
<1>5. Max(S) \in Int /\ Max(S) >= 1 /\ \A s \in Skews : Max(S) >= -s
    BY <1>2, <1>4
<1>6. MaxAge = StaleAfter + Max(S) + 1
    BY DEF MaxAge
<1> HIDE DEF S
<1> QED BY <1>1, <1>5, <1>6

\* A number that counts up to MaxAge.
LEMMA OlderForm ==
    ASSUME NEW a \in 0..MaxAge
    PROVE  Older(a) \in 0..MaxAge /\ Older(a) = IF a < MaxAge THEN a + 1 ELSE MaxAge
<1>1. MaxAge \in Nat
    BY MaxAgeForm
<1>2. \E x \in {a + 1, MaxAge} : \A y \in {a + 1, MaxAge} : x <= y
    BY <1>1
<1>3. Min({a + 1, MaxAge}) \in {a + 1, MaxAge}
      /\ \A y \in {a + 1, MaxAge} : Min({a + 1, MaxAge}) <= y
    BY <1>2 DEF Min
<1> QED BY <1>1, <1>3 DEF Older

\* The count of jobs in flight does not go below zero.
LEMMA CountForm ==
    ASSUME NEW n \in Nat
    PROVE  Max({0, n - 1}) \in Nat
<1>1. \E x \in {0, n - 1} : \A y \in {0, n - 1} : x >= y
    OBVIOUS
<1>2. Max({0, n - 1}) \in {0, n - 1} /\ \A y \in {0, n - 1} : Max({0, n - 1}) >= y
    BY <1>1 DEF Max
<1> QED BY <1>2

\* Beats in a row that fail, if the one that is due fails too.
Failing(p) == p.missed + (IF p.beat = "sleep" THEN 0 ELSE 1)

\* What a worker process p knows of its key k: the key is not younger than the process has
\* been gone, and while the process is up it is there and fresh, as far as the beats it missed
\* leave room for.
BeatOK(p, k) ==
    /\ p.state \in {"up", "stopping"} => p.gone = 0
    /\ k.set => p.gone <= k.age
    /\ k.ttl > 0
    /\ p.state = "up" =>
          /\ p.beat # "over"
          /\ p.beat = "pexpire" => k.set /\ k.age = 0
          /\ Failing(p) < BeatTtl /\ Failing(p) < MaxAge =>
                k.set /\ k.age <= Failing(p) /\ k.ttl >= BeatTtl - Failing(p)

\* The requests that go on to submit, or will.
Pending == {h \in Handlers : \/ caller[h].at = "submit"
                             \/ caller[h].at = "decide" /\ caller[h].depth <= QueueLimit}

CapacityInv ==
    /\ CapacityTypeOK
    /\ \A w \in Workers : BeatOK(worker[w], beatKey[w])
    /\ backlog_depth + Cardinality(Pending) <= QueueLimit + Cardinality(Handlers)

WorkersTypeOK == beatKey \in [Workers -> Beat] /\ worker \in [Workers -> Process]

WorkersOK == WorkersTypeOK /\ \A w \in Workers : BeatOK(worker[w], beatKey[w])

\* A step of worker w that leaves its process in state p and its key in state k.
LEMMA ProcessForm ==
    ASSUME WorkersOK, NEW w \in Workers, NEW p \in Process, NEW k \in Beat, BeatOK(p, k),
           worker' = [worker EXCEPT ![w] = p], beatKey' = [beatKey EXCEPT ![w] = k]
    PROVE  WorkersOK'
<1>1. worker' \in [Workers -> Process] /\ beatKey' \in [Workers -> Beat]
    BY DEF WorkersOK, WorkersTypeOK
<1>2. \A v \in Workers : /\ worker'[v] = IF v = w THEN p ELSE worker[v]
                         /\ beatKey'[v] = IF v = w THEN k ELSE beatKey[v]
    BY DEF WorkersOK, WorkersTypeOK
<1> QED BY <1>1, <1>2 DEF WorkersOK, WorkersTypeOK

\* A process that has just started or ended.
Starting(p) ==
    /\ p \in Process /\ p.gone = 0 /\ p.missed = MaxAge /\ p.busy = "no"
    /\ p.state = "up" => p.beat = "due"

\* The states that processes and keys start from.
LEMMA BeatForms ==
    /\ NoBeat \in Beat /\ ~NoBeat.set /\ NoBeat.age = 0 /\ NoBeat.ttl > 0
    /\ Off \in Process /\ Starting([Off EXCEPT !.gone = 0])
    /\ Starting([Off EXCEPT !.state = "dead", !.gone = 0])
    /\ Starting([Off EXCEPT !.state = "up", !.beat = "due", !.gone = 0])
<1>1. MaxAge \in Nat /\ BeatTtl \in Nat
    BY MaxAgeForm, CapacityAssumption
<1>2. NoBeat \in Beat /\ ~NoBeat.set /\ NoBeat.age = 0 /\ NoBeat.ttl > 0
    BY <1>1 DEF NoBeat, NoTtl, Beat
<1>3. MaxAge \in 0..MaxAge
    BY <1>1
<1>4. Off \in Process /\ Off.state = "off" /\ Off.missed = MaxAge /\ Off.busy = "no"
    BY <1>3 DEF Off, Process
<1> DEFINE dead == [Off EXCEPT !.state = "dead"]
           up == [Off EXCEPT !.state = "up"]
           due == [up EXCEPT !.beat = "due"]
<1>5. Starting([Off EXCEPT !.gone = 0])
    BY <1>1, <1>4 DEF Process, Starting
<1>6. Starting([dead EXCEPT !.gone = 0])
  <2>1. /\ dead \in Process /\ dead.state = "dead" /\ dead.missed = MaxAge
        /\ dead.busy = "no"
    BY <1>4 DEF Process
  <2> HIDE DEF dead
  <2> QED BY <1>1, <2>1 DEF Process, Starting
<1>7. Starting([due EXCEPT !.gone = 0])
  <2>1. up \in Process /\ up.missed = MaxAge /\ up.busy = "no"
    BY <1>4 DEF Process
  <2>2. due \in Process /\ due.missed = MaxAge /\ due.beat = "due" /\ due.busy = "no"
    <3> HIDE DEF up
    <3> QED BY <2>1 DEF Process
  <2> HIDE DEF due
  <2> QED BY <1>1, <2>2 DEF Process, Starting
<1> QED BY <1>2, <1>4, <1>5, <1>6, <1>7

\* A process that starts or ends.
LEMMA ProcessChanges ==
    ASSUME WorkersOK, NEW w \in Workers,
           Boot(w) \/ Exit(w) \/ Crash(w)
    PROVE  WorkersOK'
<1>0. /\ worker \in [Workers -> Process] /\ beatKey \in [Workers -> Beat]
      /\ beatKey[w] \in Beat /\ BeatOK(worker[w], beatKey[w])
      /\ MaxAge \in Nat
    BY MaxAgeForm DEF WorkersOK, WorkersTypeOK
<1>1. beatKey' = [beatKey EXCEPT ![w] = beatKey[w]]
  <2>1. beatKey' = beatKey
    BY Zenon DEF Boot, Exit, Crash
  <2> QED BY <1>0, <2>1
<1>2. \E p : Starting(p) /\ worker' = [worker EXCEPT ![w] = p]
  <2> DEFINE up == [Off EXCEPT !.state = "up", !.beat = "due", !.gone = 0]
             off == [Off EXCEPT !.gone = 0]
             dead == [Off EXCEPT !.state = "dead", !.gone = 0]
  <2>1. Starting(up)
    BY BeatForms
  <2>2. Starting(off)
    BY BeatForms
  <2>3. Starting(dead)
    BY BeatForms
  <2>4. \/ worker' = [worker EXCEPT ![w] = up]
        \/ worker' = [worker EXCEPT ![w] = off]
        \/ worker' = [worker EXCEPT ![w] = dead]
    BY Zenon DEF Boot, Exit, Crash
  <2> HIDE DEF up, off, dead
  <2> QED BY <2>1, <2>2, <2>3, <2>4, Zenon
<1>3. PICK p : Starting(p) /\ worker' = [worker EXCEPT ![w] = p]
    BY <1>2
<1>5. beatKey[w].age \in Nat
    BY <1>0 DEF Beat
<1>6. BeatOK(p, beatKey[w])
    BY <1>0, <1>3, <1>5 DEF BeatOK, Failing, Starting
<1> QED BY <1>0, <1>1, <1>3, <1>6, ProcessForm DEF Starting

\* A job that comes or goes is nothing to the heartbeat.
LEMMA BusyChanges ==
    ASSUME WorkersOK, NEW w \in Workers,
           Pickup(w) \/ Sweep(w) \/ JobOver(w)
    PROVE  WorkersOK'
<1>0. /\ worker \in [Workers -> Process] /\ beatKey \in [Workers -> Beat]
      /\ worker[w] \in Process /\ beatKey[w] \in Beat /\ BeatOK(worker[w], beatKey[w])
      /\ worker[w].in_flight \in Nat
    BY DEF WorkersOK, WorkersTypeOK, Process
<1>1. beatKey' = [beatKey EXCEPT ![w] = beatKey[w]]
  <2>1. beatKey' = beatKey
    BY Zenon DEF Pickup, Sweep, JobOver
  <2> QED BY <1>0, <2>1
<1>2. \E b \in {"no", "tick", "sweep"}, n \in Nat :
         worker' = [worker EXCEPT ![w] = [worker[w] EXCEPT !.busy = b, !.in_flight = n]]
  <2> DEFINE Work(b, n) == [worker[w] EXCEPT !.busy = b, !.in_flight = n]
  <2>1. CASE Pickup(w)
    <3>1. worker' = [worker EXCEPT ![w] = Work("tick", worker[w].in_flight + 1)]
      BY <1>0, <2>1 DEF Pickup
    <3>2. worker[w].in_flight + 1 \in Nat
      BY <1>0
    <3> QED BY <3>1, <3>2, Zenon
  <2>2. CASE Sweep(w)
    <3> DEFINE p == [worker[w] EXCEPT !.busy = "sweep"]
               q == [worker[w] EXCEPT !.busy = "sweep", !.in_flight = worker[w].in_flight]
    <3>1. p = q
      BY <1>0 DEF Process
    <3>2. worker' = [worker EXCEPT ![w] = p]
      BY <1>0, <2>2 DEF Sweep
    <3> QED BY <1>0, <3>1, <3>2, Zenon
  <2>3. CASE JobOver(w)
    <3>1. (IF worker[w].busy = "tick" THEN Max({0, worker[w].in_flight - 1})
           ELSE worker[w].in_flight) \in Nat
      BY <1>0, CountForm
    <3>2. CountDown(w, TRUE) \/ CountDown(w, FALSE)
      BY <2>3 DEF JobOver
    <3>3. worker' = [worker EXCEPT ![w] = Work("no",
             IF worker[w].busy = "tick" THEN Max({0, worker[w].in_flight - 1})
             ELSE worker[w].in_flight)]
      BY <1>0, <3>2 DEF CountDown
    <3> QED BY <3>1, <3>3, Zenon
  <2> QED BY <2>1, <2>2, <2>3
<1>3. PICK b \in {"no", "tick", "sweep"}, n \in Nat :
         worker' = [worker EXCEPT ![w] = [worker[w] EXCEPT !.busy = b, !.in_flight = n]]
    BY <1>2, Zenon
<1> DEFINE p == [worker[w] EXCEPT !.busy = b, !.in_flight = n]
<1>4. /\ p \in Process /\ p.state = worker[w].state /\ p.beat = worker[w].beat
      /\ p.gone = worker[w].gone /\ p.missed = worker[w].missed
    BY <1>0 DEF Process
<1>5. worker' = [worker EXCEPT ![w] = p]
    BY <1>0, <1>3
<1> HIDE DEF p
<1>6. BeatOK(p, beatKey[w])
    BY <1>0, <1>4 DEF BeatOK, Failing
<1> QED BY <1>0, <1>1, <1>4, <1>5, <1>6, ProcessForm

\* A process whose beat failed, and one whose beat was written; a key that was written.
Sleeps(p, m) == [p EXCEPT !.beat = "sleep", !.missed = m]
AfterMiss(p) == Sleeps(p, Older(p.missed))
AfterBeat(p) == Sleeps(p, 0)
Written(k, n) == [k EXCEPT !.set = TRUE, !.age = 0, !.in_flight = n]

\* What a beat, sent or missed, leaves of the process and of its hash.
LEMMA BeatEdits ==
    ASSUME NEW p \in Process, NEW k \in Beat, NEW n \in Nat
    PROVE  /\ AfterMiss(p) \in Process /\ AfterMiss(p).beat = "sleep"
           /\ AfterMiss(p).state = p.state /\ AfterMiss(p).gone = p.gone
           /\ AfterMiss(p).missed = IF p.missed < MaxAge THEN p.missed + 1 ELSE MaxAge
           /\ AfterBeat(p) \in Process /\ AfterBeat(p).beat = "sleep"
           /\ AfterBeat(p).state = p.state /\ AfterBeat(p).gone = p.gone
           /\ AfterBeat(p).missed = 0
           /\ Written(k, n) \in Beat /\ Written(k, n).set /\ Written(k, n).age = 0
           /\ Written(k, n).ttl = k.ttl
<1>0. MaxAge \in Nat
    BY MaxAgeForm
<1>1. p.missed \in 0..MaxAge
    BY DEF Process
<1>2. Older(p.missed) \in 0..MaxAge
      /\ Older(p.missed) = IF p.missed < MaxAge THEN p.missed + 1 ELSE MaxAge
    BY <1>1, OlderForm
<1>3. ASSUME NEW m \in 0..MaxAge
      PROVE  /\ Sleeps(p, m) \in Process /\ Sleeps(p, m).beat = "sleep"
             /\ Sleeps(p, m).state = p.state /\ Sleeps(p, m).gone = p.gone
             /\ Sleeps(p, m).missed = m
  <2> DEFINE q0 == [p EXCEPT !.beat = "sleep"]
  <2>1. /\ q0 \in Process /\ q0.beat = "sleep" /\ q0.state = p.state /\ q0.gone = p.gone
    BY DEF Process
  <2> HIDE DEF q0
  <2>2. LET q == [q0 EXCEPT !.missed = m] IN
        /\ q \in Process /\ q.beat = "sleep" /\ q.state = p.state /\ q.gone = p.gone
        /\ q.missed = m
    BY <2>1 DEF Process
  <2> QED BY <2>2 DEF q0, Sleeps
<1>4. /\ AfterMiss(p) \in Process /\ AfterMiss(p).beat = "sleep"
      /\ AfterMiss(p).state = p.state /\ AfterMiss(p).gone = p.gone
      /\ AfterMiss(p).missed = Older(p.missed)
    BY <1>2, <1>3 DEF AfterMiss
<1>5. /\ AfterBeat(p) \in Process /\ AfterBeat(p).beat = "sleep"
      /\ AfterBeat(p).state = p.state /\ AfterBeat(p).gone = p.gone
      /\ AfterBeat(p).missed = 0
    BY <1>0, <1>3 DEF AfterBeat
<1>6. /\ Written(k, n) \in Beat /\ Written(k, n).set /\ Written(k, n).age = 0
      /\ Written(k, n).ttl = k.ttl
  <2> DEFINE k0 == [k EXCEPT !.set = TRUE]
             k1 == [k0 EXCEPT !.age = 0]
  <2>1. k0 \in Beat /\ k0.set /\ k0.ttl = k.ttl
    BY DEF Beat
  <2>2. k1 \in Beat /\ k1.set /\ k1.ttl = k.ttl /\ k1.age = 0
    <3> HIDE DEF k0
    <3> QED BY <1>0, <2>1 DEF Beat
  <2> HIDE DEF k1
  <2>3. LET k2 == [k1 EXCEPT !.in_flight = n] IN
        k2 \in Beat /\ k2.set /\ k2.age = 0 /\ k2.ttl = k.ttl
    BY <2>2 DEF Beat
  <2> QED BY <2>3 DEF k1, Written
<1> QED BY <1>2, <1>4, <1>5, <1>6

\* Hset, Pexpire: _write_once, whose failure the loop swallows.
LEMMA BeatMisses ==
    ASSUME NEW p \in Process, NEW k \in Beat, BeatOK(p, k), p.beat \in {"due", "pexpire"}
    PROVE  BeatOK(AfterMiss(p), k)
<1> DEFINE q == AfterMiss(p)
<1>1. /\ q.beat = "sleep" /\ q.state = p.state /\ q.gone = p.gone
      /\ q.missed = IF p.missed < MaxAge THEN p.missed + 1 ELSE MaxAge
    BY BeatEdits
<1>2. p.missed \in 0..MaxAge /\ MaxAge \in Nat /\ BeatTtl \in Nat
    BY MaxAgeForm, CapacityAssumption DEF Process
<1> HIDE DEF q
<1>3. q.state = "up" => q.beat # "over" /\ q.beat # "pexpire"
    BY <1>1
<1>4. Failing(q) < MaxAge => Failing(q) = Failing(p)
    BY <1>1, <1>2 DEF Failing
<1>5. BeatOK(q, k)
    BY <1>1, <1>3, <1>4 DEF BeatOK
<1> QED BY <1>5 DEF q

\* The heartbeat task.
LEMMA HeartbeatChanges ==
    ASSUME WorkersOK, NEW w \in Workers, Heartbeat(w) \/ Stop(w)
    PROVE  WorkersOK'
<1> DEFINE p == worker[w]
           k == beatKey[w]
<1>0. /\ worker \in [Workers -> Process] /\ beatKey \in [Workers -> Beat]
      /\ p \in Process /\ k \in Beat /\ BeatOK(p, k) /\ p.in_flight \in Nat
      /\ p.missed \in 0..MaxAge /\ p.gone \in 0..MaxAge /\ k.age \in 0..MaxAge
      /\ k.ttl \in 0..NoTtl /\ k.set \in BOOLEAN
      /\ worker = [worker EXCEPT ![w] = p] /\ beatKey = [beatKey EXCEPT ![w] = k]
    BY DEF WorkersOK, WorkersTypeOK, Process, Beat
<1>1. MaxAge \in Nat /\ BeatTtl \in Nat \ {0}
    BY MaxAgeForm, CapacityAssumption
<1>2. ASSUME Missed(w), UNCHANGED beatKey, p.beat \in {"due", "pexpire"} PROVE WorkersOK'
  <2>1. worker' = [worker EXCEPT ![w] = AfterMiss(p)]
    BY <1>0, <1>2 DEF Missed, AfterMiss, Sleeps
  <2>2. AfterMiss(p) \in Process /\ BeatOK(AfterMiss(p), k)
    BY <1>0, <1>2, BeatMisses, BeatEdits
  <2>3. beatKey' = [beatKey EXCEPT ![w] = k]
    BY <1>0, <1>2
  <2> QED BY <1>0, <2>1, <2>2, <2>3, ProcessForm
<1>3. CASE Hset(w) /\ ~(Missed(w) /\ UNCHANGED beatKey)
  <2> DEFINE q == [p EXCEPT !.beat = "pexpire"]
             new == Written(k, p.in_flight)
  <2>1. /\ worker' = [worker EXCEPT ![w] = q] /\ beatKey' = [beatKey EXCEPT ![w] = new]
        /\ p.state = "up" /\ p.beat = "due"
    BY <1>0, <1>3 DEF Hset, Written
  <2>2. q \in Process /\ q.state = p.state /\ q.gone = p.gone /\ q.missed = p.missed
        /\ q.beat = "pexpire"
    <3>1. p \in Process
      BY <1>0
    <3> QED BY <3>1 DEF Process
  <2>3. new \in Beat /\ new.set /\ new.age = 0 /\ new.ttl = k.ttl
    <3>1. p \in Process /\ k \in Beat /\ p.in_flight \in Nat
      BY <1>0
    <3> HIDE DEF p, k
    <3> QED BY <3>1, BeatEdits, Zenon
  <2> HIDE DEF q, new
  <2>4. Failing(q) = Failing(p) /\ Failing(q) \in Nat
    BY <1>0, <1>1, <2>1, <2>2 DEF Failing
  <2>5. BeatOK(q, new)
    BY <1>0, <2>1, <2>2, <2>3, <2>4 DEF BeatOK
  <2> QED BY <1>0, <2>1, <2>2, <2>3, <2>5, ProcessForm
<1>4. CASE Pexpire(w) /\ ~(Missed(w) /\ UNCHANGED beatKey)
  <2> DEFINE q == AfterBeat(p)
             n == IF k.set THEN BeatTtl ELSE k.ttl
             new == [k EXCEPT !.ttl = n]
  <2>1. /\ worker' = [worker EXCEPT ![w] = q] /\ beatKey' = [beatKey EXCEPT ![w] = new]
        /\ p.beat = "pexpire"
    BY <1>0, <1>4 DEF Pexpire, AfterBeat, Sleeps
  <2>2. q \in Process /\ q.state = p.state /\ q.gone = p.gone /\ q.missed = 0
        /\ q.beat = "sleep"
    BY <1>0, BeatEdits
  <2>3. n \in 0..NoTtl
    BY <1>0, <1>1 DEF NoTtl
  <2> HIDE DEF n
  <2>4. new \in Beat /\ new.set = k.set /\ new.age = k.age /\ new.ttl = n
    BY <1>0, <2>3 DEF Beat
  <2> HIDE DEF q, new
  <2>5. Failing(q) = 0
    BY <2>2 DEF Failing
  <2>6. BeatOK(q, new)
    BY <1>0, <1>1, <2>1, <2>2, <2>4, <2>5 DEF BeatOK, n
  <2> QED BY <1>0, <2>1, <2>2, <2>4, <2>6, ProcessForm
<1>5. CASE BeatStops(w)
  <2> DEFINE q == [p EXCEPT !.beat = "over"]
  <2>1. /\ worker' = [worker EXCEPT ![w] = q] /\ p.state = "stopping"
        /\ beatKey' = [beatKey EXCEPT ![w] = NoBeat] \/ beatKey' = beatKey
    BY <1>0, <1>5 DEF BeatStops
  <2>2. q \in Process /\ q.state = "stopping" /\ q.gone = p.gone
    BY <1>0, <2>1 DEF Process
  <2> HIDE DEF q
  <2>3. BeatOK(q, k) /\ BeatOK(q, NoBeat)
    BY <1>0, <2>1, <2>2, BeatForms DEF BeatOK
  <2> QED BY <1>0, <2>1, <2>2, <2>3, BeatForms, ProcessForm
<1>6. CASE Stop(w)
  <2> DEFINE q == [p EXCEPT !.state = "stopping"]
  <2>1. worker' = [worker EXCEPT ![w] = q] /\ p.state = "up" /\ beatKey' = beatKey
    BY <1>0, <1>6 DEF Stop
  <2>2. q \in Process /\ q.state = "stopping" /\ q.gone = p.gone
    BY <1>0 DEF Process
  <2> HIDE DEF q
  <2>3. BeatOK(q, k)
    BY <1>0, <2>1, <2>2 DEF BeatOK
  <2> QED BY <1>0, <2>1, <2>2, <2>3, ProcessForm
<1>7. Missed(w) /\ (Hset(w) \/ Pexpire(w)) => p.beat \in {"due", "pexpire"}
    BY DEF Hset, Pexpire
<1> QED BY <1>2, <1>3, <1>4, <1>5, <1>6, <1>7 DEF Heartbeat

\* A process, an interval later (Tick).
Ticked(p) == [p EXCEPT !.beat = IF p.beat = "sleep" THEN "due" ELSE p.beat,
                       !.gone = IF p.state \in {"up", "stopping"} THEN 0 ELSE Older(p.gone)]

\* An interval that passes keeps a process and its heartbeat in step.
LEMMA TickForm ==
    ASSUME NEW p \in Process, NEW k \in Beat, BeatOK(p, k),
           p.state \in {"up", "stopping"} => p.beat \in {"sleep", "over"}
    PROVE  /\ Ticked(p) \in Process /\ Aged(k) \in Beat /\ BeatOK(Ticked(p), Aged(k))
           /\ Ticked(p).busy = p.busy
<1> DEFINE b == IF p.beat = "sleep" THEN "due" ELSE p.beat
           g == IF p.state \in {"up", "stopping"} THEN 0 ELSE Older(p.gone)
<1>1. /\ p.gone \in 0..MaxAge /\ p.missed \in 0..MaxAge /\ k.age \in 0..MaxAge
      /\ k.ttl \in 0..NoTtl /\ k.set \in BOOLEAN
      /\ MaxAge \in Nat /\ BeatTtl \in Nat \ {0} /\ NoTtl = BeatTtl + 1
    BY MaxAgeForm, CapacityAssumption DEF Process, Beat, NoTtl
<1>2. /\ Older(p.gone) \in 0..MaxAge
      /\ Older(p.gone) = IF p.gone < MaxAge THEN p.gone + 1 ELSE MaxAge
      /\ Older(k.age) \in 0..MaxAge
      /\ Older(k.age) = IF k.age < MaxAge THEN k.age + 1 ELSE MaxAge
    BY <1>1, OlderForm
<1>3. b \in {"due", "pexpire", "sleep", "over"} /\ g \in 0..MaxAge
    BY <1>1, <1>2 DEF Process
<1>4. /\ Ticked(p) \in Process /\ Ticked(p).beat = b /\ Ticked(p).gone = g
      /\ Ticked(p).state = p.state /\ Ticked(p).missed = p.missed
      /\ Ticked(p).busy = p.busy
  <2> HIDE DEF b, g
  <2>1. Ticked(p) = [p EXCEPT !.beat = b, !.gone = g]
    BY DEF Ticked, b, g
  <2> DEFINE p0 == [p EXCEPT !.beat = b]
  <2>2. p0 \in Process /\ p0.beat = b /\ p0.state = p.state /\ p0.missed = p.missed
        /\ p0.busy = p.busy
    BY <1>3 DEF Process
  <2> HIDE DEF p0
  <2>3. LET q == [p0 EXCEPT !.gone = g] IN
        /\ q \in Process /\ q.beat = b /\ q.gone = g /\ q.state = p.state
        /\ q.missed = p.missed /\ q.busy = p.busy
    BY <1>3, <2>2 DEF Process
  <2> QED BY <2>1, <2>3 DEF p0
<1> DEFINE q == Ticked(p)
<1>5. q.state \in {"up", "stopping"} => q.gone = 0
    BY <1>4
<1>7. CASE ~k.set
  <2>1. Aged(k) = k
    BY <1>7 DEF Aged
  <2>2. p.state = "up" => ~(p.missed < BeatTtl /\ p.missed < MaxAge)
    BY <1>1, <1>7 DEF BeatOK, Failing
  <2>3. q.state = "up" => q.beat = "due" /\ Failing(q) = p.missed + 1
    BY <1>1, <1>4 DEF BeatOK, Failing
  <2> HIDE DEF q, b, g
  <2>5. k.ttl > 0
    BY DEF BeatOK
  <2>4. BeatOK(q, k)
    BY <1>1, <1>4, <1>5, <1>7, <2>2, <2>3, <2>5 DEF BeatOK, q
  <2> QED BY <1>4, <2>1, <2>4 DEF q
<1>8. CASE k.set /\ k.ttl = 1
  <2>1. Aged(k) = NoBeat
    BY <1>8 DEF Aged
  <2>2. p.state = "up" =>
          p.beat = "sleep" /\ (p.missed < BeatTtl /\ p.missed < MaxAge => k.ttl >= BeatTtl - p.missed)
    BY <1>1 DEF BeatOK, Failing
  <2>3. q.state = "up" => q.beat = "due" /\ Failing(q) = p.missed + 1
    BY <1>1, <1>4, <2>2 DEF Failing
  <2>4. q.state = "up" => ~(Failing(q) < BeatTtl /\ Failing(q) < MaxAge)
    BY <1>1, <1>4, <1>8, <2>2, <2>3
  <2> HIDE DEF q, b, g
  <2>5. BeatOK(q, NoBeat)
    BY <1>5, <2>3, <2>4, BeatForms DEF BeatOK
  <2> QED BY <1>4, <2>1, <2>5, BeatForms DEF q
<1>9. CASE k.set /\ k.ttl # 1
  <2> DEFINE t == IF k.ttl = NoTtl THEN k.ttl ELSE k.ttl - 1
             old == Older(k.age)
             new == Aged(k)
  <2>1. t \in 0..NoTtl /\ t > 0
    BY <1>1, <1>9 DEF BeatOK
  <2>2. new \in Beat /\ new.set /\ new.age = old /\ new.ttl = t
    <3>1. new = [k EXCEPT !.age = old, !.ttl = t]
      BY <1>9 DEF Aged
    <3> HIDE DEF new, old, t
    <3> DEFINE k0 == [k EXCEPT !.age = old]
    <3>2. k0 \in Beat /\ k0.set /\ k0.age = old
      <4>1. old \in 0..MaxAge
        BY <1>2 DEF old
      <4> QED BY <1>9, <4>1 DEF Beat
    <3> HIDE DEF k0
    <3>3. LET n == [k0 EXCEPT !.ttl = t] IN n \in Beat /\ n.set /\ n.age = old /\ n.ttl = t
      BY <2>1, <3>2 DEF Beat
    <3> QED BY <3>1, <3>3 DEF k0
  <2>3. p.state = "up" =>
          /\ p.beat = "sleep"
          /\ p.missed < BeatTtl /\ p.missed < MaxAge =>
               k.age <= p.missed /\ k.ttl >= BeatTtl - p.missed
    BY <1>1 DEF BeatOK, Failing
  <2>4. q.state = "up" => q.beat = "due" /\ Failing(q) = p.missed + 1
    BY <1>1, <1>4, <2>3 DEF Failing
  <2>5. g <= old
    BY <1>1, <1>2, <1>9 DEF BeatOK
  <2>6. p.state = "up" /\ p.missed + 1 < BeatTtl /\ p.missed + 1 < MaxAge =>
          old <= p.missed + 1 /\ t >= BeatTtl - (p.missed + 1)
    BY <1>1, <1>2, <2>3
  <2> HIDE DEF q, b, g, t, old, new
  <2>7. BeatOK(q, new)
    BY <1>1, <1>4, <1>5, <2>1, <2>2, <2>4, <2>5, <2>6 DEF BeatOK, q
  <2> QED BY <1>4, <2>2, <2>7 DEF q, new
<1> QED BY <1>7, <1>8, <1>9

CountsTypeOK ==
    /\ WorkersTypeOK
    /\ lag \in Nat /\ orphans \in Nat
    /\ caller \in [Handlers -> Caller]

\* The counts are numbers.
LEMMA CountsType ==
    ASSUME CountsTypeOK
    PROVE  /\ IsFiniteSet(Busy) /\ Cardinality(Busy) \in Nat
           /\ IsFiniteSet(Pending) /\ Cardinality(Pending) \in Nat
           /\ Cardinality(Pending) <= Cardinality(Handlers)
           /\ Cardinality(Handlers) \in Nat /\ QueueLimit \in Nat
           /\ backlog_depth \in Nat
<1>1. IsFiniteSet(Workers) /\ IsFiniteSet(Handlers) /\ QueueLimit \in Nat
    BY CapacityAssumption
<1>2. Busy \in SUBSET Workers /\ Pending \in SUBSET Handlers
    BY DEF Busy, Pending
<1>3. IsFiniteSet(Busy) /\ IsFiniteSet(Pending) /\ Cardinality(Pending) <= Cardinality(Handlers)
    BY <1>1, <1>2, FS_Subset
<1>4. /\ Cardinality(Busy) \in Nat /\ Cardinality(Pending) \in Nat
      /\ Cardinality(Handlers) \in Nat
    BY <1>1, <1>3, FS_CardinalityType
<1> QED BY <1>1, <1>3, <1>4 DEF backlog_depth, CountsTypeOK

\* What a step of a worker does to the backlog: an entry that is taken, left or handed over
\* is still one entry.
LEMMA BacklogStep ==
    ASSUME CountsTypeOK, NEW w \in Workers,
           Boot(w) \/ Heartbeat(w) \/ Consumer(w) \/ Stop(w) \/ Crash(w)
    PROVE  /\ lag' \in Nat /\ orphans' \in Nat
           /\ backlog_depth' <= backlog_depth
<1>0. /\ worker \in [Workers -> Process] /\ lag \in Nat /\ orphans \in Nat
      /\ IsFiniteSet(Busy) /\ Cardinality(Busy) \in Nat
    BY CountsType DEF CountsTypeOK, WorkersTypeOK
<1>1. /\ Cardinality(Busy \cup {w}) = IF w \in Busy THEN Cardinality(Busy) ELSE Cardinality(Busy) + 1
      /\ Cardinality(Busy \ {w}) = IF w \in Busy THEN Cardinality(Busy) - 1 ELSE Cardinality(Busy)
    BY <1>0, FS_AddElement, FS_RemoveElement
<1>2. backlog_depth' = Cardinality(Busy') + orphans' + lag'
      /\ backlog_depth = Cardinality(Busy) + orphans + lag
    BY DEF backlog_depth
<1>3. w \in Busy <=> worker[w].busy # "no"
    BY DEF Busy
<1> DEFINE Busied(b) == \E p : worker' = [worker EXCEPT ![w] = p] /\ p.busy = b
<1>4. ASSUME NEW b, Busied(b)
      PROVE  Busy' = IF b = "no" THEN Busy \ {w} ELSE Busy \cup {w}
  <2>1. PICK p : worker' = [worker EXCEPT ![w] = p] /\ p.busy = b
    BY <1>4
  <2>2. \A v \in Workers : worker'[v] = IF v = w THEN p ELSE worker[v]
    BY <1>0, <2>1
  <2> QED BY <2>1, <2>2 DEF Busy
<1>5. CASE Pickup(w) \/ Sweep(w)
  <2>1. Busied("tick") \/ Busied("sweep")
    <3> DEFINE p == [worker[w] EXCEPT !.busy = "tick", !.in_flight = worker[w].in_flight + 1]
               q == [worker[w] EXCEPT !.busy = "sweep"]
    <3>1. worker[w] \in Process
      BY <1>0
    <3>2. p.busy = "tick" /\ q.busy = "sweep"
      BY <3>1 DEF Process
    <3>3. worker' = [worker EXCEPT ![w] = p] \/ worker' = [worker EXCEPT ![w] = q]
      BY <1>0, <1>5 DEF Pickup, Sweep
    <3> QED BY <3>2, <3>3, Zenon
  <2>2. Busy' = Busy \cup {w}
    BY <1>4, <2>1
  <2>3. w \notin Busy
    BY <1>3, <1>5 DEF Pickup, Sweep
  <2>4. lag' \in Nat /\ orphans' \in Nat /\ lag' + orphans' = lag + orphans - 1
    <3>1. Pickup(w) => lag > 0 /\ lag' = lag - 1 /\ orphans' = orphans
      BY Zenon DEF Pickup
    <3>2. Sweep(w) => orphans > 0 /\ orphans' = orphans - 1 /\ lag' = lag
      BY Zenon DEF Sweep
    <3> QED BY <1>0, <1>5, <3>1, <3>2
  <2>5. Cardinality(Busy') = Cardinality(Busy) + 1
    BY <1>1, <2>2, <2>3
  <2>6. Cardinality(Busy) + 1 + orphans' + lag' = Cardinality(Busy) + orphans + lag
    <3>1. CASE Pickup(w)
      <4>1. lag' = lag - 1 /\ orphans' = orphans
        BY <3>1, Zenon DEF Pickup
      <4> QED BY <1>0, <4>1
    <3>2. CASE Sweep(w)
      <4>1. orphans' = orphans - 1 /\ lag' = lag
        BY <3>2, Zenon DEF Sweep
      <4> QED BY <1>0, <4>1
    <3> QED BY <1>5, <3>1, <3>2
  <2>7. backlog_depth' = backlog_depth /\ backlog_depth \in Nat
    <3>1. backlog_depth' = Cardinality(Busy) + 1 + orphans' + lag'
      BY <1>2, <2>5
    <3>2. backlog_depth \in Nat
      BY <1>0, <1>2
    <3> QED BY <1>2, <2>6, <3>1, <3>2
  <2> QED BY <2>4, <2>7
<1>6. CASE JobOver(w)
  <2>1. Busied("no")
    <3> DEFINE n == IF worker[w].busy = "tick" THEN Max({0, worker[w].in_flight - 1})
                    ELSE worker[w].in_flight
               p == [worker[w] EXCEPT !.busy = "no", !.in_flight = n]
    <3>1. worker[w] \in Process
      BY <1>0
    <3>2. p.busy = "no"
      BY <3>1 DEF Process
    <3>3. CountDown(w, TRUE) \/ CountDown(w, FALSE)
      BY <1>6 DEF JobOver
    <3>4. worker' = [worker EXCEPT ![w] = p]
      BY <1>0, <3>3 DEF CountDown
    <3> HIDE DEF p
    <3> QED BY <3>2, <3>4, Zenon
  <2>2. Busy' = Busy \ {w}
    BY <1>4, <2>1
  <2>3. w \in Busy
    BY <1>3, <1>6 DEF JobOver
  <2>4. lag' = lag /\ (orphans' = orphans \/ orphans' = orphans + 1)
    BY <1>6, Zenon DEF JobOver
  <2> QED BY <1>0, <1>1, <1>2, <2>2, <2>3, <2>4
<1>7. CASE Boot(w) \/ Exit(w) \/ Crash(w)
  <2>1. Busied("no")
    <3> DEFINE up == [Off EXCEPT !.state = "up", !.beat = "due", !.gone = 0]
               off == [Off EXCEPT !.gone = 0]
               dead == [Off EXCEPT !.state = "dead", !.gone = 0]
    <3>1. up.busy = "no" /\ off.busy = "no" /\ dead.busy = "no"
      BY BeatForms DEF Starting
    <3>2. \/ worker' = [worker EXCEPT ![w] = up]
          \/ worker' = [worker EXCEPT ![w] = off]
          \/ worker' = [worker EXCEPT ![w] = dead]
      BY <1>7, Zenon DEF Boot, Exit, Crash
    <3> QED BY <3>1, <3>2, Zenon
  <2>2. Busy' = Busy \ {w}
    BY <1>4, <2>1
  <2>3. lag' = lag /\ (orphans' = orphans \/ (w \in Busy /\ orphans' = orphans + 1))
    <3>1. Boot(w) \/ Exit(w) => lag' = lag /\ orphans' = orphans
      BY Zenon DEF Boot, Exit
    <3>2. Crash(w) => /\ lag' = lag
                      /\ orphans' = IF worker[w].busy = "no" THEN orphans ELSE orphans + 1
      BY Zenon DEF Crash
    <3> QED BY <1>3, <1>7, <3>1, <3>2
  <2> QED BY <1>0, <1>1, <1>2, <2>2, <2>3
<1>8. CASE Heartbeat(w) \/ Stop(w)
  <2>1. \A v \in Workers : worker'[v].busy = worker[v].busy
    <3> SUFFICES ASSUME NEW v \in Workers PROVE worker'[v].busy = worker[v].busy
      OBVIOUS
    <3>0. worker[v] \in Process
      BY <1>0
    <3>1. CASE Missed(w)
      BY <1>0, <3>0, <3>1 DEF Missed, Process
    <3>2. CASE worker' = [worker EXCEPT ![w].beat = "pexpire"]
      BY <1>0, <3>0, <3>2 DEF Process
    <3>3. CASE worker' = [worker EXCEPT ![w].beat = "sleep", ![w].missed = 0]
      BY <1>0, <3>0, <3>3 DEF Process
    <3>4. CASE worker' = [worker EXCEPT ![w].beat = "over"]
      BY <1>0, <3>0, <3>4 DEF Process
    <3>5. CASE worker' = [worker EXCEPT ![w].state = "stopping"]
      BY <1>0, <3>0, <3>5 DEF Process
    <3> QED
      BY <1>8, <3>1, <3>2, <3>3, <3>4, <3>5, Zenon DEF Heartbeat, Stop, Hset, Pexpire, BeatStops
  <2>2. Busy' = Busy
    BY <2>1 DEF Busy
  <2>3. lag' = lag /\ orphans' = orphans
    BY <1>8, Zenon DEF Heartbeat, Stop, Hset, Pexpire, BeatStops
  <2> QED BY <1>0, <1>2, <2>2, <2>3
<1> QED BY <1>5, <1>6, <1>7, <1>8 DEF Consumer

\* Gateway steps: a request is pending only on a depth within the limit.
LEMMA CallerStep ==
    ASSUME CountsTypeOK, NEW h \in Handlers,
           backlog_depth + Cardinality(Pending) <= QueueLimit + Cardinality(Handlers),
           ReadDepth(h) \/ Decide(h) \/ Submit(h)
    PROVE  /\ lag' \in Nat /\ caller' \in [Handlers -> Caller]
           /\ UNCHANGED <<orphans, worker, beatKey, skew>>
           /\ backlog_depth' + Cardinality(Pending') <= QueueLimit + Cardinality(Handlers)
<1>0. /\ lag \in Nat /\ orphans \in Nat /\ caller \in [Handlers -> Caller]
      /\ IsFiniteSet(Pending) /\ Cardinality(Pending) \in Nat /\ Cardinality(Busy) \in Nat
      /\ Cardinality(Pending) <= Cardinality(Handlers)
      /\ Cardinality(Handlers) \in Nat /\ QueueLimit \in Nat /\ backlog_depth \in Nat
      /\ IsFiniteSet(Handlers)
    BY CountsType, CapacityAssumption DEF CountsTypeOK
<1>1. UNCHANGED <<orphans, worker, beatKey, skew>>
    BY Zenon DEF ReadDepth, Decide, Submit
<1>2. Busy' = Busy
    BY <1>1 DEF Busy
<1>3. backlog_depth' = Cardinality(Busy) + orphans + lag'
      /\ backlog_depth = Cardinality(Busy) + orphans + lag
    BY <1>1, <1>2 DEF backlog_depth
<1>4. ASSUME NEW c \in Caller, caller' = [caller EXCEPT ![h] = c]
      PROVE  /\ caller' \in [Handlers -> Caller]
             /\ Pending' = IF c.at = "submit" \/ (c.at = "decide" /\ c.depth <= QueueLimit)
                           THEN Pending \cup {h} ELSE Pending \ {h}
             /\ IsFiniteSet(Pending') /\ Cardinality(Pending') \in Nat
             /\ Cardinality(Pending') <= Cardinality(Handlers)
  <2>1. caller' \in [Handlers -> Caller]
    BY <1>0, <1>4
  <2>2. \A g \in Handlers : caller'[g] = IF g = h THEN c ELSE caller[g]
    BY <1>0, <1>4
  <2>3. Pending' = IF c.at = "submit" \/ (c.at = "decide" /\ c.depth <= QueueLimit)
                   THEN Pending \cup {h} ELSE Pending \ {h}
    BY <2>2 DEF Pending
  <2>4. Pending' \in SUBSET Handlers
    BY DEF Pending
  <2>5. IsFiniteSet(Pending') /\ Cardinality(Pending') <= Cardinality(Handlers)
    BY <1>0, <2>4, FS_Subset
  <2>6. Cardinality(Pending') \in Nat
    BY <2>5, FS_CardinalityType
  <2> QED BY <2>1, <2>3, <2>5, <2>6
<1>5. CASE ReadDepth(h)
  <2> DEFINE c == [at |-> "decide", depth |-> backlog_depth]
  <2>1. caller[h].at = "idle" /\ caller' = [caller EXCEPT ![h] = c] /\ lag' = lag
    BY <1>5, Zenon DEF ReadDepth
  <2>2. c \in Caller /\ c.at = "decide" /\ c.depth = backlog_depth
    BY <1>0 DEF Caller
  <2> HIDE DEF c
  <2>3. h \notin Pending
    BY <2>1 DEF Pending
  <2>4. CASE backlog_depth <= QueueLimit
    <3>1. Cardinality(Pending') \in Nat /\ Cardinality(Pending') <= Cardinality(Handlers)
          /\ caller' \in [Handlers -> Caller]
      BY <1>4, <2>1, <2>2
    <3>2. backlog_depth' <= QueueLimit
      BY <1>3, <2>1, <2>4
    <3>3. backlog_depth' \in Nat
      BY <1>0, <1>3, <2>1
    <3> QED BY <1>0, <1>1, <2>1, <3>1, <3>2, <3>3
  <2>5. CASE ~(backlog_depth <= QueueLimit)
    <3>1. Pending' = Pending \ {h} /\ caller' \in [Handlers -> Caller]
      BY <1>4, <2>1, <2>2, <2>5
    <3>2. Pending' = Pending
      BY <2>3, <3>1
    <3> QED BY <1>0, <1>1, <1>3, <2>1, <3>1, <3>2
  <2> QED BY <2>4, <2>5
<1>6. CASE Decide(h)
  <2>1. PICK known \in BOOLEAN : caller' = [caller EXCEPT ![h] =
                 [at |-> IF Admit(caller[h].depth, known) THEN "submit" ELSE "idle",
                  depth |-> 0]]
    BY <1>6, Zenon DEF Decide
  <2> DEFINE at == IF Admit(caller[h].depth, known) THEN "submit" ELSE "idle"
             c == [at |-> at, depth |-> 0]
  <2>2. caller' = [caller EXCEPT ![h] = c] /\ lag' = lag /\ caller[h].at = "decide"
    BY <1>6, <2>1, Zenon DEF Decide
  <2>3. at = "submit" => caller[h].depth <= QueueLimit
    BY DEF Admit
  <2>4. at \in {"submit", "idle"}
    OBVIOUS
  <2> HIDE DEF at
  <2>5. c \in Caller /\ c.at = at
    BY <2>4 DEF Caller
  <2> HIDE DEF c
  <2>6. /\ Pending' = IF at = "submit" THEN Pending \cup {h} ELSE Pending \ {h}
        /\ Cardinality(Pending') \in Nat /\ caller' \in [Handlers -> Caller]
    BY <1>4, <2>2, <2>4, <2>5
  <2>7. at = "submit" => h \in Pending
    BY <2>2, <2>3 DEF Pending
  <2>8. Pending' \in SUBSET Pending
    BY <2>6, <2>7
  <2>9. Cardinality(Pending') <= Cardinality(Pending)
    BY <1>0, <2>8, FS_Subset
  <2> QED BY <1>0, <1>1, <1>3, <2>2, <2>6, <2>9
<1>7. CASE Submit(h)
  <2> DEFINE c == [at |-> "idle", depth |-> 0]
  <2>1. caller[h].at = "submit" /\ caller' = [caller EXCEPT ![h] = c] /\ lag' = lag + 1
    BY <1>7, Zenon DEF Submit
  <2>2. c \in Caller /\ c.at = "idle"
    BY DEF Caller
  <2> HIDE DEF c
  <2>3. Pending' = Pending \ {h} /\ caller' \in [Handlers -> Caller]
    BY <1>4, <2>1, <2>2
  <2>4. h \in Pending
    BY <2>1 DEF Pending
  <2>5. Cardinality(Pending') = Cardinality(Pending) - 1
    BY <1>0, <2>3, <2>4, FS_RemoveElement
  <2> QED BY <1>0, <1>1, <1>3, <2>1, <2>3, <2>5
<1> QED BY <1>5, <1>6, <1>7

\* The invariant is inductive.
LEMMA CapacityInductive ==
    /\ CapacityInit => CapacityInv
    /\ CapacityInv /\ [CapacityNext]_capacityVars => CapacityInv'
<1>1. CapacityInit => CapacityInv
  <2> SUFFICES ASSUME CapacityInit PROVE CapacityInv
    OBVIOUS
  <2>1. WorkersOK
    <3>1. \A w \in Workers : worker[w] = Off /\ beatKey[w] = NoBeat
      BY DEF CapacityInit
    <3>2. Off.state \notin {"up", "stopping"}
      BY DEF Off
    <3>3. BeatOK(Off, NoBeat)
      BY <3>2, BeatForms DEF BeatOK
    <3> QED BY <3>1, <3>3, BeatForms DEF CapacityInit, WorkersOK, WorkersTypeOK
  <2>2. /\ lag \in Nat /\ orphans \in Nat /\ skew \in Skews /\ hitches \in 0..CapacityFaults
        /\ caller \in [Handlers -> Caller]
    BY CapacityAssumption DEF CapacityInit, Caller
  <2>3. CountsTypeOK
    BY <2>1, <2>2 DEF CountsTypeOK, WorkersOK
  <2>4. Busy = {} /\ Pending = {}
    BY DEF CapacityInit, Busy, Pending, Off
  <2>5. backlog_depth = 0 /\ Cardinality(Pending) = 0
    BY <2>4, FS_EmptySet DEF CapacityInit, backlog_depth
  <2>6. backlog_depth + Cardinality(Pending) <= QueueLimit + Cardinality(Handlers)
    BY <2>3, <2>5, CountsType
  <2> QED BY <2>1, <2>2, <2>6 DEF CapacityInv, CapacityTypeOK, WorkersOK, WorkersTypeOK
<1>2. ASSUME CapacityInv, [CapacityNext]_capacityVars PROVE CapacityInv'
  <2>1. /\ WorkersOK /\ CountsTypeOK /\ skew \in Skews /\ hitches \in 0..CapacityFaults
        /\ backlog_depth + Cardinality(Pending) <= QueueLimit + Cardinality(Handlers)
        /\ caller \in [Handlers -> Caller]
    BY <1>2 DEF CapacityInv, CapacityTypeOK, WorkersOK, WorkersTypeOK, CountsTypeOK
  <2>2. hitches' \in 0..CapacityFaults
    <3>1. Hitch \/ hitches' = hitches
      BY <1>2, Zenon
         DEF CapacityNext, capacityVars, Boot, Heartbeat, Hset, Pexpire, BeatStops, Consumer,
             Pickup, Sweep, JobOver, Exit, Stop, Crash, Tick, ReadDepth, Decide, Submit
    <3> QED BY <2>1, <3>1, CapacityAssumption DEF Hitch
  <2>3. skew' = skew
    BY <1>2, Zenon
       DEF CapacityNext, capacityVars, Boot, Heartbeat, Hset, Pexpire, BeatStops, Consumer,
           Pickup, Sweep, JobOver, Exit, Stop, Crash, Tick, ReadDepth, Decide, Submit
  <2> DEFINE Kept ==
          /\ WorkersOK' /\ lag' \in Nat /\ orphans' \in Nat /\ caller' \in [Handlers -> Caller]
          /\ backlog_depth' + Cardinality(Pending') <= QueueLimit + Cardinality(Handlers)
  <2>4. SUFFICES Kept
    BY <2>1, <2>2, <2>3 DEF CapacityInv, CapacityTypeOK, WorkersOK, WorkersTypeOK
  <2>5. ASSUME caller' = caller, lag' \in Nat, orphans' \in Nat, WorkersOK',
               backlog_depth' <= backlog_depth
        PROVE  backlog_depth' + Cardinality(Pending') <= QueueLimit + Cardinality(Handlers)
    <3>1. Pending' = Pending
      BY <2>5 DEF Pending
    <3>2. CountsTypeOK'
      BY <2>1, <2>5 DEF CountsTypeOK, WorkersOK
    <3>3. backlog_depth' \in Nat
      <4>1. Busy' \in SUBSET Workers
        BY DEF Busy
      <4>2. Cardinality(Busy') \in Nat
        BY <4>1, CapacityAssumption, FS_Subset, FS_CardinalityType
      <4>3. backlog_depth' = Cardinality(Busy') + orphans' + lag'
        BY DEF backlog_depth
      <4> QED BY <2>5, <4>2, <4>3
    <3>4. /\ backlog_depth \in Nat /\ Cardinality(Pending) \in Nat
          /\ Cardinality(Handlers) \in Nat /\ QueueLimit \in Nat
      BY <2>1, CountsType
    <3> QED BY <2>1, <2>5, <3>1, <3>3, <3>4
  <2>6. ASSUME NEW w \in Workers,
               Boot(w) \/ Heartbeat(w) \/ Consumer(w) \/ Stop(w) \/ Crash(w)
        PROVE  Kept
    <3>1. lag' \in Nat /\ orphans' \in Nat /\ backlog_depth' <= backlog_depth
      BY <2>1, <2>6, BacklogStep
    <3>2. caller' = caller
      BY <2>6, Zenon
         DEF Boot, Heartbeat, Hset, Pexpire, BeatStops, Consumer, Pickup, Sweep, JobOver, Exit,
             Stop, Crash
    <3>3. WorkersOK'
      BY <2>1, <2>6, ProcessChanges, BusyChanges, HeartbeatChanges DEF Consumer
    <3> QED BY <2>1, <2>5, <3>1, <3>2, <3>3
  <2>7. ASSUME NEW h \in Handlers, ReadDepth(h) \/ Decide(h) \/ Submit(h)
        PROVE  Kept
    <3>1. /\ lag' \in Nat /\ caller' \in [Handlers -> Caller]
          /\ UNCHANGED <<orphans, worker, beatKey, skew>>
          /\ backlog_depth' + Cardinality(Pending') <= QueueLimit + Cardinality(Handlers)
      BY <2>1, <2>7, CallerStep
    <3>2. WorkersOK' /\ orphans' \in Nat
      BY <2>1, <3>1 DEF WorkersOK, WorkersTypeOK, CountsTypeOK
    <3> QED BY <3>1, <3>2
  <2>8. CASE Tick
    <3>1. /\ worker' = [w \in Workers |-> Ticked(worker[w])]
          /\ beatKey' = [w \in Workers |-> Aged(beatKey[w])]
          /\ UNCHANGED <<lag, orphans, caller>>
          /\ \A w \in Workers : Runs(w) => worker[w].beat \in {"sleep", "over"}
      BY <2>8, Zenon DEF Tick, Ticked, Runs
    <3>2. \A w \in Workers : /\ Ticked(worker[w]) \in Process /\ Aged(beatKey[w]) \in Beat
                             /\ BeatOK(Ticked(worker[w]), Aged(beatKey[w]))
                             /\ Ticked(worker[w]).busy = worker[w].busy
      BY <2>1, <3>1, TickForm DEF WorkersOK, WorkersTypeOK, Runs
    <3>3. WorkersOK'
      BY <3>1, <3>2 DEF WorkersOK, WorkersTypeOK
    <3>4. Busy' = Busy
      BY <3>1, <3>2 DEF Busy
    <3>5. backlog_depth' = backlog_depth /\ backlog_depth \in Nat
      BY <2>1, <3>1, <3>4, CountsType DEF backlog_depth
    <3> QED BY <2>1, <2>5, <3>1, <3>3, <3>5 DEF CountsTypeOK
  <2>9. CASE UNCHANGED capacityVars
    <3>1. UNCHANGED <<worker, beatKey, lag, orphans, caller>>
      BY <2>9 DEF capacityVars
    <3>2. WorkersOK'
      BY <2>1, <3>1 DEF WorkersOK, WorkersTypeOK
    <3>3. backlog_depth' = backlog_depth /\ backlog_depth \in Nat
      BY <2>1, <3>1, CountsType DEF backlog_depth, Busy
    <3> QED BY <2>1, <2>5, <3>1, <3>2, <3>3 DEF CountsTypeOK
  <2> QED BY <1>2, <2>6, <2>7, <2>8, <2>9 DEF CapacityNext
<1> QED BY <1>1, <1>2

\* What the invariant says of the gateway's view.
LEMMA CapacityInvSound ==
    ASSUME CapacityInv
    PROVE  CapacitySound
<1>0. /\ CapacityTypeOK /\ CountsTypeOK /\ skew \in Skews
      /\ \A w \in Workers : BeatOK(worker[w], beatKey[w])
    BY DEF CapacityInv, CapacityTypeOK, CountsTypeOK, WorkersTypeOK
<1>1. BacklogBounded
  <2>1. Admitted \in SUBSET Pending
    BY DEF Admitted, Pending
  <2>2. IsFiniteSet(Pending) /\ Cardinality(Pending) \in Nat /\ backlog_depth \in Nat
        /\ Cardinality(Handlers) \in Nat /\ QueueLimit \in Nat
    BY <1>0, CountsType
  <2>3. IsFiniteSet(Admitted) /\ Cardinality(Admitted) <= Cardinality(Pending)
    BY <2>1, <2>2, FS_Subset
  <2>4. Cardinality(Admitted) \in Nat
    BY <2>3, FS_CardinalityType
  <2> QED BY <2>2, <2>3, <2>4 DEF CapacityInv, BacklogBounded
<1>2. \A w \in Workers : /\ worker[w].gone \in 0..MaxAge /\ worker[w].missed \in 0..MaxAge
                         /\ beatKey[w].age \in 0..MaxAge
    BY <1>0 DEF CapacityTypeOK, Process, Beat
<1>3. MaxAge \in Nat /\ MaxAge + skew > StaleAfter /\ skew \in Int
      /\ BeatTtl \in Nat /\ StaleAfter \in Nat
    BY <1>0, MaxAgeForm, CapacityAssumption
<1>4. DeadNotCounted
    BY <1>0, <1>2, <1>3 DEF DeadNotCounted, Healthy, BeatOK
<1>5. AliveIsCounted
  <2> SUFFICES ASSUME NEW w \in Workers,
                      worker[w].state = "up" /\ worker[w].beat = "sleep",
                      worker[w].missed < BeatTtl, worker[w].missed + skew <= StaleAfter
               PROVE  Healthy(w)
    BY DEF AliveIsCounted
  <2>1. worker[w].missed < MaxAge /\ Failing(worker[w]) = worker[w].missed
    BY <1>2, <1>3 DEF Failing
  <2>2. beatKey[w].set /\ beatKey[w].age <= worker[w].missed
    BY <1>0, <2>1 DEF BeatOK
  <2> QED BY <1>2, <1>3, <2>2 DEF Healthy
<1> QED BY <1>0, <1>1, <1>4, <1>5 DEF CapacitySound

\* What the gateway makes of heartbeats and backlog (read_cluster_capacity, backlog_depth and
\* _compute_backpressure_decision), for any number of workers and requests, any clocks and
\* any limits: the dead are not counted, the living are, what is admitted is bounded.
THEOREM Counted == CapacitySpec => []CapacitySound
<1> QED BY CapacityInductive, CapacityInvSound, PTL DEF CapacitySpec

-----------------------------------------------------------------------------
(* The engine.                                                             *)

\* A model is in the cache once, and the one being loaded is not in it; what is being
\* loaded counts.
ModelsOK ==
    /\ Len(models) + (IF loadLock = 0 THEN 0 ELSE 1) <= CacheSize
    /\ \A i, k \in DOMAIN models : models[i] = models[k] => i = k
    /\ loadLock # 0 => ~Cached(thread[loadLock].want)

\* Where a thread stands says how far it is in the text.
Standing(t, o) ==
    /\ t.at \in {"none", "queued", "load", "check"} => t.index = 0
    /\ t.at \in {"infer", "generate", "yield"} => t.index # 0
    /\ t.at \in Inside => t.index <= o.sentences

\* Chunks a thread has handed over.
Handed(t) == IF t.index = 0 THEN 0 ELSE t.index - 1

\* What the event loop took from the queue of its job and what is still in it: the audio
\* of the text in order as far as the thread is, or to its end, or to an exception.
Flow(t, b, o) ==
    LET g == Len(o.got) IN
    /\ t.at # "none"
    /\ \A i \in DOMAIN b : b[i].kind = "chunk" => b[i].index = g + i
    /\ t.at \in Inside => g + Len(b) = Handed(t) /\ \A i \in DOMAIN b : b[i].kind = "chunk"
    /\ \A i \in DOMAIN b : b[i].kind = "end" =>
          (i > 1 /\ b[i - 1].kind = "error") \/ g + i - 1 = o.sentences

Untouched(j) == /\ thread[j].at = "none" /\ bridge[j] = <<>>
                /\ job[j].got = <<>> /\ job[j].fate = "new"

LoopOK ==
    /\ loop = "boot" => current = 0
    /\ loop = "get" => current # 0
    /\ \A j \in JobIds : j > current => Untouched(j)
    /\ \A j \in JobIds : job[j].fate = "running" <=> loop = "get" /\ j = current

ThreadsOK ==
    \A j \in JobIds : /\ Standing(thread[j], job[j])
                      /\ thread[j].at = "loading" <=> loadLock = j
                      /\ job[j].fate = "running" => Flow(thread[j], bridge[j], job[j])

EngineInv == EngineTypeOK /\ ModelsOK /\ LoopOK /\ ThreadsOK /\ DoneIsWhole

\* The entries of a sequence are different.
Once(s) == \A i, k \in DOMAIN s : s[i] = s[k] => i = k
Holds(s, k) == \E i \in DOMAIN s : s[i] = k

\* A piece of a sequence.
LEMMA Piece ==
    ASSUME NEW S, NEW s \in Seq(S), NEW m \in Nat \ {0}, NEW n \in Nat, n <= Len(s), m <= n + 1
    PROVE  /\ SubSeq(s, m, n) \in Seq(S) /\ Len(SubSeq(s, m, n)) = n - m + 1
           /\ DOMAIN SubSeq(s, m, n) = 1..(n - m + 1)
           /\ \A i \in 1..(n - m + 1) : SubSeq(s, m, n)[i] = s[m + i - 1]
<1>1. m \in Int /\ n \in Int /\ Len(s) \in Nat
    BY LenProperties
<1>2. \A i \in m..n : s[i] \in S
    BY <1>1, ElementOfSeq
<1>3. /\ SubSeq(s, m, n) \in Seq(S)
      /\ Len(SubSeq(s, m, n)) = IF m <= n THEN n - m + 1 ELSE 0
      /\ \A i \in 1..n - m + 1 : SubSeq(s, m, n)[i] = s[m + i - 1]
    BY <1>1, <1>2, SubSeqProperties
<1>4. Len(SubSeq(s, m, n)) = n - m + 1
    BY <1>1, <1>3
<1> QED BY <1>3, <1>4, LenProperties

\* Where the entries of a sequence are when the n-th is taken out.
LEMMA ShiftedIndex ==
    ASSUME NEW l \in Nat, NEW n \in 1..l, NEW s, NEW a, NEW b, NEW r,
           \A i \in 1..(n - 1) : a[i] = s[i],
           \A i \in 1..(l - n) : b[i] = s[n + i],
           \A i \in 1..(l - 1) : r[i] = IF i <= n - 1 THEN a[i] ELSE b[i - (n - 1)]
    PROVE  \A i \in 1..(l - 1) : r[i] = IF i < n THEN s[i] ELSE s[i + 1]
<1> SUFFICES ASSUME NEW i \in 1..(l - 1) PROVE r[i] = IF i < n THEN s[i] ELSE s[i + 1]
    OBVIOUS
<1>1. CASE i < n
    BY <1>1
<1>2. CASE ~(i < n)
  <2>1. r[i] = b[i - (n - 1)] /\ i - (n - 1) \in 1..(l - n) /\ n + (i - (n - 1)) = i + 1
    BY <1>2
  <2> QED BY <1>2, <2>1
<1> QED BY <1>1, <1>2

\* m is s with its n-th entry moved to the end; the entries up to l are different; those of
\* m are among those of s.
Shifted(l, n, s, m) ==
    m[l] = s[n] /\ \A i \in 1..(l - 1) : m[i] = IF i < n THEN s[i] ELSE s[i + 1]
Different(l, s) == \A x, y \in 1..l : s[x] = s[y] => x = y
Among(l, m, s) == \A i \in 1..l : \E j \in 1..l : m[i] = s[j]

\* What is put at the end of it then.
LEMMA MovedIndex ==
    ASSUME NEW l \in Nat, NEW n \in 1..l, NEW s, NEW m, Shifted(l, n, s, m)
    PROVE  /\ Different(l, s) => Different(l, m)
           /\ Among(l, m, s)
<1>0. m[l] = s[n] /\ \A i \in 1..(l - 1) : m[i] = IF i < n THEN s[i] ELSE s[i + 1]
    BY DEF Shifted
<1>1. \A i \in 1..l : \E j \in 1..l : /\ m[i] = s[j]
                                       /\ \/ i < n /\ j = i
                                          \/ i >= n /\ i < l /\ j = i + 1
                                          \/ i = l /\ j = n
  <2> SUFFICES ASSUME NEW i \in 1..l
               PROVE  \E j \in 1..l : /\ m[i] = s[j]
                                       /\ \/ i < n /\ j = i
                                          \/ i >= n /\ i < l /\ j = i + 1
                                          \/ i = l /\ j = n
    OBVIOUS
  <2>1. CASE i = l
    BY <1>0, <2>1
  <2>2. CASE i < l
    BY <1>0, <2>2
  <2> QED BY <2>1, <2>2
<1>2. \A i \in 1..l : \E j \in 1..l : m[i] = s[j]
    BY <1>1
<1>3. ASSUME \A x, y \in 1..l : s[x] = s[y] => x = y,
             NEW i \in 1..l, NEW j \in 1..l, m[i] = m[j]
      PROVE  i = j
  <2>1. PICK x \in 1..l : /\ m[i] = s[x]
                          /\ \/ i < n /\ x = i
                             \/ i >= n /\ i < l /\ x = i + 1
                             \/ i = l /\ x = n
    BY <1>1
  <2>2. PICK y \in 1..l : /\ m[j] = s[y]
                          /\ \/ j < n /\ y = j
                             \/ j >= n /\ j < l /\ y = j + 1
                             \/ j = l /\ y = n
    BY <1>1
  <2>3. x = y
    BY <1>3, <2>1, <2>2
  <2> QED BY <2>1, <2>2, <2>3
<1> QED BY <1>2, <1>3 DEF Different, Among

\* What move_to_end does to a cache that has the key: the order changes, and nothing else.
LEMMA MovedToEnd ==
    ASSUME NEW S, NEW s \in Seq(S), NEW k, Once(s), Holds(s, k)
    PROVE  /\ move_to_end(s, k) \in Seq(S) /\ Len(move_to_end(s, k)) = Len(s)
           /\ Once(move_to_end(s, k))
           /\ \A x : Holds(move_to_end(s, k), x) => Holds(s, x)
<1> DEFINE c == CHOOSE i \in DOMAIN s : s[i] = k
<1>1. c \in DOMAIN s /\ s[c] = k
    BY DEF Holds
<1>2. PICK l \in Nat : l = Len(s) /\ DOMAIN s = 1..l
    BY LenProperties
<1> HIDE DEF c
<1>3. PICK n \in 1..l : n = c /\ s[n] = k
    BY <1>1, <1>2
<1> DEFINE a == SubSeq(s, 1, n - 1)
           b == SubSeq(s, n + 1, l)
           r == a \o b
           m == Append(r, k)
<1>4. move_to_end(s, k) = m /\ k \in S
    BY <1>2, <1>3, ElementOfSeq DEF move_to_end, RemoveAt, c
<1>5. a \in Seq(S) /\ Len(a) = n - 1 /\ \A i \in 1..(n - 1) : a[i] = s[i]
    BY <1>2, Piece
<1>6. b \in Seq(S) /\ Len(b) = l - n /\ \A i \in 1..(l - n) : b[i] = s[n + i]
    BY <1>2, Piece
<1> HIDE DEF a, b
<1>7. /\ r \in Seq(S) /\ Len(r) = Len(a) + Len(b)
      /\ \A i \in 1..(Len(a) + Len(b)) : r[i] = IF i <= Len(a) THEN a[i] ELSE b[i - Len(a)]
    BY <1>5, <1>6, ConcatProperties
<1> HIDE DEF r
<1>8. Len(a) + Len(b) = l - 1
    BY <1>2, <1>5, <1>6
<1>9. \A i \in 1..(l - 1) : r[i] = IF i <= n - 1 THEN a[i] ELSE b[i - (n - 1)]
    BY <1>5, <1>7, <1>8, Zenon
<1>10. \A i \in 1..(l - 1) : r[i] = IF i < n THEN s[i] ELSE s[i + 1]
    BY <1>2, <1>3, <1>5, <1>6, <1>9, ShiftedIndex
<1>11. /\ m \in Seq(S) /\ Len(m) = Len(r) + 1
       /\ \A i \in 1..Len(r) : m[i] = r[i]
       /\ m[Len(r) + 1] = k
    BY <1>4, <1>7, AppendProperties
<1> HIDE DEF m
<1>12. Len(r) = l - 1 /\ Len(r) + 1 = l
    BY <1>2, <1>7, <1>8
<1>13. Len(m) = l /\ DOMAIN m = 1..l
    BY <1>11, <1>12, LenProperties
<1>14. /\ Different(l, s) => Different(l, m)
       /\ Among(l, m, s)
  <2>1. (\A i \in 1..(l - 1) : m[i] = r[i]) /\ m[l] = s[n]
    BY <1>3, <1>11, <1>12, Zenon
  <2>2. Shifted(l, n, s, m)
    BY <1>10, <2>1, Zenon DEF Shifted
  <2> QED BY <1>2, <1>3, <2>2, MovedIndex
<1>15. Once(m)
    BY <1>2, <1>13, <1>14, Zenon DEF Once, Different
<1>16. \A x : Holds(m, x) => Holds(s, x)
    BY <1>2, <1>13, <1>14, Zenon DEF Holds, Among
<1> QED BY <1>2, <1>4, <1>11, <1>13, <1>15, <1>16

\* What evict_oldest leaves has room for one more, and nothing that was not there.
LEMMA Evicted ==
    ASSUME NEW S, NEW s \in Seq(S), Once(s)
    PROVE  /\ evict_oldest(s) \in Seq(S) /\ Len(evict_oldest(s)) + 1 <= CacheSize
           /\ Len(evict_oldest(s)) <= Len(s) /\ Once(evict_oldest(s))
           /\ \A x : Holds(evict_oldest(s), x) => Holds(s, x)
<1>1. CacheSize \in Nat \ {0} /\ Len(s) \in Nat /\ DOMAIN s = 1..Len(s)
    BY EngineAssumption, LenProperties
<1>2. CASE ~(Len(s) >= CacheSize)
    BY <1>1, <1>2 DEF evict_oldest
<1>3. CASE Len(s) >= CacheSize
  <2> DEFINE f == Len(s) - CacheSize + 2
             b == SubSeq(s, f, Len(s))
  <2>1. evict_oldest(s) = b
    BY <1>3 DEF evict_oldest
  <2>3. /\ b \in Seq(S) /\ Len(b) = CacheSize - 1
        /\ \A i \in 1..(CacheSize - 1) : b[i] = s[f + i - 1]
    BY <1>1, <1>3, Piece
  <2> HIDE DEF b
  <2>4. DOMAIN b = 1..(CacheSize - 1)
    BY <2>3, LenProperties
  <2>8. f \in Nat /\ f - 1 = Len(s) - (CacheSize - 1) /\ f >= 1
    BY <1>1, <1>3
  <2> HIDE DEF f
  <2>7. \A i \in DOMAIN b : b[i] = s[f + i - 1] /\ f + i - 1 \in DOMAIN s
    BY <1>1, <2>3, <2>4, <2>8
  <2>5. Once(b)
    <3> SUFFICES ASSUME NEW i \in DOMAIN b, NEW k \in DOMAIN b, b[i] = b[k] PROVE i = k
      BY DEF Once
    <3> DEFINE x == f + i - 1
               y == f + k - 1
    <3>1. s[x] = s[y] /\ x \in DOMAIN s /\ y \in DOMAIN s
      BY <2>7
    <3> HIDE DEF x, y
    <3>2. x = y
      BY <3>1 DEF Once
    <3> QED BY <1>1, <2>4, <2>8, <3>2 DEF x, y
  <2>6. \A x : Holds(b, x) => Holds(s, x)
    BY <2>7 DEF Holds
  <2> QED BY <1>1, <1>3, <2>1, <2>3, <2>5, <2>6
<1> QED BY <1>2, <1>3

\* A loaded model is put at the new end.
LEMMA Loaded ==
    ASSUME NEW S, NEW s \in Seq(S), NEW k \in S, Once(s), ~Holds(s, k)
    PROVE  Append(s, k) \in Seq(S) /\ Len(Append(s, k)) = Len(s) + 1 /\ Once(Append(s, k))
<1>1. /\ Append(s, k) \in Seq(S) /\ Len(Append(s, k)) = Len(s) + 1
      /\ \A i \in 1..Len(s) : Append(s, k)[i] = s[i]
      /\ Append(s, k)[Len(s) + 1] = k /\ Len(s) \in Nat
      /\ DOMAIN s = 1..Len(s) /\ DOMAIN Append(s, k) = 1..(Len(s) + 1)
    BY AppendProperties, LenProperties
<1> HIDE DEF Holds
<1>2. \A i \in 1..Len(s) : s[i] # k
    BY <1>1 DEF Holds
<1> QED BY <1>1, <1>2 DEF Once

\* Goes and Puts, thread by thread.
Moves(j, at) ==
    /\ thread' \in [JobIds -> Thread]
    /\ thread'[j].at = at /\ thread'[j].index = thread[j].index /\ thread'[j].want = thread[j].want
    /\ \A i \in JobIds : i # j => thread'[i] = thread[i]
Adds(j, items) ==
    /\ bridge' \in [JobIds -> Seq(Item)]
    /\ bridge'[j] = bridge[j] \o items
    /\ \A i \in JobIds : i # j => bridge'[i] = bridge[i]

\* The form of Goes.
LEMMA GoesForm ==
    ASSUME thread \in [JobIds -> Thread], NEW j \in JobIds,
           NEW at \in Inside \cup {"none", "ended"}, Goes(j, at)
    PROVE  Moves(j, at)
<1> DEFINE p == [thread[j] EXCEPT !.at = at]
<1>1. p \in Thread /\ p.at = at /\ p.index = thread[j].index /\ p.want = thread[j].want
    BY DEF Thread
<1>2. thread' = [thread EXCEPT ![j] = p]
    BY DEF Goes
<1> HIDE DEF p
<1> QED BY <1>1, <1>2 DEF Moves

\* The form of Puts.
LEMMA PutsForm ==
    ASSUME bridge \in [JobIds -> Seq(Item)], NEW j \in JobIds, NEW items \in Seq(Item),
           Puts(j, items)
    PROVE  Adds(j, items)
<1> DEFINE p == bridge[j] \o items
<1>1. p \in Seq(Item)
    BY ConcatProperties
<1>2. bridge' = [bridge EXCEPT ![j] = p]
    BY DEF Puts
<1>3. bridge'[j] = p
    BY <1>2
<1> QED BY <1>1, <1>2, <1>3 DEF Adds

\* Chunks, exceptions and ends are items.
LEMMA Items ==
    /\ Error \in Item /\ Error.kind = "error" /\ End \in Item /\ End.kind = "end"
    /\ <<End>> \in Seq(Item) /\ <<Error, End>> \in Seq(Item)
    /\ \A j \in JobIds : thread \in [JobIds -> Thread] =>
          /\ Chunk(j) \in Item /\ Chunk(j).kind = "chunk" /\ Chunk(j).index = thread[j].index
          /\ <<Chunk(j)>> \in Seq(Item) /\ <<Chunk(j), End>> \in Seq(Item)
<1>1. Error \in Item /\ Error.kind = "error" /\ End \in Item /\ End.kind = "end"
    BY DEF Error, End, Item
<1>2. ASSUME NEW j \in JobIds, thread \in [JobIds -> Thread]
      PROVE  Chunk(j) \in Item /\ Chunk(j).kind = "chunk" /\ Chunk(j).index = thread[j].index
    BY <1>2 DEF Chunk, Item, Thread
<1>3. \A x, y \in Item : <<x>> \in Seq(Item) /\ <<x, y>> \in Seq(Item)
    OBVIOUS
<1> QED BY <1>1, <1>2, <1>3

\* What a step of the producer of job j does to its thread and its queue.
GoesOn(j) ==
    /\ \E at \in Inside : /\ Moves(j, at)
                          /\ at \in {"queued", "load", "check"} => thread[j].index = 0
                          /\ at \in {"infer", "generate", "yield"} => thread[j].index # 0
    /\ thread[j].at \in Inside /\ bridge' = bridge
Begins(j) ==
    /\ thread[j].at = "check" /\ job[j].sentences > 0
    /\ thread' = [thread EXCEPT ![j] =
                     [at |-> "get", want |-> adapter_for_voice(job[j].adapter), index |-> 1]]
    /\ bridge' = bridge
HandsOver(j) ==
    /\ thread[j].at = "yield" /\ thread[j].index < job[j].sentences
    /\ thread' = [thread EXCEPT ![j].at = "get", ![j].index = @ + 1]
    /\ Adds(j, <<Chunk(j)>>)
Returns(j) ==
    /\ Moves(j, "ended")
    /\ \/ thread[j].at \in Inside /\ Adds(j, <<Error, End>>)
       \/ thread[j].at = "check" /\ job[j].sentences = 0 /\ Adds(j, <<End>>)
       \/ /\ thread[j].at = "yield" /\ thread[j].index = job[j].sentences
          /\ Adds(j, <<Chunk(j), End>>)

\* Every step of a producer is one of those.
LEMMA ProduceFlow ==
    ASSUME EngineTypeOK, NEW j \in JobIds, Produce(j),
           Standing(thread[j], job[j])
    PROVE  GoesOn(j) \/ Begins(j) \/ HandsOver(j) \/ Returns(j)
<1>1. /\ thread \in [JobIds -> Thread] /\ bridge \in [JobIds -> Seq(Item)]
      /\ thread[j].at \in {"queued", "load", "check"} => thread[j].index = 0
      /\ thread[j].at \in {"infer", "generate", "yield"} => thread[j].index # 0
    BY DEF EngineTypeOK, Standing
<1>2. \A at \in Inside : Goes(j, at) => Moves(j, at)
    BY <1>1, GoesForm
<1>3. \A items \in {<<Error, End>>, <<End>>, <<Chunk(j), End>>} :
          Ends(j, items) => Moves(j, "ended") /\ Adds(j, items)
    BY <1>1, GoesForm, PutsForm, Items DEF Ends
<1>4. Raises(j) => Moves(j, "ended") /\ Adds(j, <<Error, End>>)
    BY <1>3 DEF Raises
<1>5. HasModel(j) => \E at \in {"check", "infer"} :
          /\ Moves(j, at)
          /\ at = "check" => thread[j].index = 0
          /\ at = "infer" => thread[j].index # 0
  <2> SUFFICES ASSUME HasModel(j)
               PROVE  \E at \in {"check", "infer"} :
                          /\ Moves(j, at)
                          /\ at = "check" => thread[j].index = 0
                          /\ at = "infer" => thread[j].index # 0
    OBVIOUS
  <2>1. CASE thread[j].index = 0
    <3>1. Goes(j, "check")
      BY <2>1 DEF HasModel
    <3> QED BY <1>2, <2>1, <3>1 DEF Inside
  <2>2. CASE thread[j].index # 0
    <3>1. Goes(j, "infer")
      BY <2>2 DEF HasModel
    <3> QED BY <1>2, <2>2, <3>1 DEF Inside
  <2> QED BY <2>1, <2>2
<1>6. CASE Scheduled(j) \/ Infer(j)
    BY <1>1, <1>2, <1>6 DEF Scheduled, Infer, GoesOn, Inside
<1>7. CASE Load(j)
    BY <1>1, <1>2, <1>7 DEF Load, GoesOn, Inside
<1>8. CASE Check(j)
    BY <1>3, <1>4, <1>8 DEF Check, Begins, Returns, Inside
<1>9. CASE Get(j)
    BY <1>1, <1>2, <1>9 DEF Get, GoesOn, Inside
<1>10. CASE Touch(j)
    BY <1>4, <1>5, <1>10 DEF Touch, GoesOn, Returns, Inside
<1>11. CASE Lock(j)
    BY <1>2, <1>5, <1>11 DEF Lock, GoesOn, Inside
<1>12. CASE Loading(j)
    BY <1>4, <1>5, <1>12 DEF Loading, GoesOn, Returns, Inside
<1>13. CASE Generate(j)
    BY <1>1, <1>2, <1>4, <1>13 DEF Generate, GoesOn, Returns, Inside
<1>14. CASE Yield(j)
  <2>1. thread[j].at = "yield"
    BY <1>14, Zenon DEF Yield
  <2>2. CASE thread[j].index = job[j].sentences /\ Ends(j, <<Chunk(j), End>>)
    BY <1>3, <2>1, <2>2, Zenon DEF Returns
  <2>3. CASE /\ thread[j].index < job[j].sentences /\ Puts(j, <<Chunk(j)>>)
             /\ thread' = [thread EXCEPT ![j].at = "get", ![j].index = @ + 1]
    <3>1. Adds(j, <<Chunk(j)>>)
      BY <1>1, <2>3, PutsForm, Items
    <3> QED BY <2>1, <2>3, <3>1, Zenon DEF HandsOver
  <2> QED BY <1>14, <2>2, <2>3, Zenon DEF Yield
<1> QED BY <1>6, <1>7, <1>8, <1>9, <1>10, <1>11, <1>12, <1>13, <1>14 DEF Produce

\* One or two more entries.
LEMMA OneMore ==
    ASSUME NEW S, NEW b \in Seq(S), NEW x \in S
    PROVE  \E l \in Nat : /\ l = Len(b) /\ DOMAIN b = 1..l /\ DOMAIN (b \o <<x>>) = 1..(l + 1)
                          /\ Len(b \o <<x>>) = l + 1
                          /\ \A i \in 1..l : (b \o <<x>>)[i] = b[i]
                          /\ (b \o <<x>>)[l + 1] = x
<1> DEFINE c == b \o <<x>>
<1>1. PICK l \in Nat : l = Len(b) /\ DOMAIN b = 1..l
    BY LenProperties
<1>2. <<x>> \in Seq(S) /\ Len(<<x>>) = 1 /\ <<x>>[1] = x
    OBVIOUS
<1> DEFINE y == <<x>>
<1> HIDE DEF y
<1>3. y \in Seq(S) /\ Len(y) = 1 /\ y[1] = x
    BY <1>2 DEF y
<1>4. /\ b \o y \in Seq(S) /\ Len(b \o y) = Len(b) + Len(y)
      /\ \A i \in 1..(Len(b) + Len(y)) :
            (b \o y)[i] = IF i <= Len(b) THEN b[i] ELSE y[i - Len(b)]
    BY <1>3, ConcatProperties
<1> DEFINE z == b \o y
<1> HIDE DEF z
<1>5. /\ z \in Seq(S) /\ Len(z) = l + 1
      /\ \A i \in 1..(l + 1) : z[i] = IF i <= l THEN b[i] ELSE y[i - l]
    BY <1>1, <1>3, <1>4 DEF z
<1>6. DOMAIN z = 1..(l + 1)
    BY <1>5, LenProperties
<1>7. \A i \in 1..l : z[i] = b[i]
    BY <1>5
<1>8. z[l + 1] = x
  <2>1. z[l + 1] = y[l + 1 - l] /\ l + 1 - l = 1
    BY <1>5
  <2> QED BY <1>3, <2>1
<1>9. z = b \o <<x>>
    BY DEF z, y
<1> QED BY <1>1, <1>5, <1>6, <1>7, <1>8, <1>9, Zenon

\* A sequence with two elements more.
LEMMA TwoMore ==
    ASSUME NEW S, NEW b \in Seq(S), NEW x \in S, NEW y \in S
    PROVE  \E l \in Nat : /\ l = Len(b) /\ DOMAIN b = 1..l
                          /\ DOMAIN (b \o <<x, y>>) = 1..(l + 2)
                          /\ \A i \in 1..l : (b \o <<x, y>>)[i] = b[i]
                          /\ (b \o <<x, y>>)[l + 1] = x /\ (b \o <<x, y>>)[l + 2] = y
<1>1. PICK l \in Nat : l = Len(b) /\ DOMAIN b = 1..l
    BY LenProperties
<1> DEFINE w == <<x, y>>
<1>2. w \in Seq(S) /\ Len(w) = 2 /\ w[1] = x /\ w[2] = y
    OBVIOUS
<1> HIDE DEF w
<1>4. /\ b \o w \in Seq(S) /\ Len(b \o w) = Len(b) + Len(w)
      /\ \A i \in 1..(Len(b) + Len(w)) :
            (b \o w)[i] = IF i <= Len(b) THEN b[i] ELSE w[i - Len(b)]
    BY <1>2, ConcatProperties
<1> DEFINE z == b \o w
<1> HIDE DEF z
<1>5. /\ z \in Seq(S) /\ Len(z) = l + 2
      /\ \A i \in 1..(l + 2) : z[i] = IF i <= l THEN b[i] ELSE w[i - l]
    BY <1>1, <1>2, <1>4 DEF z
<1>6. DOMAIN z = 1..(l + 2)
    BY <1>5, LenProperties
<1>7. \A i \in 1..l : z[i] = b[i]
    BY <1>5
<1>8. z[l + 1] = x /\ z[l + 2] = y
  <2>1. z[l + 1] = w[l + 1 - l] /\ l + 1 - l = 1 /\ z[l + 2] = w[l + 2 - l] /\ l + 2 - l = 2
    BY <1>5
  <2> QED BY <1>2, <2>1
<1>9. z = b \o <<x, y>>
    BY DEF z, w
<1> QED BY <1>1, <1>6, <1>7, <1>8, <1>9, Zenon

\* The flow of audio as it is, when the thread stays inside and hands nothing over.
LEMMA FlowStays ==
    ASSUME NEW t, NEW t2, NEW b, NEW o, Flow(t, b, o), t.at \in Inside, t2.at \in Inside,
           Handed(t2) = Handed(t)
    PROVE  Flow(t2, b, o)
<1>1. t2.at # "none"
    BY DEF Inside
<1> QED BY <1>1 DEF Flow

\* ... when it hands over the next chunk ...
LEMMA FlowGrows ==
    ASSUME NEW t, NEW t2, NEW b \in Seq(Item), NEW o \in Job, Flow(t, b, o), t.at \in Inside,
           t2.at \in Inside, Handed(t) \in Nat, Handed(t2) = Handed(t) + 1,
           NEW x \in Item, x.kind = "chunk", x.index = Handed(t) + 1
    PROVE  Flow(t2, b \o <<x>>, o)
<1> DEFINE c == b \o <<x>>
<1>1. PICK g \in Nat : g = Len(o.got)
    BY DEF Job
<1>2. PICK l \in Nat : /\ l = Len(b) /\ DOMAIN b = 1..l /\ DOMAIN c = 1..(l + 1)
                       /\ Len(c) = l + 1
                       /\ \A i \in 1..l : c[i] = b[i]
                       /\ c[l + 1] = x
    BY OneMore
<1> HIDE DEF c
<1>3. /\ \A i \in 1..l : b[i].kind = "chunk" /\ b[i].index = g + i
      /\ g + l = Handed(t) /\ t2.at # "none"
    BY <1>1, <1>2 DEF Flow, Inside
<1>4. ASSUME NEW i \in 1..(l + 1) PROVE c[i].kind = "chunk" /\ c[i].index = g + i
  <2>1. CASE i \in 1..l
    BY <1>2, <1>3, <2>1
  <2>2. CASE i = l + 1
    BY <1>2, <1>3, <2>2
  <2> QED BY <2>1, <2>2
<1>5. g + (l + 1) = Handed(t2)
    BY <1>3
<1> QED BY <1>1, <1>2, <1>3, <1>4, <1>5 DEF Flow, c

\* ... or when it returns: after an exception, after a text of nothing, after the last chunk.
LEMMA FlowEnds ==
    ASSUME NEW t, NEW t2, NEW b \in Seq(Item), NEW o \in Job, Flow(t, b, o), t.at \in Inside,
           t2.at = "ended", Handed(t) \in Nat, NEW x \in Item
    PROVE  /\ Flow(t2, b \o <<Error, End>>, o)
           /\ Handed(t) = o.sentences => Flow(t2, b \o <<End>>, o)
           /\ /\ x.kind = "chunk" /\ x.index = Handed(t) + 1
              /\ Handed(t) + 1 = o.sentences
              => Flow(t2, b \o <<x, End>>, o)
<1>1. PICK g \in Nat : g = Len(o.got)
    BY DEF Job
<1>2. PICK l \in Nat : l = Len(b) /\ DOMAIN b = 1..l
    BY LenProperties
<1>3. /\ \A i \in 1..l : b[i].kind = "chunk" /\ b[i].index = g + i
      /\ g + l = Handed(t) /\ t2.at # "none" /\ t2.at \notin Inside
    BY <1>1, <1>2 DEF Flow, Inside
<1>4. Flow(t2, b \o <<Error, End>>, o)
  <2> DEFINE c == b \o <<Error, End>>
  <2>1. /\ DOMAIN c = 1..(l + 2) /\ \A i \in 1..l : c[i] = b[i]
        /\ c[l + 1] = Error /\ c[l + 2] = End
    BY <1>2, Items, TwoMore
  <2> HIDE DEF c
  <2>2. \A i \in 1..(l + 2) : \/ i <= l /\ c[i].kind = "chunk" /\ c[i].index = g + i
                              \/ i = l + 1 /\ c[i].kind = "error"
                              \/ i = l + 2 /\ c[i].kind = "end" /\ c[i - 1].kind = "error" /\ i > 1
    <3> SUFFICES ASSUME NEW i \in 1..(l + 2)
                 PROVE  \/ i <= l /\ c[i].kind = "chunk" /\ c[i].index = g + i
                        \/ i = l + 1 /\ c[i].kind = "error"
                        \/ i = l + 2 /\ c[i].kind = "end" /\ c[i - 1].kind = "error" /\ i > 1
      OBVIOUS
    <3>1. CASE i \in 1..l
      BY <1>3, <2>1, <3>1
    <3>2. CASE i = l + 1
      BY <2>1, <3>2, Items
    <3>3. CASE i = l + 2
      <4>1. c[i] = End /\ i - 1 = l + 1 /\ i > 1
        BY <2>1, <3>3
      <4>2. c[i - 1] = Error
        BY <2>1, <4>1
      <4> QED BY <3>3, <4>1, <4>2, Items
    <3> QED BY <3>1, <3>2, <3>3
  <2> QED BY <1>1, <1>3, <2>1, <2>2 DEF Flow, c
<1>5. ASSUME Handed(t) = o.sentences PROVE Flow(t2, b \o <<End>>, o)
  <2> DEFINE c == b \o <<End>>
  <2>1. /\ DOMAIN c = 1..(l + 1) /\ \A i \in 1..l : c[i] = b[i]
        /\ c[l + 1] = End
    BY <1>2, Items, OneMore
  <2> HIDE DEF c
  <2>2. \A i \in 1..(l + 1) : \/ i <= l /\ c[i].kind = "chunk" /\ c[i].index = g + i
                              \/ c[i].kind = "end" /\ g + i - 1 = o.sentences
    <3> SUFFICES ASSUME NEW i \in 1..(l + 1)
                 PROVE  \/ i <= l /\ c[i].kind = "chunk" /\ c[i].index = g + i
                        \/ c[i].kind = "end" /\ g + i - 1 = o.sentences
      OBVIOUS
    <3>1. CASE i \in 1..l
      BY <1>3, <2>1, <3>1
    <3>2. CASE i = l + 1
      <4>1. g + i - 1 = g + l
        BY <3>2
      <4> QED BY <1>3, <1>5, <2>1, <3>2, <4>1, Items
    <3> QED BY <3>1, <3>2
  <2> QED BY <1>1, <1>3, <2>1, <2>2 DEF Flow, c
<1>6. ASSUME x.kind = "chunk", x.index = Handed(t) + 1, Handed(t) + 1 = o.sentences
      PROVE  Flow(t2, b \o <<x, End>>, o)
  <2> DEFINE c == b \o <<x, End>>
  <2>1. /\ DOMAIN c = 1..(l + 2) /\ \A i \in 1..l : c[i] = b[i]
        /\ c[l + 1] = x /\ c[l + 2] = End
    BY <1>2, Items, TwoMore
  <2> HIDE DEF c
  <2>2. \A i \in 1..(l + 2) : \/ c[i].kind = "chunk" /\ c[i].index = g + i
                              \/ c[i].kind = "end" /\ g + i - 1 = o.sentences
    <3> SUFFICES ASSUME NEW i \in 1..(l + 2)
                 PROVE  \/ c[i].kind = "chunk" /\ c[i].index = g + i
                        \/ c[i].kind = "end" /\ g + i - 1 = o.sentences
      OBVIOUS
    <3>1. CASE i \in 1..l
      BY <1>3, <2>1, <3>1
    <3>2. CASE i = l + 1
      <4>1. g + i = g + l + 1
        BY <3>2
      <4> QED BY <1>3, <1>6, <2>1, <3>2, <4>1
    <3>3. CASE i = l + 2
      <4>1. g + i - 1 = g + l + 1
        BY <3>3
      <4> QED BY <1>3, <1>6, <2>1, <3>3, <4>1, Items
    <3> QED BY <3>1, <3>2, <3>3
  <2> QED BY <1>1, <1>3, <2>1, <2>2 DEF Flow, c
<1> QED BY <1>4, <1>5, <1>6

\* The thread of a job and the flow of its audio after a step of its producer; the other
\* jobs are left alone.
LEMMA ProduceThreads ==
    ASSUME EngineTypeOK, ThreadsOK, NEW j \in JobIds, Produce(j)
    PROVE  /\ thread' \in [JobIds -> Thread] /\ bridge' \in [JobIds -> Seq(Item)]
           /\ \A i \in JobIds : i # j => thread'[i] = thread[i] /\ bridge'[i] = bridge[i]
           /\ thread[j].at \in Inside /\ thread'[j].at # "none"
           /\ Standing(thread'[j], job[j])
           /\ job[j].fate = "running" => Flow(thread'[j], bridge'[j], job[j])
<1> DEFINE t == thread[j]
           b == bridge[j]
           o == job[j]
<1>1. /\ thread \in [JobIds -> Thread] /\ bridge \in [JobIds -> Seq(Item)]
      /\ t \in Thread /\ b \in Seq(Item) /\ o \in Job
      /\ Standing(t, o)
      /\ o.fate = "running" => Flow(t, b, o)
    BY DEF EngineTypeOK, ThreadsOK
<1>2. /\ t.index \in Nat /\ o.sentences \in Nat /\ Handed(t) \in Nat
      /\ t.index = 0 => Handed(t) = 0
      /\ t.index # 0 => Handed(t) + 1 = t.index
    BY <1>1 DEF Thread, Job, Handed
<1>3. GoesOn(j) \/ Begins(j) \/ HandsOver(j) \/ Returns(j)
    BY <1>1, ProduceFlow
<1>4. "none" \notin Inside /\ "ended" \notin Inside /\ {"check", "get", "yield"} \subseteq Inside
    BY DEF Inside
<1>5. CASE GoesOn(j)
  <2>1. PICK at \in Inside : /\ Moves(j, at)
                             /\ at \in {"queued", "load", "check"} => t.index = 0
                             /\ at \in {"infer", "generate", "yield"} => t.index # 0
    BY <1>5 DEF GoesOn
  <2>2. t.at \in Inside /\ bridge' = bridge
    BY <1>5 DEF GoesOn
  <2>3. /\ thread' \in [JobIds -> Thread] /\ thread'[j].at = at /\ thread'[j].index = t.index
        /\ \A i \in JobIds : i # j => thread'[i] = thread[i]
    BY <2>1 DEF Moves
  <2>4. Handed(thread'[j]) = Handed(t)
    BY <2>3 DEF Handed
  <2>5. Standing(thread'[j], o)
    BY <1>1, <1>4, <2>1, <2>2, <2>3 DEF Standing
  <2>6. o.fate = "running" => Flow(thread'[j], b, o)
    BY <1>1, <2>2, <2>3, <2>4, FlowStays
  <2> QED BY <1>1, <1>4, <2>2, <2>3, <2>5, <2>6
<1>6. CASE Begins(j)
  <2> DEFINE q == [at |-> "get", want |-> adapter_for_voice(o.adapter), index |-> 1]
  <2>1. t.at = "check" /\ o.sentences > 0 /\ thread' = [thread EXCEPT ![j] = q] /\ bridge' = bridge
    BY <1>6, Zenon DEF Begins
  <2>2. q \in Thread /\ q.at = "get" /\ q.index = 1
    BY <1>1 DEF Thread, Job, Keys, Inside, adapter_for_voice
  <2> HIDE DEF q
  <2>3. /\ thread' \in [JobIds -> Thread] /\ thread'[j] = q
        /\ \A i \in JobIds : i # j => thread'[i] = thread[i]
    BY <1>1, <2>1, <2>2
  <2>4. t.index = 0 /\ Handed(q) = 0
    BY <1>1, <2>1, <2>2 DEF Standing, Handed
  <2>5. Standing(q, o)
    BY <1>2, <2>1, <2>2 DEF Standing
  <2>6. o.fate = "running" => Flow(q, b, o)
    BY <1>1, <1>2, <1>4, <2>1, <2>2, <2>4, FlowStays
  <2> QED BY <1>1, <1>4, <2>1, <2>2, <2>3, <2>5, <2>6
<1>7. CASE HandsOver(j)
  <2>1. t.at = "yield" /\ t.index < o.sentences /\ Adds(j, <<Chunk(j)>>)
    BY <1>7, Zenon DEF HandsOver
  <2> DEFINE q0 == [t EXCEPT !.at = "get"]
             q == [q0 EXCEPT !.index = t.index + 1]
  <2>2. thread' = [thread EXCEPT ![j] = q]
    BY <1>7 DEF HandsOver
  <2>3. q0 \in Thread /\ q0.at = "get"
    BY <1>1 DEF Thread, Inside
  <2> HIDE DEF q0
  <2>4. q \in Thread /\ q.at = "get" /\ q.index = t.index + 1
    BY <1>2, <2>3 DEF Thread
  <2> HIDE DEF q
  <2>5. /\ thread' \in [JobIds -> Thread] /\ thread'[j] = q
        /\ \A i \in JobIds : i # j => thread'[i] = thread[i]
    BY <1>1, <2>2, <2>4
  <2>6. /\ bridge' \in [JobIds -> Seq(Item)] /\ bridge'[j] = b \o <<Chunk(j)>>
        /\ \A i \in JobIds : i # j => bridge'[i] = bridge[i]
    BY <2>1 DEF Adds
  <2>7. t.index # 0
    BY <1>1, <2>1 DEF Standing
  <2>8. Handed(q) = Handed(t) + 1 /\ q.index <= o.sentences
    BY <1>2, <2>1, <2>4, <2>7 DEF Handed
  <2>9. Standing(q, o)
    BY <2>4, <2>8 DEF Standing
  <2>10. Chunk(j) \in Item /\ Chunk(j).kind = "chunk" /\ Chunk(j).index = Handed(t) + 1
    BY <1>1, <1>2, <2>7, Items
  <2>11. o.fate = "running" => Flow(q, b \o <<Chunk(j)>>, o)
    BY <1>1, <1>2, <1>4, <2>1, <2>4, <2>8, <2>10, FlowGrows
  <2> QED BY <1>4, <2>1, <2>4, <2>5, <2>6, <2>9, <2>11
<1>8. CASE Returns(j)
  <2>1. /\ thread' \in [JobIds -> Thread] /\ thread'[j].at = "ended"
        /\ \A i \in JobIds : i # j => thread'[i] = thread[i]
    BY <1>8 DEF Returns, Moves
  <2>2. Standing(thread'[j], o)
    BY <1>4, <2>1 DEF Standing
  <2>3. Chunk(j) \in Item /\ Chunk(j).kind = "chunk" /\ Chunk(j).index = t.index
    BY <1>1, Items
  <2>4. PICK items : /\ Adds(j, items) /\ t.at \in Inside
                     /\ \/ items = <<Error, End>>
                        \/ items = <<End>> /\ t.at = "check" /\ o.sentences = 0
                        \/ items = <<Chunk(j), End>> /\ t.at = "yield" /\ t.index = o.sentences
    BY <1>4, <1>8 DEF Returns
  <2>5. /\ bridge' \in [JobIds -> Seq(Item)] /\ bridge'[j] = b \o items
        /\ \A i \in JobIds : i # j => bridge'[i] = bridge[i]
    BY <2>4 DEF Adds
  <2>6. ASSUME o.fate = "running" PROVE Flow(thread'[j], b \o items, o)
    <3>1. Flow(t, b, o)
      BY <1>1, <2>6
    <3>2. /\ Flow(thread'[j], b \o <<Error, End>>, o)
          /\ Handed(t) = o.sentences => Flow(thread'[j], b \o <<End>>, o)
          /\ Chunk(j).index = Handed(t) + 1 /\ Handed(t) + 1 = o.sentences
             => Flow(thread'[j], b \o <<Chunk(j), End>>, o)
      BY <1>1, <1>2, <2>1, <2>3, <2>4, <3>1, FlowEnds
    <3>3. CASE items = <<Error, End>>
      BY <3>2, <3>3
    <3>4. CASE items = <<End>> /\ t.at = "check" /\ o.sentences = 0
      BY <1>1, <1>2, <3>2, <3>4 DEF Standing
    <3>5. CASE items = <<Chunk(j), End>> /\ t.at = "yield" /\ t.index = o.sentences
      <4>1. t.index # 0
        BY <1>1, <3>5 DEF Standing
      <4> QED BY <1>2, <2>3, <3>2, <3>5, <4>1
    <3> QED BY <2>4, <3>3, <3>4, <3>5
  <2> QED BY <1>4, <2>1, <2>2, <2>4, <2>5, <2>6
<1> QED BY <1>3, <1>5, <1>6, <1>7, <1>8

\* What a step of the producer of job j does to the cache and its lock.
KeepsLock(j) ==
    /\ loadLock' = loadLock /\ thread[j].at # "loading" /\ thread'[j].at # "loading"
    /\ \/ models' = models
       \/ \E k \in Keys : Cached(k) /\ models' = move_to_end(models, k)
TakesLock(j) ==
    /\ loadLock = 0 /\ loadLock' = j /\ Moves(j, "loading")
    /\ ~Cached(thread[j].want) /\ models' = evict_oldest(models)
FreesLock(j) ==
    /\ thread[j].at = "loading" /\ loadLock' = 0 /\ thread'[j].at # "loading"
    /\ models' = models \/ models' = Append(models, thread[j].want)

\* Every step of a producer is one of those.
LEMMA ProduceModels ==
    ASSUME EngineTypeOK, NEW j \in JobIds, Produce(j)
    PROVE  KeepsLock(j) \/ TakesLock(j) \/ FreesLock(j)
<1>1. /\ thread \in [JobIds -> Thread] /\ thread[j] \in Thread /\ thread[j].want \in Keys
    BY DEF EngineTypeOK, Thread
<1>2. \A at \in Inside \cup {"ended"} : Goes(j, at) => Moves(j, at)
    BY <1>1, GoesForm
<1>3. \A at \in Inside \cup {"ended"} : Goes(j, at) => thread'[j].at = at
    BY <1>2 DEF Moves
<1>4. /\ HasModel(j) => thread'[j].at # "loading"
      /\ Raises(j) => thread'[j].at # "loading"
      /\ \A items : Ends(j, items) => thread'[j].at # "loading"
    BY <1>3 DEF HasModel, Raises, Ends, Inside
<1>5. CASE Scheduled(j) \/ Infer(j)
    BY <1>3, <1>5 DEF Scheduled, Infer, KeepsLock, Inside
<1>6. CASE Load(j) \/ Get(j)
    BY <1>3, <1>6 DEF Load, Get, KeepsLock, Inside
<1>7. CASE Check(j)
  <2>1. /\ thread[j].at = "check" /\ models' = models /\ loadLock' = loadLock
        /\ \/ Raises(j) \/ Ends(j, <<End>>)
           \/ thread' = [thread EXCEPT ![j] =
                  [at |-> "get", want |-> adapter_for_voice(job[j].adapter), index |-> 1]]
    BY <1>7, Zenon DEF Check
  <2>2. thread'[j].at # "loading"
    BY <1>1, <1>4, <2>1
  <2> QED BY <2>1, <2>2 DEF KeepsLock
<1>8. CASE Touch(j)
    BY <1>1, <1>4, <1>8 DEF Touch, KeepsLock
<1>9. CASE Lock(j)
  <2>1. CASE Cached(thread[j].want)
    BY <1>1, <1>4, <1>9, <2>1 DEF Lock, KeepsLock
  <2>2. CASE ~Cached(thread[j].want)
    BY <1>1, <1>2, <1>9, <2>2 DEF Lock, TakesLock, Inside
  <2> QED BY <2>1, <2>2
<1>10. CASE Loading(j)
    BY <1>1, <1>4, <1>10 DEF Loading, FreesLock
<1>11. CASE Generate(j)
    BY <1>3, <1>4, <1>11 DEF Generate, KeepsLock, Inside
<1>12. CASE Yield(j)
  <2>1. /\ thread[j].at = "yield" /\ models' = models /\ loadLock' = loadLock
        /\ \/ Ends(j, <<Chunk(j), End>>)
           \/ thread' = [thread EXCEPT ![j].at = "get", ![j].index = @ + 1]
    BY <1>12, Zenon DEF Yield
  <2>2. CASE thread' = [thread EXCEPT ![j].at = "get", ![j].index = @ + 1]
    <3> DEFINE q == [[thread[j] EXCEPT !.at = "get"] EXCEPT !.index = thread[j].index + 1]
    <3>1. thread' = [thread EXCEPT ![j] = q]
      BY <2>2
    <3>2. q.at = "get"
      BY <1>1 DEF Thread
    <3> HIDE DEF q
    <3> QED BY <1>1, <2>1, <3>1, <3>2 DEF KeepsLock
  <2> QED BY <1>4, <2>1, <2>2 DEF KeepsLock
<1> QED BY <1>5, <1>6, <1>7, <1>8, <1>9, <1>10, <1>11, <1>12, Zenon DEF Produce

LockOK == \A i \in JobIds : thread[i].at = "loading" <=> loadLock = i

\* The cache and its lock stay as they should be.
LEMMA ProduceKeepsModels ==
    ASSUME EngineTypeOK, ModelsOK, LockOK, NEW j \in JobIds, Produce(j),
           thread' \in [JobIds -> Thread],
           \A i \in JobIds : i # j => thread'[i] = thread[i]
    PROVE  models' \in Seq(Keys) /\ loadLock' \in 0..Jobs /\ ModelsOK' /\ LockOK'
<1>1. /\ models \in Seq(Keys) /\ loadLock \in 0..Jobs /\ thread \in [JobIds -> Thread]
      /\ thread[j] \in Thread /\ thread[j].want \in Keys
      /\ Jobs \in Nat /\ CacheSize \in Nat \ {0} /\ JobIds = 1..Jobs /\ Len(models) \in Nat
    BY EngineAssumption, LenProperties DEF EngineTypeOK, Thread, JobIds
<1>2. /\ Len(models) + (IF loadLock = 0 THEN 0 ELSE 1) <= CacheSize
      /\ Once(models)
      /\ loadLock # 0 => ~Holds(models, thread[loadLock].want)
    BY DEF ModelsOK, Once, Holds, Cached
<1> DEFINE Kept ==
        /\ models' \in Seq(Keys) /\ loadLock' \in 0..Jobs
        /\ Len(models') + (IF loadLock' = 0 THEN 0 ELSE 1) <= CacheSize
        /\ Once(models')
        /\ loadLock' # 0 => ~Holds(models', thread'[loadLock'].want)
        /\ \A i \in JobIds : thread'[i].at = "loading" <=> loadLock' = i
<1>3. SUFFICES Kept
    BY DEF ModelsOK, LockOK, Once, Holds, Cached
<1>4. KeepsLock(j) \/ TakesLock(j) \/ FreesLock(j)
    BY ProduceModels
<1>5. CASE KeepsLock(j)
  <2>1. /\ loadLock' = loadLock /\ loadLock # j
        /\ thread[j].at # "loading" /\ thread'[j].at # "loading"
    BY <1>5 DEF KeepsLock, LockOK
  <2>2. loadLock # 0 => thread'[loadLock] = thread[loadLock]
    BY <1>1, <2>1
  <2>3. \A i \in JobIds : thread'[i].at = "loading" <=> loadLock' = i
    BY <2>1 DEF LockOK
  <2>4. CASE models' = models
    BY <1>1, <1>2, <2>1, <2>2, <2>3, <2>4
  <2>5. ASSUME NEW k \in Keys, Cached(k), models' = move_to_end(models, k) PROVE Kept
    <3>0. Holds(models, k)
      BY <2>5 DEF Cached, Holds
    <3>1. /\ models' \in Seq(Keys) /\ Len(models') = Len(models) /\ Once(models')
          /\ \A x : Holds(models', x) => Holds(models, x)
      BY <1>1, <1>2, <2>5, <3>0, MovedToEnd
    <3> QED BY <1>1, <1>2, <2>1, <2>2, <2>3, <3>1
  <2> QED BY <1>5, <2>4, <2>5 DEF KeepsLock
<1>6. CASE TakesLock(j)
  <2>1. /\ loadLock = 0 /\ loadLock' = j /\ thread'[j].at = "loading"
        /\ thread'[j].want = thread[j].want
        /\ ~Holds(models, thread[j].want) /\ models' = evict_oldest(models)
    BY <1>6 DEF TakesLock, Moves, Cached, Holds
  <2>2. /\ models' \in Seq(Keys) /\ Len(models') + 1 <= CacheSize /\ Once(models')
        /\ \A x : Holds(models', x) => Holds(models, x)
    BY <1>1, <1>2, <2>1, Evicted
  <2>3. \A i \in JobIds : thread'[i].at = "loading" <=> loadLock' = i
    BY <1>1, <2>1 DEF LockOK
  <2> QED BY <1>1, <2>1, <2>2, <2>3
<1>7. CASE FreesLock(j)
  <2>1. /\ loadLock = j /\ loadLock' = 0 /\ thread'[j].at # "loading"
        /\ models' = models \/ models' = Append(models, thread[j].want)
    BY <1>7 DEF FreesLock, LockOK
  <2>2. \A i \in JobIds : thread'[i].at = "loading" <=> loadLock' = i
    BY <1>1, <2>1 DEF LockOK
  <2>3. ~Holds(models, thread[j].want) /\ Len(models) + 1 <= CacheSize
    BY <1>1, <1>2, <2>1
  <2>4. CASE models' = models
    BY <1>1, <1>2, <2>1, <2>2, <2>3, <2>4
  <2>5. CASE models' = Append(models, thread[j].want)
    <3>1. models' \in Seq(Keys) /\ Len(models') = Len(models) + 1 /\ Once(models')
      BY <1>1, <1>2, <2>3, <2>5, Loaded
    <3> QED BY <1>1, <2>1, <2>2, <2>3, <3>1
  <2> QED BY <2>1, <2>4, <2>5
<1> QED BY <1>4, <1>5, <1>6, <1>7

\* What is so once the event loop took the first item of the queue.
Taken(t, b, o) ==
    LET item == Head(b) IN
    /\ Tail(b) \in Seq(Item) /\ item \in Item
    /\ item.kind = "chunk" =>
          /\ item.index = Len(o.got) + 1 /\ Append(o.got, item.index) \in Seq(Nat)
          /\ \A o2 \in Job : /\ o2.got = Append(o.got, item.index)
                             /\ o2.sentences = o.sentences
                             => /\ Flow(t, Tail(b), o2)
                                /\ \A i \in DOMAIN o2.got : o2.got[i] = i
    /\ item.kind = "end" => Len(o.got) = o.sentences

\* The event loop takes an item: the flow goes on, or the job is over.
LEMMA FlowTaken ==
    ASSUME NEW t, NEW b \in Seq(Item), NEW o \in Job, Flow(t, b, o), b # <<>>,
           Handed(t) \in Nat, \A i \in DOMAIN o.got : o.got[i] = i
    PROVE  Taken(t, b, o)
<1> DEFINE item == Head(b)
           c == Tail(b)
<1>1. PICK g \in Nat : g = Len(o.got) /\ o.got \in Seq(Nat) /\ DOMAIN o.got = 1..g
    BY LenProperties DEF Job
<1>2. PICK l \in Nat : l = Len(b) /\ DOMAIN b = 1..l /\ l > 0
    BY LenProperties, EmptySeq
<1>3. /\ c \in Seq(Item) /\ item \in Item /\ item = b[1]
      /\ Len(c) = l - 1 /\ \A i \in 1..(l - 1) : c[i] = b[i + 1]
    BY <1>2, HeadTailProperties
<1>4. DOMAIN c = 1..(l - 1)
    BY <1>3, LenProperties
<1> HIDE DEF c, item
<1>5. /\ t.at # "none"
      /\ \A i \in 1..l : b[i].kind = "chunk" => b[i].index = g + i
      /\ t.at \in Inside => g + l = Handed(t) /\ \A i \in 1..l : b[i].kind = "chunk"
      /\ \A i \in 1..l : b[i].kind = "end" =>
            (i > 1 /\ b[i - 1].kind = "error") \/ g + i - 1 = o.sentences
    BY <1>1, <1>2 DEF Flow
<1>6. 1 \in 1..l /\ \A i \in 1..(l - 1) : i + 1 \in 1..l
    BY <1>2
<1>7. item.kind = "end" => g = o.sentences
  <2>1. CASE item.kind = "end"
    <3>1. g + 1 - 1 = o.sentences
      BY <1>3, <1>5, <1>6, <2>1
    <3> QED BY <3>1
  <2> QED BY <2>1
<1>8. ASSUME item.kind = "chunk"
      PROVE  /\ item.index = g + 1 /\ Append(o.got, item.index) \in Seq(Nat)
             /\ \A o2 \in Job : /\ o2.got = Append(o.got, item.index)
                                /\ o2.sentences = o.sentences
                                => /\ Flow(t, c, o2)
                                   /\ \A i \in DOMAIN o2.got : o2.got[i] = i
  <2>1. item.index = g + 1
    BY <1>3, <1>5, <1>6, <1>8
  <2>2. g + 1 \in Nat
    OBVIOUS
  <2>3. Append(o.got, item.index) \in Seq(Nat)
    BY <1>1, <2>1, <2>2, AppendProperties
  <2> SUFFICES ASSUME NEW o2 \in Job, o2.got = Append(o.got, item.index),
                      o2.sentences = o.sentences
               PROVE  Flow(t, c, o2) /\ \A i \in DOMAIN o2.got : o2.got[i] = i
    BY <2>1, <2>3
  <2>4. /\ o2.got \in Seq(Nat) /\ Len(o2.got) = g + 1
        /\ \A i \in 1..g : o2.got[i] = o.got[i]
        /\ o2.got[g + 1] = g + 1
    BY <1>1, <2>1, <2>2, AppendProperties
  <2>5. DOMAIN o2.got = 1..(g + 1)
    BY <2>4, LenProperties
  <2>6. \A i \in DOMAIN o2.got : o2.got[i] = i
    BY <1>1, <2>4, <2>5
  <2>7. ASSUME NEW i \in 1..(l - 1), c[i].kind = "chunk" PROVE c[i].index = g + 1 + i
    BY <1>3, <1>5, <1>6, <2>7, SMTT(30)
  <2>8. ASSUME t.at \in Inside
        PROVE  g + 1 + (l - 1) = Handed(t) /\ \A i \in 1..(l - 1) : c[i].kind = "chunk"
    <3>1. g + l = Handed(t) /\ \A i \in 1..l : b[i].kind = "chunk"
      BY <1>5, <2>8
    <3>2. g + 1 + (l - 1) = g + l
      OBVIOUS
    <3>3. \A i \in 1..(l - 1) : c[i].kind = "chunk"
      BY <1>3, <1>6, <3>1, Zenon
    <3> QED BY <3>1, <3>2, <3>3
  <2>9. ASSUME NEW i \in 1..(l - 1), c[i].kind = "end"
        PROVE  (i > 1 /\ c[i - 1].kind = "error") \/ g + 1 + i - 1 = o.sentences
    <3>1. b[i + 1].kind = "end" /\ i + 1 \in 1..l
      BY <1>3, <1>6, <2>9
    <3>2. CASE g + (i + 1) - 1 = o.sentences
      BY <3>2
    <3>3. CASE b[(i + 1) - 1].kind = "error"
      <4>1. b[i].kind = "error"
        BY <3>3
      <4>2. i # 1
        BY <1>3, <1>8, <4>1
      <4>3. i > 1 /\ c[i - 1] = b[i]
        BY <1>3, <4>2
      <4> QED BY <4>1, <4>3
    <3> QED BY <1>5, <3>1, <3>2, <3>3
  <2>10. Flow(t, c, o2)
    BY <1>3, <1>4, <1>5, <2>4, <2>7, <2>8, <2>9 DEF Flow
  <2> QED BY <2>6, <2>10
<1> QED BY <1>1, <1>3, <1>7, <1>8 DEF c, item, Taken

\* Nothing runs while the worker boots.
LEMMA BootIsQuiet ==
    ASSUME EngineInv, loop = "boot"
    PROVE  loadLock = 0 /\ \A j \in JobIds : Untouched(j)
<1>1. current = 0 /\ Jobs \in Nat /\ loadLock \in 0..Jobs
    BY EngineAssumption DEF EngineInv, LoopOK, EngineTypeOK
<1>2. \A j \in JobIds : Untouched(j)
    BY <1>1 DEF EngineInv, LoopOK, JobIds
<1>3. \A j \in JobIds : loadLock # j
    BY <1>2 DEF EngineInv, ThreadsOK, Untouched
<1> QED BY <1>1, <1>2, <1>3 DEF JobIds

\* A warm-up, which is the only thread of its time.
LEMMA WarmupKeeps ==
    ASSUME EngineInv, WarmupVoice
    PROVE  EngineInv'
<1>1. /\ loop = "boot" /\ warmed' = warmed + 1 /\ warmed < Len(WarmupVoices)
      /\ UNCHANGED <<loadLock, inferLock, thread, bridge, current, loop, job>>
    BY Zenon DEF WarmupVoice
<1>2. /\ loadLock = 0 /\ models \in Seq(Keys) /\ Len(models) \in Nat
      /\ warmed \in Nat /\ Len(WarmupVoices) \in Nat /\ CacheSize \in Nat \ {0}
      /\ warmed \in 0..Len(WarmupVoices) /\ mishaps \in 0..EngineFaults /\ EngineFaults \in Nat
    BY <1>1, BootIsQuiet, EngineAssumption, LenProperties DEF EngineInv, EngineTypeOK
<1> DEFINE k == WarmupVoices[warmed + 1]
<1>3. k \in Keys
  <2>1. warmed + 1 \in 1..Len(WarmupVoices)
    BY <1>1, <1>2
  <2> QED BY <2>1, EngineAssumption, ElementOfSeq DEF Keys
<1>4. /\ \/ /\ models' = IF Cached(k) THEN move_to_end(models, k)
                         ELSE Append(evict_oldest(models), k)
            /\ mishaps' = mishaps
         \/ Mishap /\ models' \in {models, evict_oldest(models)}
    BY Zenon DEF WarmupVoice
<1> HIDE DEF k
<1>5. mishaps' \in 0..EngineFaults
    BY <1>2, <1>4 DEF Mishap
<1>6. Once(models) /\ Len(models) <= CacheSize
    BY <1>2 DEF EngineInv, ModelsOK, Once
<1>7. /\ evict_oldest(models) \in Seq(Keys) /\ Len(evict_oldest(models)) + 1 <= CacheSize
      /\ Len(evict_oldest(models)) \in Nat /\ Once(evict_oldest(models))
      /\ \A x : Holds(evict_oldest(models), x) => Holds(models, x)
    BY <1>2, <1>6, Evicted, LenProperties
<1>8. models' \in Seq(Keys) /\ Len(models') <= CacheSize /\ Once(models')
  <2>1. CASE models' = models
    BY <1>2, <1>6, <2>1
  <2>2. CASE models' = evict_oldest(models)
    BY <1>2, <1>7, <2>2
  <2>3. CASE Cached(k) /\ models' = move_to_end(models, k)
    <3>1. Holds(models, k)
      BY <2>3 DEF Cached, Holds
    <3> QED BY <1>2, <1>6, <2>3, <3>1, MovedToEnd
  <2>4. CASE ~Cached(k) /\ models' = Append(evict_oldest(models), k)
    <3>1. ~Holds(models, k)
      BY <2>4 DEF Cached, Holds
    <3>2. ~Holds(evict_oldest(models), k)
      BY <1>7, <3>1
    <3> DEFINE e == evict_oldest(models)
    <3>3. e \in Seq(Keys) /\ Once(e) /\ ~Holds(e, k) /\ Len(e) + 1 <= CacheSize
      BY <1>7, <3>2
    <3> HIDE DEF e
    <3>4. models' \in Seq(Keys) /\ Len(models') = Len(e) + 1 /\ Once(models')
      BY <1>3, <2>4, <3>3, Loaded DEF e
    <3> QED BY <3>3, <3>4
  <2> QED BY <1>4, <2>1, <2>2, <2>3, <2>4
<1>9. ModelsOK'
    BY <1>1, <1>2, <1>8, LenProperties DEF ModelsOK, Once
<1>10. warmed' \in 0..Len(WarmupVoices)
    BY <1>1, <1>2
<1>11. EngineTypeOK'
    BY <1>1, <1>5, <1>8, <1>10 DEF EngineInv, EngineTypeOK
<1>12. LoopOK' /\ ThreadsOK' /\ DoneIsWhole'
    BY <1>1 DEF EngineInv, LoopOK, ThreadsOK, DoneIsWhole, Untouched
<1> QED BY <1>9, <1>11, <1>12 DEF EngineInv

\* A step of a producer.
LEMMA ProduceKeeps ==
    ASSUME EngineInv, NEW j \in JobIds, Produce(j)
    PROVE  EngineInv'
<1>1. EngineTypeOK /\ ModelsOK /\ LoopOK /\ ThreadsOK /\ DoneIsWhole /\ LockOK
    BY DEF EngineInv, ThreadsOK, LockOK
<1>2. /\ thread' \in [JobIds -> Thread] /\ bridge' \in [JobIds -> Seq(Item)]
      /\ \A i \in JobIds : i # j => thread'[i] = thread[i] /\ bridge'[i] = bridge[i]
      /\ thread[j].at \in Inside /\ thread'[j].at # "none"
      /\ Standing(thread'[j], job[j])
      /\ job[j].fate = "running" => Flow(thread'[j], bridge'[j], job[j])
    BY <1>1, ProduceThreads
<1>3. models' \in Seq(Keys) /\ loadLock' \in 0..Jobs /\ ModelsOK' /\ LockOK'
    BY <1>1, <1>2, ProduceKeepsModels
<1>4. UNCHANGED <<current, loop, job, warmed>>
    BY Zenon DEF Produce
<1>5. inferLock' \in 0..Jobs /\ mishaps' \in 0..EngineFaults
  <2>1. inferLock' \in {inferLock, j, 0}
    BY Zenon
       DEF Produce, Scheduled, Load, Check, Get, Touch, Lock, Loading, Infer, Generate,
           Yield
  <2>2. Mishap \/ mishaps' = mishaps
    BY Zenon
       DEF Produce, Scheduled, Load, Check, Get, Touch, Lock, Loading, Infer, Generate,
           Yield
  <2> QED BY <1>1, <2>1, <2>2, EngineAssumption DEF EngineTypeOK, Mishap, JobIds
<1>6. EngineTypeOK'
    BY <1>1, <1>2, <1>3, <1>4, <1>5 DEF EngineTypeOK
<1>7. LoopOK'
  <2>1. ~(j > current)
    BY <1>1, <1>2 DEF LoopOK, Untouched, Inside
  <2>2. \A i \in JobIds : i > current => i # j
    BY <2>1
  <2> QED BY <1>1, <1>2, <1>4, <2>2 DEF LoopOK, Untouched
<1>8. ThreadsOK'
    BY <1>1, <1>2, <1>3, <1>4 DEF ThreadsOK, LockOK
<1>9. DoneIsWhole'
    BY <1>1, <1>4 DEF DoneIsWhole
<1> QED BY <1>3, <1>6, <1>7, <1>8, <1>9 DEF EngineInv

\* The next job.
LEMMA StartKeeps ==
    ASSUME EngineInv, StartJob
    PROVE  EngineInv'
<1>1. /\ loop = "idle" /\ current < Jobs /\ current' = current + 1 /\ loop' = "get"
      /\ UNCHANGED <<models, loadLock, inferLock, bridge, warmed, mishaps>>
    BY Zenon DEF StartJob
<1>2. /\ current \in 0..Jobs /\ Jobs \in Nat /\ JobIds = 1..Jobs /\ MaxSentences \in Nat
      /\ thread \in [JobIds -> Thread] /\ job \in [JobIds -> Job]
    BY EngineAssumption DEF EngineInv, EngineTypeOK, JobIds
<1> DEFINE c == current + 1
<1>3. c \in JobIds /\ c > current
    BY <1>1, <1>2
<1> HIDE DEF c
<1>4. PICK a \in Adapters \cup {NoAdapter}, n \in 0..MaxSentences :
          job' = [job EXCEPT ![c] =
                     [adapter |-> a, sentences |-> n, got |-> <<>>, fate |-> "running"]]
    BY Zenon DEF StartJob, c
<1> DEFINE o == [adapter |-> a, sentences |-> n, got |-> <<>>, fate |-> "running"]
           t == [thread[c] EXCEPT !.at = "queued"]
<1>5. o \in Job /\ o.got = <<>> /\ o.fate = "running" /\ o.sentences \in Nat
    BY <1>2 DEF Job
<1>6. job' = [job EXCEPT ![c] = o]
    BY <1>4
<1> HIDE DEF o
<1>7. /\ thread[c].at = "none" /\ thread[c].index = 0 /\ bridge[c] = <<>>
      /\ loadLock # c
    BY <1>3 DEF EngineInv, LoopOK, ThreadsOK, Standing, Untouched
<1>8. t \in Thread /\ t.at = "queued" /\ t.index = 0
    BY <1>2, <1>3, <1>7 DEF Thread, Inside
<1>9. thread' = [thread EXCEPT ![c] = t]
    BY DEF StartJob, c
<1> HIDE DEF t
<1>10. /\ thread' \in [JobIds -> Thread] /\ thread'[c] = t
       /\ job' \in [JobIds -> Job] /\ job'[c] = o
       /\ \A i \in JobIds : i # c => thread'[i] = thread[i] /\ job'[i] = job[i]
    BY <1>2, <1>3, <1>5, <1>6, <1>8, <1>9
<1>11. EngineTypeOK'
    BY <1>1, <1>2, <1>3, <1>10 DEF EngineInv, EngineTypeOK, c
<1>12. ModelsOK'
  <2>1. loadLock # 0 => thread'[loadLock] = thread[loadLock]
    BY <1>2, <1>7, <1>10 DEF EngineInv, EngineTypeOK
  <2> QED BY <1>1, <2>1 DEF EngineInv, ModelsOK, Cached
<1>13. LoopOK'
  <2>1. \A i \in JobIds : i > current' => i # c /\ i > current
    BY <1>1, <1>2 DEF c
  <2>2. current' = c /\ current' # 0
    BY <1>1, <1>2 DEF c
  <2>3. \A i \in JobIds : i # c => job[i].fate # "running"
    BY <1>1 DEF EngineInv, LoopOK
  <2>4. \A i \in JobIds : i > current' => Untouched(i)'
    BY <1>1, <1>10, <2>1 DEF EngineInv, LoopOK, Untouched
  <2> QED BY <1>1, <1>5, <1>10, <2>2, <2>3, <2>4 DEF LoopOK
<1>14. ThreadsOK'
  <2>1. Standing(t, o)
    BY <1>5, <1>8 DEF Standing
  <2>2. Flow(t, <<>>, o)
    BY <1>5, <1>8 DEF Flow, Handed
  <2> QED BY <1>1, <1>7, <1>8, <1>10, <2>1, <2>2 DEF EngineInv, ThreadsOK
<1>15. DoneIsWhole'
    BY <1>5, <1>10 DEF EngineInv, DoneIsWhole
<1> QED BY <1>11, <1>12, <1>13, <1>14, <1>15 DEF EngineInv

\* The event loop takes what is first in the queue of its job.
LEMMA GetKeeps ==
    ASSUME EngineInv, QueueGet
    PROVE  EngineInv'
<1> DEFINE c == current
           b == bridge[c]
           o == job[c]
           t == thread[c]
           item == Head(b)
<1>1. /\ loop = "get" /\ b # <<>> /\ bridge' = [bridge EXCEPT ![c] = Tail(b)]
      /\ UNCHANGED <<models, loadLock, inferLock, thread, current, warmed>>
      /\ \/ /\ item.kind = "chunk"
            /\ job' = [job EXCEPT ![c].got = Append(@, item.index)]
            /\ loop' = loop /\ mishaps' = mishaps
         \/ item.kind = "chunk" /\ Mishap /\ Close("failed")
         \/ item.kind = "error" /\ Close("failed") /\ mishaps' = mishaps
         \/ /\ item.kind = "end"
            /\ Close(IF o.got = <<>> THEN "empty" ELSE "done")
            /\ mishaps' = mishaps
    BY DEF QueueGet
<1>2. /\ c \in JobIds /\ job \in [JobIds -> Job] /\ bridge \in [JobIds -> Seq(Item)]
      /\ o \in Job /\ b \in Seq(Item) /\ t \in Thread /\ mishaps \in 0..EngineFaults
      /\ o.fate = "running" /\ Flow(t, b, o)
      /\ \A i \in DOMAIN o.got : o.got[i] = i
  <2>1. c \in JobIds
    BY <1>1, EngineAssumption DEF EngineInv, EngineTypeOK, LoopOK, JobIds
  <2>2. o.fate = "running"
    BY <1>1, <2>1 DEF EngineInv, LoopOK
  <2> QED BY <2>1, <2>2 DEF EngineInv, EngineTypeOK, ThreadsOK, DoneIsWhole
<1>3. Handed(t) \in Nat
    BY <1>2 DEF Handed, Thread
<1>4. /\ Tail(b) \in Seq(Item)
      /\ item.kind = "chunk" =>
            /\ item.index = Len(o.got) + 1 /\ Append(o.got, item.index) \in Seq(Nat)
            /\ \A o2 \in Job : /\ o2.got = Append(o.got, item.index)
                               /\ o2.sentences = o.sentences
                               => /\ Flow(t, Tail(b), o2)
                                  /\ \A i \in DOMAIN o2.got : o2.got[i] = i
      /\ item.kind = "end" => Len(o.got) = o.sentences
  <2>1. Taken(t, b, o)
    <3> HIDE DEF t, b, o, item
    <3> QED BY <1>1, <1>2, <1>3, FlowTaken
  <2> QED BY <2>1, Zenon DEF Taken
<1> DEFINE b2 == Tail(b)
<1> HIDE DEF item, b2
<1>5. /\ bridge' \in [JobIds -> Seq(Item)] /\ bridge'[c] = b2
      /\ \A i \in JobIds : i # c => bridge'[i] = bridge[i]
    BY <1>1, <1>2, <1>4 DEF b2
<1>6. PICK o2 \in Job :
          /\ job' = [job EXCEPT ![c] = o2]
          /\ o2.sentences = o.sentences
          /\ \A i \in DOMAIN o2.got : o2.got[i] = i
          /\ \/ o2.fate = "running" /\ loop' = "get" /\ Flow(t, b2, o2)
             \/ o2.fate \in {"done", "empty", "failed"} /\ loop' = "idle"
          /\ o2.fate = "done" => Len(o2.got) = o2.sentences
          /\ mishaps' = mishaps \/ Mishap
  <2>1. CASE /\ item.kind = "chunk"
             /\ job' = [job EXCEPT ![c].got = Append(@, item.index)]
             /\ loop' = loop /\ mishaps' = mishaps
    <3> DEFINE g == Append(o.got, item.index)
               r == [o EXCEPT !.got = g]
    <3>1. job' = [job EXCEPT ![c] = r]
      BY <2>1
    <3>2. g \in Seq(Nat)
      BY <1>4, <2>1
    <3>3. r \in Job /\ r.got = g /\ r.sentences = o.sentences /\ r.fate = "running"
      <4> HIDE DEF g
      <4> QED BY <1>2, <3>2 DEF Job
    <3> HIDE DEF r
    <3>4. Flow(t, b2, r) /\ \A i \in DOMAIN r.got : r.got[i] = i
      BY <1>4, <2>1, <3>3 DEF b2
    <3> HIDE DEF g
    <3> QED BY <1>1, <2>1, <3>1, <3>3, <3>4
  <2>2. ASSUME NEW f \in {"done", "empty", "failed"}, Close(f),
               f = "done" => Len(o.got) = o.sentences, mishaps' = mishaps \/ Mishap
        PROVE  \E o2 \in Job :
                  /\ job' = [job EXCEPT ![c] = o2]
                  /\ o2.sentences = o.sentences
                  /\ \A i \in DOMAIN o2.got : o2.got[i] = i
                  /\ \/ o2.fate = "running" /\ loop' = "get" /\ Flow(t, b2, o2)
                     \/ o2.fate \in {"done", "empty", "failed"} /\ loop' = "idle"
                  /\ o2.fate = "done" => Len(o2.got) = o2.sentences
                  /\ mishaps' = mishaps \/ Mishap
    <3> DEFINE r == [o EXCEPT !.fate = f]
    <3>1. job' = [job EXCEPT ![c] = r] /\ loop' = "idle"
      BY <2>2 DEF Close
    <3>2. r \in Job /\ r.got = o.got /\ r.sentences = o.sentences /\ r.fate = f
      BY <1>2 DEF Job
    <3> HIDE DEF r
    <3> QED BY <1>2, <2>2, <3>1, <3>2
  <2> QED BY <1>1, <1>4, <2>1, <2>2
<1>7. /\ job' \in [JobIds -> Job] /\ job'[c] = o2
      /\ \A i \in JobIds : i # c => job'[i] = job[i]
    BY <1>2, <1>6
<1>8. mishaps' \in 0..EngineFaults
    BY <1>2, <1>6, EngineAssumption DEF Mishap
<1>9. EngineTypeOK'
    BY <1>1, <1>5, <1>6, <1>7, <1>8 DEF EngineInv, EngineTypeOK
<1>10. ModelsOK'
    BY <1>1 DEF EngineInv, ModelsOK, Cached
<1>11. LoopOK'
  <2>1. \A i \in JobIds : i > current' => i # c /\ i > current
    BY <1>1, <1>2 DEF JobIds
  <2>2. \A i \in JobIds : i > current' => Untouched(i)'
    BY <1>1, <1>5, <1>7, <2>1 DEF EngineInv, LoopOK, Untouched
  <2>3. current' # 0 /\ current' = c
    BY <1>1 DEF EngineInv, LoopOK
  <2>4. \A i \in JobIds : i # c => job'[i].fate # "running"
    BY <1>7 DEF EngineInv, LoopOK
  <2> QED BY <1>6, <1>7, <2>2, <2>3, <2>4 DEF LoopOK
<1>12. ThreadsOK'
  <2>1. Standing(t, o2)
    BY <1>2, <1>6 DEF EngineInv, ThreadsOK, Standing
  <2>2. \A i \in JobIds : i # c => job'[i].fate # "running"
    BY <1>1, <1>7 DEF EngineInv, LoopOK
  <2>3. o2.fate = "running" => Flow(t, b2, o2)
    BY <1>6
  <2> QED BY <1>1, <1>5, <1>7, <2>1, <2>2, <2>3 DEF EngineInv, ThreadsOK
<1>13. DoneIsWhole'
    BY <1>6, <1>7 DEF EngineInv, DoneIsWhole
<1> QED BY <1>9, <1>10, <1>11, <1>12, <1>13 DEF EngineInv

\* The invariant is inductive.
LEMMA EngineInductive ==
    /\ EngineInit => EngineInv
    /\ EngineInv /\ [EngineNext]_engineVars => EngineInv'
<1>1. ASSUME EngineInit PROVE EngineInv
  <2>1. EngineTypeOK
    <3>1. models \in Seq(Keys) /\ bridge \in [JobIds -> Seq(Item)]
      <4>1. <<>> \in Seq(Item) /\ <<>> \in Seq(Keys)
        OBVIOUS
      <4>2. Base \in Keys
        BY DEF Keys
      <4>3. <<Base>> \in Seq(Keys)
        BY <4>2
      <4> QED BY <1>1, <4>1, <4>3 DEF EngineInit
    <3>2. thread \in [JobIds -> Thread]
      BY <1>1 DEF EngineInit, Thread, Keys
    <3>3. job \in [JobIds -> Job]
      BY <1>1 DEF EngineInit, Job
    <3>4. warmed \in 0..Len(WarmupVoices)
      <4>1. Len(WarmupVoices) \in Nat
        BY EngineAssumption, LenProperties
      <4> QED BY <1>1, <4>1 DEF EngineInit
    <3> QED BY <1>1, <3>1, <3>2, <3>3, <3>4, EngineAssumption DEF EngineInit, EngineTypeOK
  <2>2. ModelsOK
    <3>1. models = <<>> \/ models = <<Base>>
      BY <1>1 DEF EngineInit
    <3>2. loadLock = 0 /\ CacheSize \in Nat \ {0}
      BY <1>1, EngineAssumption DEF EngineInit
    <3>3. CASE models = <<>>
      BY <3>2, <3>3 DEF ModelsOK
    <3>4. CASE models = <<Base>>
      <4>1. Len(models) = 1 /\ DOMAIN models = {1}
        BY <3>4
      <4> QED BY <3>2, <4>1 DEF ModelsOK
    <3> QED BY <3>1, <3>3, <3>4
  <2>3. LoopOK
    BY <1>1 DEF EngineInit, LoopOK, Untouched, JobIds
  <2>4. ThreadsOK
    BY <1>1, EngineAssumption DEF EngineInit, ThreadsOK, Standing, Inside, JobIds
  <2>5. DoneIsWhole
    BY <1>1 DEF EngineInit, DoneIsWhole
  <2> QED BY <2>1, <2>2, <2>3, <2>4, <2>5 DEF EngineInv
<1>2. ASSUME EngineInv, [EngineNext]_engineVars PROVE EngineInv'
  <2>1. CASE BootReady
    <3>1. /\ loop = "boot" /\ loop' = "idle"
          /\ UNCHANGED <<models, loadLock, inferLock, thread, bridge, current, job, warmed,
                         mishaps>>
      BY <2>1 DEF BootReady
    <3>2. EngineTypeOK' /\ ModelsOK' /\ ThreadsOK' /\ DoneIsWhole'
      BY <1>2, <3>1
         DEF EngineInv, EngineTypeOK, ModelsOK, Cached, ThreadsOK, DoneIsWhole
    <3>3. LoopOK'
      BY <1>2, <3>1 DEF EngineInv, LoopOK, Untouched
    <3> QED BY <3>2, <3>3 DEF EngineInv
  <2>2. CASE UNCHANGED engineVars
    <3>1. UNCHANGED <<models, loadLock, inferLock, thread, bridge, current, loop, job, warmed,
                      mishaps>>
      BY <2>2 DEF engineVars
    <3>2. EngineTypeOK' /\ ModelsOK' /\ ThreadsOK' /\ DoneIsWhole'
      BY <1>2, <3>1
         DEF EngineInv, EngineTypeOK, ModelsOK, Cached, ThreadsOK, DoneIsWhole
    <3>3. LoopOK'
      BY <1>2, <3>1 DEF EngineInv, LoopOK, Untouched
    <3> QED BY <3>2, <3>3 DEF EngineInv
  <2> QED BY <1>2, <2>1, <2>2, WarmupKeeps, StartKeeps, GetKeeps, ProduceKeeps DEF EngineNext
<1> QED BY <1>1, <1>2

\* The engine's cache (_get_or_load_model): for any number of jobs, threads and models, those
\* cached and the one being loaded fit the budget.
THEOREM ModelsFit == EngineSpec => []EngineSound
<1>1. EngineInv => EngineSound
  <2> SUFFICES ASSUME EngineInv PROVE EngineSound
    OBVIOUS
  <2> DEFINE L == {j \in JobIds : thread[j].at = "loading"}
  <2>1. /\ L = IF loadLock = 0 THEN {} ELSE {loadLock}
        /\ Len(models) + (IF loadLock = 0 THEN 0 ELSE 1) <= CacheSize
    BY EngineAssumption DEF EngineInv, EngineTypeOK, ThreadsOK, ModelsOK, JobIds
  <2> HIDE DEF L
  <2>2. Cardinality(L) = IF loadLock = 0 THEN 0 ELSE 1
    BY <2>1, FS_EmptySet, FS_Singleton
  <2>3. CacheWithinBudget
    BY <2>1, <2>2 DEF CacheWithinBudget, L
  <2> QED BY <2>3 DEF EngineSound, EngineInv
<1> QED BY <1>1, EngineInductive, PTL DEF EngineSpec

\* What process_one_job publishes of a text: its audio from the start, in order, and all of
\* it when the job is done, whatever the threads of other jobs do.
THEOREM WholeText == EngineSpec => []DoneIsWhole
<1>1. EngineInv => DoneIsWhole
    BY DEF EngineInv
<1> QED BY <1>1, EngineInductive, PTL DEF EngineSpec

\* The double-checked locking of _get_or_load_model: a thread starts to load only what is not
\* in the cache.
THEOREM LoadedOnce == EngineSpec => OneCopyPerModel
<1>1. ASSUME EngineInv, [EngineNext]_engineVars
      PROVE  [\A j \in JobIds :
                 thread[j].at # "loading" /\ thread'[j].at = "loading"
                 => ~Cached(thread[j].want)]_engineVars
  <2> SUFFICES ASSUME NEW j \in JobIds, thread[j].at # "loading", thread'[j].at = "loading",
                      EngineNext
               PROVE  ~Cached(thread[j].want)
    BY <1>1 DEF engineVars
  <2>1. EngineTypeOK /\ ThreadsOK /\ thread \in [JobIds -> Thread]
    BY <1>1 DEF EngineInv, EngineTypeOK
  <2>2. ASSUME NEW i \in JobIds, Produce(i) PROVE ~Cached(thread[j].want)
    <3>1. i = j
      BY <2>1, <2>2, ProduceThreads
    <3> QED BY <2>1, <2>2, <3>1, ProduceModels DEF KeepsLock, TakesLock, FreesLock
  <2>3. CASE WarmupVoice \/ BootReady \/ QueueGet
    BY <2>3 DEF WarmupVoice, BootReady, QueueGet
  <2>4. CASE StartJob
    <3> DEFINE c == current + 1
               t == [thread[c] EXCEPT !.at = "queued"]
    <3>1. thread' = [thread EXCEPT ![c] = t]
      BY <2>4 DEF StartJob
    <3>2. t.at = "queued" \/ c \notin JobIds
      BY <2>1 DEF Thread
    <3> HIDE DEF t
    <3> QED BY <2>1, <3>1, <3>2
  <2> QED BY <2>2, <2>3, <2>4 DEF EngineNext
<1> QED BY <1>1, EngineInductive, PTL DEF EngineSpec, OneCopyPerModel

-----------------------------------------------------------------------------
(* The reference cache.  What a clean-up adds up is left out of the types  *)
(* here; the section on the size of the directory adds it.                 *)

Places == {"idle", "fast", "stat", "lock", "recheck", "restat", "download",
           "replace", "scan", "evict", "resolve"}

\* A record of Fetch, whatever its total.
Shaped(r) == r \in [at : Places, uri : Uris, seen : SUBSET Uris, total : {r.total},
                    raced : BOOLEAN, answer : {"none", "ok", "missing", "error"}]

UnderLock == {"recheck", "restat", "download", "replace", "scan", "evict"}
Found == {"stat", "restat", "scan", "evict", "resolve"}

\* A thread t with record r: holders have the lock of its reference, mine is its .part file,
\* and the reference is there or not.
FetchFine(t, r, holders, mine, there) ==
    /\ Shaped(r)
    /\ r.at \in UnderLock => holders = {t}
    /\ r.at \in {"fast", "lock", "recheck"} => r.total = 0
    /\ r.at = "download" =>
          r.total \in Nat /\ r.total < Size[r.uri] /\ mine = 1..r.total
    /\ r.at = "replace" => mine = Blocks(r.uri)
    /\ r.at \in Found => there \/ r.raced
    /\ r.at = "evict" => r.uri \notin r.seen
    /\ r.answer = "missing" => r.raced

FetchFormOK ==
    /\ files \in [Uris -> SUBSET Nat]
    /\ parts \in [Names -> SUBSET Nat]
    /\ uriLock \in [Processes \X Uris -> SUBSET Fetchers]
    /\ fetch = [t \in Fetchers |-> fetch[t]]

CacheInv ==
    /\ FetchFormOK
    /\ FilesAreWhole
    /\ \A t \in Fetchers :
          FetchFine(t, fetch[t], uriLock[LockOf(t)], parts[t], InCache(fetch[t].uri))

\* What a step of one thread does to the state it shares with the others.
LEMMA OwnStep ==
    ASSUME CacheInv, NEW t \in Fetchers, NEW r, NEW u \in Uris, u = fetch[t].uri,
           fetch' = [fetch EXCEPT ![t] = r],
           \/ uriLock' = uriLock
           \/ uriLock' = [uriLock EXCEPT ![<<ProcessOf[t], u>>] = uriLock[<<ProcessOf[t], u>>] \ {t}]
           \/ /\ uriLock[<<ProcessOf[t], u>>] = {}
              /\ uriLock' = [uriLock EXCEPT ![<<ProcessOf[t], u>>] = {t}],
           \/ parts' = parts
           \/ \E p \in SUBSET Nat : parts' = [parts EXCEPT ![t] = p],
           files' = files \/ files' = [files EXCEPT ![u] = Blocks(u)],
           FetchFine(t, r, uriLock'[<<ProcessOf[t], r.uri>>], parts'[t], files'[r.uri] # {})
    PROVE  CacheInv'
<1>1. /\ files \in [Uris -> SUBSET Nat] /\ parts \in [Names -> SUBSET Nat]
      /\ uriLock \in [Processes \X Uris -> SUBSET Fetchers]
      /\ fetch = [x \in Fetchers |-> fetch[x]]
      /\ FilesAreWhole /\ t \in Names /\ <<ProcessOf[t], u>> \in Processes \X Uris
    BY DEF CacheInv, FetchFormOK, Names, Processes
<1>2. Blocks(u) \in SUBSET Nat /\ Blocks(u) # {}
  <2>1. Size[u] \in Nat \ {0}
    BY R2CacheAssumption
  <2>2. 1 \in 1..Size[u]
    BY <2>1
  <2> QED BY <2>1, <2>2 DEF Blocks
<1>3. /\ files' \in [Uris -> SUBSET Nat] /\ \A v \in Uris : files[v] # {} => files'[v] # {}
      /\ \A v \in Uris : files'[v] = files[v] \/ files'[v] = Blocks(v)
    BY <1>1, <1>2
<1>4. /\ parts' \in [Names -> SUBSET Nat]
      /\ \A x \in Names : x # t => parts'[x] = parts[x]
    BY <1>1
<1>5. fetch' = [x \in Fetchers |-> fetch'[x]] /\ fetch'[t] = r
      /\ \A x \in Fetchers : x # t => fetch'[x] = fetch[x]
    BY <1>1
<1>6. uriLock' \in [Processes \X Uris -> SUBSET Fetchers]
    <2> DEFINE l == <<ProcessOf[t], u>>
    <2>1. /\ l \in Processes \X Uris
          /\ \/ uriLock' = uriLock \/ uriLock' = [uriLock EXCEPT ![l] = uriLock[l] \ {t}]
             \/ uriLock' = [uriLock EXCEPT ![l] = {t}]
      BY <1>1
    <2> HIDE DEF l
    <2> QED BY <1>1, <2>1
<1>7. FilesAreWhole'
    BY <1>1, <1>3 DEF FilesAreWhole, InCache
<1>8. ASSUME NEW x \in Fetchers, x # t
      PROVE  FetchFine(x, fetch[x], uriLock'[LockOf(x)], parts[x], files'[fetch[x].uri] # {})
  <2> DEFINE l == uriLock[LockOf(x)]
  <2>1. /\ FetchFine(x, fetch[x], l, parts[x], files[fetch[x].uri] # {})
        /\ fetch[x].uri \in Uris /\ LockOf(x) \in Processes \X Uris
    BY DEF CacheInv, InCache, FetchFine, Shaped, LockOf, Processes
  <2>2. uriLock'[LockOf(x)] = l \/ uriLock'[LockOf(x)] = l \ {t} \/ l = {}
    BY <1>1, <2>1
  <2>3. l = {x} => uriLock'[LockOf(x)] = {x}
    BY <1>8, <2>2
  <2>4. files[fetch[x].uri] # {} => files'[fetch[x].uri] # {}
    BY <1>3, <2>1
  <2> HIDE DEF l
  <2> QED BY <2>1, <2>3, <2>4 DEF FetchFine
<1>9. ASSUME NEW x \in Fetchers
      PROVE  FetchFine(x, fetch[x], uriLock[LockOf(x)], parts[x], InCache(fetch[x].uri))'
  <2>1. CASE x = t
    BY <1>5, <2>1 DEF LockOf, InCache
  <2>2. CASE x # t
    <3>1. /\ fetch'[x] = fetch[x] /\ parts'[x] = parts[x]
          /\ <<ProcessOf[x], fetch'[x].uri>> = LockOf(x)
      BY <1>4, <1>5, <2>2 DEF Names, LockOf
    <3> QED BY <1>8, <2>2, <3>1 DEF LockOf, InCache
  <2> QED BY <2>1, <2>2
<1> QED BY <1>3, <1>4, <1>5, <1>6, <1>7, <1>9 DEF CacheInv, FetchFormOK

\* The forms of Step and Answer.
Moved(r, at) == [r EXCEPT !.at = at]
Answered(r, a) == [[r EXCEPT !.at = "idle"] EXCEPT !.answer = a]

\* A record that moves keeps everything but its place.
LEMMA MovedForm ==
    ASSUME NEW r, Shaped(r), NEW at \in Places
    PROVE  /\ Shaped(Moved(r, at)) /\ Moved(r, at).at = at /\ Moved(r, at).uri = r.uri
           /\ Moved(r, at).seen = r.seen /\ Moved(r, at).total = r.total
           /\ Moved(r, at).raced = r.raced /\ Moved(r, at).answer = r.answer
    BY DEF Shaped, Moved

\* A record that is answered is idle, and keeps its reference and its history.
LEMMA AnsweredForm ==
    ASSUME NEW r, Shaped(r), NEW a \in {"none", "ok", "missing", "error"}
    PROVE  /\ Shaped(Answered(r, a)) /\ Answered(r, a).at = "idle" /\ Answered(r, a).uri = r.uri
           /\ Answered(r, a).raced = r.raced /\ Answered(r, a).answer = a
           /\ Answered(r, a).total = r.total
<1> DEFINE q == Moved(r, "idle")
<1>1. /\ Shaped(q) /\ q.at = "idle" /\ q.uri = r.uri /\ q.raced = r.raced
      /\ q.total = r.total
    BY MovedForm DEF Places
<1> HIDE DEF q
<1>2. LET p == [q EXCEPT !.answer = a] IN
      /\ Shaped(p) /\ p.at = "idle" /\ p.uri = r.uri /\ p.raced = r.raced /\ p.answer = a
      /\ p.total = r.total
    BY <1>1 DEF Shaped
<1>3. Answered(r, a) = [q EXCEPT !.answer = a]
    BY DEF Answered, Moved, q
<1> QED BY <1>2, <1>3

\* Step, by the record it leaves.
LEMMA StepForm ==
    ASSUME NEW t \in Fetchers, NEW at, Step(t, at)
    PROVE  fetch' = [fetch EXCEPT ![t] = Moved(fetch[t], at)]
    BY DEF Step, Moved

\* Answer, by the record it leaves.
LEMMA AnswerForm ==
    ASSUME NEW t \in Fetchers, NEW a, Answer(t, a)
    PROVE  fetch' = [fetch EXCEPT ![t] = Answered(fetch[t], a)]
    BY DEF Answer, Answered

\* The steps of a thread that only read, or take and release its lock.
LEMMA ReadStep ==
    ASSUME CacheInv, NEW t \in Fetchers,
           FastPath(t) \/ Stat(t) \/ TakeLock(t) \/ Recheck(t) \/ Restat(t) \/ Resolve(t)
    PROVE  CacheInv'
<1> DEFINE r == fetch[t]
           u == r.uri
           k == <<ProcessOf[t], u>>
<1>1. /\ Shaped(r) /\ u \in Uris /\ k \in Processes \X Uris
      /\ FetchFine(t, r, uriLock[k], parts[t], files[u] # {})
      /\ uriLock \in [Processes \X Uris -> SUBSET Fetchers] /\ t \in Names
      /\ parts \in [Names -> SUBSET Nat]
    BY DEF CacheInv, FetchFormOK, LockOf, InCache, FetchFine, Shaped, Processes, Names
<1>2. \A at \in Places : /\ Shaped(Moved(r, at)) /\ Moved(r, at).at = at
                         /\ Moved(r, at).uri = u /\ Moved(r, at).seen = r.seen
                         /\ Moved(r, at).total = r.total /\ Moved(r, at).raced = r.raced
                         /\ Moved(r, at).answer = r.answer
    BY <1>1, MovedForm
<1>3. \A a \in {"ok", "missing"} : /\ Shaped(Answered(r, a)) /\ Answered(r, a).at = "idle"
                                   /\ Answered(r, a).uri = u /\ Answered(r, a).raced = r.raced
                                   /\ Answered(r, a).answer = a
    BY <1>1, AnsweredForm
<1>4. CASE FastPath(t)
  <2> DEFINE at == IF files[u] # {} THEN "stat" ELSE "lock"
             q == Moved(r, at)
  <2>1. /\ r.at = "fast" /\ fetch' = [fetch EXCEPT ![t] = q]
        /\ UNCHANGED <<files, parts, uriLock>>
    BY <1>4, StepForm DEF FastPath, InCache
  <2>2. FetchFine(t, q, uriLock[k], parts[t], files[u] # {}) /\ q.uri = u
    <3>1. /\ Shaped(q) /\ q.at = at /\ q.uri = u /\ q.total = r.total
          /\ q.raced = r.raced /\ q.answer = r.answer
      BY <1>2 DEF Places
    <3>2. r.total = 0 /\ (r.answer = "missing" => r.raced)
      BY <1>1, <2>1 DEF FetchFine
    <3>3. at = "lock" \/ (at = "stat" /\ files[u] # {})
      OBVIOUS
    <3> HIDE DEF q, at
    <3> QED BY <3>1, <3>2, <3>3 DEF FetchFine, UnderLock, Found
  <2> HIDE DEF q, at
  <2>3. FetchFine(t, q, uriLock'[<<ProcessOf[t], q.uri>>], parts'[t], files'[q.uri] # {})
    BY <2>1, <2>2
  <2> QED BY <1>1, <2>1, <2>3, OwnStep
<1>5. CASE Stat(t) \/ Resolve(t)
  <2> DEFINE q == IF files[u] = {} THEN Answered(r, "missing")
                  ELSE IF r.at = "stat" THEN Moved(r, "resolve") ELSE Answered(r, "ok")
  <2>1. r.at \in {"stat", "resolve"} /\ UNCHANGED <<files, parts, uriLock>>
    BY <1>5 DEF Stat, Resolve
  <2>2. fetch' = [fetch EXCEPT ![t] = q]
    BY <1>5, StepForm, AnswerForm DEF Stat, Resolve, InCache
  <2>3. FetchFine(t, q, uriLock[k], parts[t], files[u] # {}) /\ q.uri = u
    <3>1. CASE files[u] = {}
      BY <1>1, <1>3, <2>1, <3>1 DEF FetchFine, UnderLock, Found
    <3>2. CASE files[u] # {} /\ r.at = "stat"
      <4>1. /\ Shaped(q) /\ q.at = "resolve" /\ q.uri = u
            /\ q.raced = r.raced /\ q.answer = r.answer
        BY <1>2, <3>2 DEF Places
      <4>2. r.answer = "missing" => r.raced
        BY <1>1 DEF FetchFine
      <4> HIDE DEF q
      <4> QED BY <3>2, <4>1, <4>2 DEF FetchFine, UnderLock, Found
    <3>3. CASE files[u] # {} /\ r.at # "stat"
      BY <1>1, <1>3, <2>1, <3>3 DEF FetchFine, UnderLock, Found
    <3> QED BY <3>1, <3>2, <3>3
  <2> HIDE DEF q
  <2> QED BY <1>1, <2>1, <2>2, <2>3, OwnStep
<1>6. CASE TakeLock(t)
  <2> DEFINE q == Moved(r, "recheck")
  <2>1. /\ r.at = "lock" /\ uriLock[k] = {} /\ uriLock' = [uriLock EXCEPT ![k] = {t}]
        /\ UNCHANGED <<files, parts>> /\ fetch' = [fetch EXCEPT ![t] = q]
    BY <1>6, StepForm DEF TakeLock, LockOf
  <2>2. uriLock'[k] = {t}
    BY <1>1, <2>1
  <2>3. FetchFine(t, q, {t}, parts[t], files[u] # {}) /\ q.uri = u
    BY <1>1, <1>2, <2>1 DEF FetchFine, UnderLock, Found, Places
  <2> HIDE DEF q
  <2> QED BY <1>1, <2>1, <2>2, <2>3, OwnStep
<1>7. CASE Recheck(t)
  <2> DEFINE q == Moved(r, IF files[u] # {} THEN "restat" ELSE "download")
  <2>1. /\ r.at = "recheck" /\ UNCHANGED <<files, uriLock>>
        /\ fetch' = [fetch EXCEPT ![t] = q]
        /\ parts' = IF files[u] # {} THEN parts ELSE [parts EXCEPT ![t] = {}]
    BY <1>7, StepForm DEF Recheck, InCache, tmp_name
  <2>2. r.total = 0 /\ uriLock[k] = {t} /\ Size[u] \in Nat \ {0}
    BY <1>1, <2>1, R2CacheAssumption DEF FetchFine, UnderLock
  <2>3. CASE files[u] # {}
    <3>1. FetchFine(t, q, uriLock[k], parts[t], files[u] # {}) /\ q.uri = u
      <4>1. /\ Shaped(q) /\ q.at = "restat" /\ q.uri = u
            /\ q.raced = r.raced /\ q.answer = r.answer
        BY <1>2, <2>3 DEF Places
      <4>2. r.answer = "missing" => r.raced
        BY <1>1 DEF FetchFine
      <4> HIDE DEF q
      <4> QED BY <2>2, <2>3, <4>1, <4>2 DEF FetchFine, UnderLock, Found
    <3> HIDE DEF q
    <3> QED BY <1>1, <2>1, <2>3, <3>1, OwnStep
  <2>4. CASE files[u] = {}
    <3>1. parts'[t] = {} /\ {} = 1..0
      BY <1>1, <2>1, <2>4
    <3>2. FetchFine(t, q, uriLock[k], {}, files[u] # {}) /\ q.uri = u
      <4>1. /\ Shaped(q) /\ q.at = "download" /\ q.uri = u /\ q.total = 0
            /\ q.raced = r.raced /\ q.answer = r.answer
        BY <1>2, <2>2, <2>4 DEF Places
      <4>2. r.answer = "missing" => r.raced
        BY <1>1 DEF FetchFine
      <4> HIDE DEF q
      <4> QED BY <2>2, <3>1, <4>1, <4>2 DEF FetchFine, UnderLock, Found
    <3>3. \E p \in SUBSET Nat : parts' = [parts EXCEPT ![t] = p]
      BY <2>1, <2>4
    <3> HIDE DEF q
    <3> QED BY <1>1, <2>1, <3>1, <3>2, <3>3, OwnStep
  <2> QED BY <2>3, <2>4
<1>8. CASE Restat(t)
  <2> DEFINE q == IF files[u] = {} THEN Answered(r, "missing") ELSE Moved(r, "resolve")
  <2>1. r.at = "restat" /\ UNCHANGED <<files, parts>>
        /\ uriLock' = [uriLock EXCEPT ![k] = uriLock[k] \ {t}]
    BY <1>8 DEF Restat, Release, LockOf
  <2>2. fetch' = [fetch EXCEPT ![t] = q]
    BY <1>8, StepForm, AnswerForm DEF Restat, InCache
  <2>3. FetchFine(t, q, uriLock'[k], parts[t], files[u] # {}) /\ q.uri = u
    <3>1. CASE files[u] = {}
      BY <1>1, <1>3, <2>1, <3>1 DEF FetchFine, UnderLock, Found
    <3>2. CASE files[u] # {}
      <4>1. /\ Shaped(q) /\ q.at = "resolve" /\ q.uri = u /\ q.answer = r.answer
            /\ q.raced = r.raced
        BY <1>2, <3>2 DEF Places
      <4>2. r.answer = "missing" => r.raced
        BY <1>1 DEF FetchFine
      <4> HIDE DEF q
      <4> QED BY <3>2, <4>1, <4>2 DEF FetchFine, UnderLock, Found
    <3> QED BY <3>1, <3>2
  <2> HIDE DEF q
  <2> QED BY <1>1, <2>1, <2>2, <2>3, OwnStep
<1> QED BY <1>4, <1>5, <1>6, <1>7, <1>8

\* A block more of a download.
Grown(r, n, at) == [[r EXCEPT !.total = n] EXCEPT !.at = at]

\* A block more changes the count and the place.
LEMMA GrownForm ==
    ASSUME NEW r, Shaped(r), NEW n, NEW at \in Places
    PROVE  /\ Shaped(Grown(r, n, at)) /\ Grown(r, n, at).at = at
           /\ Grown(r, n, at).uri = r.uri /\ Grown(r, n, at).total = n
           /\ Grown(r, n, at).raced = r.raced /\ Grown(r, n, at).answer = r.answer
<1> DEFINE q == [r EXCEPT !.total = n]
<1>1. Shaped(q) /\ q.uri = r.uri /\ q.total = n /\ q.raced = r.raced /\ q.answer = r.answer
    BY DEF Shaped
<1>2. Grown(r, n, at) = Moved(q, at)
    BY DEF Grown, Moved
<1> HIDE DEF q
<1> QED BY <1>1, <1>2, MovedForm

\* The download, its failure, and the file under its final name.
LEMMA LoadStep ==
    ASSUME CacheInv, NEW t \in Fetchers, Download(t) \/ DownloadFails(t) \/ Replace(t)
    PROVE  CacheInv'
<1> DEFINE r == fetch[t]
           u == r.uri
           k == <<ProcessOf[t], u>>
<1>1. /\ Shaped(r) /\ u \in Uris /\ k \in Processes \X Uris
      /\ FetchFine(t, r, uriLock[k], parts[t], files[u] # {})
      /\ uriLock \in [Processes \X Uris -> SUBSET Fetchers] /\ t \in Names
      /\ parts \in [Names -> SUBSET Nat] /\ parts[t] \in SUBSET Nat
      /\ files \in [Uris -> SUBSET Nat]
      /\ Size[u] \in Nat \ {0}
    BY R2CacheAssumption
       DEF CacheInv, FetchFormOK, LockOf, InCache, FetchFine, Shaped, Processes, Names
<1>2. CASE Download(t)
  <2> DEFINE n == r.total + 1
             at == IF n = Size[u] THEN "replace" ELSE "download"
             q == Grown(r, n, at)
             p == parts[t] \cup {n}
  <2>1. r.at = "download" /\ UNCHANGED <<files, uriLock>> /\ parts' = [parts EXCEPT ![t] = p]
    BY <1>2 DEF Download, tmp_name
  <2>2. fetch' = [fetch EXCEPT ![t] = q]
    BY <1>2 DEF Download, Grown
  <2>3. r.total \in Nat /\ r.total < Size[u] /\ parts[t] = 1..r.total /\ uriLock[k] = {t}
    BY <1>1, <2>1 DEF FetchFine, UnderLock
  <2>4. p = 1..n /\ n \in Nat /\ p \in SUBSET Nat
    BY <2>3
  <2>5. /\ at \in Places /\ at \in {"replace", "download"}
        /\ at = "download" => n < Size[u]
    BY <1>1, <2>3 DEF Places
  <2>6. at = "replace" => p = Blocks(u)
    BY <2>4 DEF Blocks
  <2>7. /\ Shaped(q) /\ q.at = at /\ q.uri = u /\ q.total = n /\ q.raced = r.raced
        /\ q.answer = r.answer
    <3> HIDE DEF n, at
    <3> QED BY <1>1, <2>5, GrownForm
  <2> HIDE DEF n, at, q, p
  <2>8. FetchFine(t, q, uriLock[k], p, files[u] # {})
    BY <1>1, <2>1, <2>3, <2>4, <2>5, <2>6, <2>7 DEF FetchFine, UnderLock, Found
  <2>9. parts'[t] = p /\ \E x \in SUBSET Nat : parts' = [parts EXCEPT ![t] = x]
    BY <1>1, <2>1, <2>4
  <2>10. FetchFine(t, q, uriLock'[<<ProcessOf[t], q.uri>>], parts'[t], files'[q.uri] # {})
    BY <2>1, <2>7, <2>8, <2>9
  <2> QED BY <1>1, <2>1, <2>2, <2>9, <2>10, OwnStep
<1>3. CASE DownloadFails(t)
  <2> DEFINE q == Answered(r, "error")
  <2>1. /\ r.at = "download" /\ files' = files /\ parts' = [parts EXCEPT ![t] = {}]
        /\ uriLock' = [uriLock EXCEPT ![k] = uriLock[k] \ {t}]
    BY <1>3 DEF DownloadFails, tmp_name, Release, LockOf
  <2>2. fetch' = [fetch EXCEPT ![t] = q]
    BY <1>3, AnswerForm DEF DownloadFails
  <2>3. Shaped(q) /\ q.at = "idle" /\ q.uri = u /\ q.answer = "error"
    BY <1>1, AnsweredForm
  <2> HIDE DEF q
  <2>4. \A l, x : FetchFine(t, q, l, x, files[u] # {})
    BY <2>3 DEF FetchFine, UnderLock, Found
  <2>5. \E x \in SUBSET Nat : parts' = [parts EXCEPT ![t] = x]
    BY <2>1
  <2>6. FetchFine(t, q, uriLock'[<<ProcessOf[t], q.uri>>], parts'[t], files'[q.uri] # {})
    BY <2>1, <2>3, <2>4
  <2> QED BY <1>1, <2>1, <2>2, <2>5, <2>6, OwnStep
<1>4. CASE Replace(t)
  <2> DEFINE q == Moved(r, "scan")
  <2>1. /\ r.at = "replace" /\ files' = [files EXCEPT ![u] = parts[t]]
        /\ parts' = [parts EXCEPT ![t] = {}] /\ uriLock' = uriLock
    BY <1>4 DEF Replace, tmp_name
  <2>2. fetch' = [fetch EXCEPT ![t] = q]
    BY <1>4, StepForm DEF Replace
  <2>4. /\ Shaped(q) /\ q.at = "scan" /\ q.uri = u /\ q.answer = r.answer
        /\ q.raced = r.raced
    BY <1>1, MovedForm DEF Places
  <2> HIDE DEF q
  <2>5. 1 \in 1..Size[u]
    BY <1>1
  <2>7. parts[t] = Blocks(u) /\ uriLock[k] = {t}
    BY <1>1, <2>1 DEF FetchFine, UnderLock
  <2>6. files'[u] # {} /\ files' = [files EXCEPT ![u] = Blocks(u)]
    BY <1>1, <2>1, <2>5, <2>7 DEF Blocks
  <2>8. r.answer = "missing" => r.raced
    BY <1>1 DEF FetchFine
  <2>9. \A x : FetchFine(t, q, {t}, x, TRUE)
    BY <2>4, <2>8 DEF FetchFine, UnderLock, Found
  <2>10. \E x \in SUBSET Nat : parts' = [parts EXCEPT ![t] = x]
    BY <2>1
  <2>11. FetchFine(t, q, uriLock'[<<ProcessOf[t], q.uri>>], parts'[t], files'[q.uri] # {})
    BY <2>1, <2>4, <2>6, <2>7, <2>9
  <2> QED BY <1>1, <2>1, <2>2, <2>6, <2>10, <2>11, OwnStep
<1> QED BY <1>2, <1>3, <1>4

\* A record after a part of the clean-up.
Cleaned(r, at, seen, total) ==
    [[[r EXCEPT !.at = at] EXCEPT !.seen = seen] EXCEPT !.total = total]

\* A part of the clean-up changes the place, the listing and the count.
LEMMA CleanedForm ==
    ASSUME NEW r, Shaped(r), NEW at \in Places, NEW seen \in SUBSET Uris, NEW total
    PROVE  LET q == Cleaned(r, at, seen, total) IN
           Shaped(q) /\ q.at = at /\ q.uri = r.uri /\ q.seen = seen /\ q.raced = r.raced
           /\ q.answer = r.answer /\ q.total = total
<1> DEFINE p == Moved(r, at)
           s == [p EXCEPT !.seen = seen]
           q == [s EXCEPT !.total = total]
<1>1. Shaped(p) /\ p.at = at /\ p.uri = r.uri /\ p.raced = r.raced /\ p.answer = r.answer
    BY MovedForm
<1>2. Cleaned(r, at, seen, total) = q
    BY DEF Cleaned, Moved
<1> HIDE DEF p
<1>3. /\ Shaped(s) /\ s.at = at /\ s.uri = r.uri /\ s.seen = seen /\ s.raced = r.raced
      /\ s.answer = r.answer
    BY <1>1 DEF Shaped
<1> HIDE DEF s
<1>4. /\ Shaped(q) /\ q.at = at /\ q.uri = r.uri /\ q.seen = seen /\ q.raced = r.raced
      /\ q.answer = r.answer /\ q.total = total
    BY <1>3 DEF Shaped
<1> QED BY <1>2, <1>4

\* A call, and the listing of the directory.
LEMMA CallStep ==
    ASSUME CacheInv, NEW t \in Fetchers, Call(t) \/ Scan(t)
    PROVE  CacheInv'
<1> DEFINE r == fetch[t]
           u == r.uri
           k == <<ProcessOf[t], u>>
<1>1. /\ Shaped(r) /\ u \in Uris /\ k \in Processes \X Uris
      /\ FetchFine(t, r, uriLock[k], parts[t], files[u] # {})
      /\ uriLock \in [Processes \X Uris -> SUBSET Fetchers] /\ t \in Names
    BY DEF CacheInv, FetchFormOK, LockOf, InCache, FetchFine, Shaped, Processes, Names
<1>2. CASE Call(t)
  <2>1. PICK v \in Uris : fetch' = [fetch EXCEPT ![t] = [Idle(v) EXCEPT !.at = "fast"]]
    BY <1>2 DEF Call
  <2> DEFINE q == [Idle(v) EXCEPT !.at = "fast"]
  <2>2. UNCHANGED <<files, parts, uriLock>>
    BY <1>2 DEF Call
  <2>3. Shaped(q) /\ q.at = "fast" /\ q.uri = v /\ q.total = 0 /\ q.answer = "none"
    BY DEF Idle, Shaped, Places
  <2> HIDE DEF q
  <2>4. \A l, x, y : FetchFine(t, q, l, x, y)
    BY <2>3 DEF FetchFine, UnderLock, Found
  <2>5. fetch' = [fetch EXCEPT ![t] = q]
    BY <2>1 DEF q
  <2> QED BY <1>1, <2>2, <2>4, <2>5, OwnStep
<1>3. CASE Scan(t)
  <2> DEFINE us == {x \in Uris : InCache(x)}
             done == CacheMax = 0 \/ Enough(Total(us)) \/ Victims(t, us) = {}
             at == IF done THEN "resolve" ELSE "evict"
             seen == IF done THEN {} ELSE Victims(t, us)
             total == IF done THEN 0 ELSE Total(us)
             q == Cleaned(r, at, seen, total)
  <2>1. r.at = "scan" /\ UNCHANGED <<files, parts>>
    BY <1>3, Zenon DEF Scan
  <2>2. IF done THEN Release(t) ELSE uriLock' = uriLock
    BY <1>3, Zenon DEF Scan
  <2>3. fetch' = [fetch EXCEPT ![t].at = at, ![t].seen = seen, ![t].total = total]
    BY <1>3, Zenon DEF Scan
  <2>4. seen \in SUBSET Uris /\ u \notin seen
    BY DEF Victims
  <2> HIDE DEF seen, total, done, us
  <2>6. fetch' = [fetch EXCEPT ![t] = q]
    BY <2>3 DEF Cleaned
  <2>7. /\ at \in {"resolve", "evict"} /\ at \in Places
        /\ at = "evict" => ~done
    BY DEF Places
  <2> HIDE DEF at
  <2>8. /\ Shaped(q) /\ q.at = at /\ q.uri = u /\ q.seen = seen /\ q.raced = r.raced
        /\ q.answer = r.answer
    BY <1>1, <2>4, <2>7, CleanedForm
  <2> HIDE DEF q
  <2>9. uriLock' = uriLock \/ uriLock' = [uriLock EXCEPT ![k] = uriLock[k] \ {t}]
    BY <2>2 DEF Release, LockOf
  <2>10. at = "evict" => uriLock' = uriLock
    BY <2>2, <2>7
  <2>11. /\ uriLock[k] = {t}
         /\ files[u] # {} \/ r.raced
         /\ r.answer = "missing" => r.raced
    BY <1>1, <2>1 DEF FetchFine, UnderLock, Found
  <2>12. FetchFine(t, q, uriLock'[<<ProcessOf[t], q.uri>>], parts'[t], files'[q.uri] # {})
    <3>1. at = "evict" => uriLock'[k] = {t}
      BY <2>10, <2>11
    <3>2. FetchFine(t, q, uriLock'[k], parts[t], files[u] # {})
      BY <2>4, <2>7, <2>8, <2>11, <3>1 DEF FetchFine, UnderLock, Found
    <3> QED BY <2>1, <2>8, <3>2
  <2> QED BY <1>1, <2>1, <2>6, <2>9, <2>12, OwnStep
<1> QED BY <1>2, <1>3

\* A file that a clean-up takes from under a call.
Marked(r, b) == [r EXCEPT !.raced = b]

\* Marking a record changes nothing else of it.
LEMMA MarkedForm ==
    ASSUME NEW r, Shaped(r), NEW b \in BOOLEAN
    PROVE  /\ Shaped(Marked(r, b)) /\ Marked(r, b).at = r.at /\ Marked(r, b).uri = r.uri
           /\ Marked(r, b).total = r.total /\ Marked(r, b).seen = r.seen
           /\ Marked(r, b).answer = r.answer /\ Marked(r, b).raced = b
BY DEF Shaped, Marked

\* One file of a clean-up is unlinked: whoever counted on it is marked.
LEMMA EvictStep ==
    ASSUME CacheInv, NEW t \in Fetchers, Evict(t)
    PROVE  CacheInv'
<1> DEFINE r == fetch[t]
           u == r.uri
           k == <<ProcessOf[t], u>>
<1>1. /\ Shaped(r) /\ u \in Uris /\ k \in Processes \X Uris /\ k = LockOf(t)
      /\ FetchFine(t, r, uriLock[k], parts[t], files[u] # {})
      /\ uriLock \in [Processes \X Uris -> SUBSET Fetchers] /\ t \in Names
      /\ files \in [Uris -> SUBSET Nat] /\ parts \in [Names -> SUBSET Nat]
      /\ FilesAreWhole
    BY DEF CacheInv, FetchFormOK, LockOf, InCache, FetchFine, Shaped, Processes, Names
<1>2. r.at = "evict" /\ parts' = parts
    BY Zenon DEF Evict
<1> DEFINE seen(v) == r.seen \ {v}
           total(v) == r.total - Cardinality(files[v])
           done(v) == Enough(total(v)) \/ seen(v) = {}
           at(v) == IF done(v) THEN "resolve" ELSE "evict"
           left(v) == IF done(v) THEN {} ELSE seen(v)
           sum(v) == IF done(v) THEN 0 ELSE total(v)
           lost(x, v) == fetch[x].raced \/ (fetch[x].at # "idle" /\ fetch[x].uri = v)
<1>3. PICK v \in r.seen :
         /\ files' = [files EXCEPT ![v] = {}]
         /\ fetch' = [x \in Fetchers |->
               IF x = t THEN [fetch[t] EXCEPT !.at = at(v), !.seen = left(v), !.total = sum(v)]
               ELSE [fetch[x] EXCEPT
                        !.raced = fetch[x].raced \/ (fetch[x].at # "idle" /\ fetch[x].uri = v)]]
         /\ IF done(v) THEN Release(t) ELSE UNCHANGED uriLock
    BY Zenon DEF Evict
<1>4. v \in Uris /\ v # u /\ left(v) \in SUBSET Uris /\ u \notin left(v)
    BY <1>1, <1>2 DEF Shaped, FetchFine
<1>5. at(v) \in {"resolve", "evict"} /\ at(v) \in Places /\ (at(v) = "evict" => ~done(v))
    BY DEF Places
<1>6. /\ fetch' = [x \in Fetchers |-> fetch'[x]]
      /\ fetch'[t] = [fetch[t] EXCEPT !.at = at(v), !.seen = left(v), !.total = sum(v)]
      /\ \A x \in Fetchers : x # t => fetch'[x] = Marked(fetch[x], lost(x, v))
    <2> HIDE DEF at, left, sum
    <2> QED BY <1>3 DEF Marked
<1>7. /\ \A y \in Processes \X Uris : uriLock'[y] = uriLock[y] \/ uriLock'[y] = uriLock[y] \ {t}
      /\ at(v) = "evict" => uriLock'[k] = uriLock[k]
      /\ uriLock' \in [Processes \X Uris -> SUBSET Fetchers]
    <2>1. IF done(v) THEN Release(t) ELSE UNCHANGED uriLock
      BY <1>3, Zenon
    <2> HIDE DEF done, at
    <2>2. CASE done(v)
      <3>1. uriLock' = [uriLock EXCEPT ![k] = uriLock[k] \ {t}]
        BY <1>1, <2>1, <2>2 DEF Release
      <3> QED BY <1>1, <1>5, <2>2, <3>1
    <2>3. CASE ~done(v)
      BY <1>1, <2>1, <2>3
    <2> QED BY <2>2, <2>3
<1> DEFINE q == Cleaned(r, at(v), left(v), sum(v))
<1>8. fetch'[t] = q
    <2> HIDE DEF at, left, sum
    <2> QED BY <1>6 DEF Cleaned
<1> HIDE DEF at, left, sum, done
<1>9. /\ Shaped(q) /\ q.at = at(v) /\ q.uri = u /\ q.seen = left(v) /\ q.raced = r.raced
      /\ q.answer = r.answer
    BY <1>1, <1>4, <1>5, CleanedForm
<1> HIDE DEF q
<1>10. /\ uriLock[k] = {t}
       /\ files[u] # {} \/ r.raced
       /\ r.answer = "missing" => r.raced
    BY <1>1, <1>2 DEF FetchFine, UnderLock, Found
<1>11. /\ files' \in [Uris -> SUBSET Nat] /\ FilesAreWhole'
       /\ \A w \in Uris : w # v => files'[w] = files[w]
    BY <1>1, <1>3 DEF FilesAreWhole, InCache
<1>12. FetchFine(t, q, uriLock'[k], parts[t], files'[u] # {})
    <2>1. files'[u] = files[u] /\ (at(v) = "evict" => uriLock'[k] = {t})
      <3> HIDE DEF lost
      <3>1. files'[u] = files[u]
        BY <1>1, <1>4, <1>11
      <3> QED BY <1>7, <1>10, <3>1
    <2> QED BY <1>4, <1>5, <1>9, <1>10, <2>1 DEF FetchFine, UnderLock, Found
<1>13. ASSUME NEW x \in Fetchers, x # t, NEW s, s = fetch[x],
              NEW m, m = Marked(s, lost(x, v))
       PROVE  FetchFine(x, m, uriLock'[LockOf(x)], parts[x], files'[s.uri] # {})
  <2> DEFINE l == uriLock[LockOf(x)]
  <2>1. /\ FetchFine(x, s, l, parts[x], files[s.uri] # {})
        /\ Shaped(s) /\ s.uri \in Uris /\ LockOf(x) \in Processes \X Uris
    BY <1>13 DEF CacheInv, InCache, FetchFine, Shaped, LockOf, Processes
  <2>2. l = {x} => uriLock'[LockOf(x)] = {x}
    <3> HIDE DEF lost
    <3>1. uriLock'[LockOf(x)] = l \/ uriLock'[LockOf(x)] = l \ {t}
      BY <1>7, <2>1
    <3> QED BY <1>13, <3>1
  <2>3. lost(x, v) \in BOOLEAN
    BY <1>13, <2>1 DEF Shaped
  <2>4. /\ Shaped(m) /\ m.at = s.at /\ m.uri = s.uri /\ m.total = s.total /\ m.seen = s.seen
        /\ m.answer = s.answer /\ m.raced = lost(x, v)
    BY <1>13, <2>1, <2>3, MarkedForm
  <2>5. s.raced => m.raced
    BY <1>13, <2>4
  <2>6. files[s.uri] # {} /\ s.at # "idle" => files'[s.uri] # {} \/ m.raced
    BY <1>11, <1>13, <2>1, <2>4
  <2> HIDE DEF l, lost
  <2> QED BY <2>1, <2>2, <2>4, <2>5, <2>6 DEF FetchFine, UnderLock, Found
<1>14. ASSUME NEW x \in Fetchers
       PROVE  FetchFine(x, fetch[x], uriLock[LockOf(x)], parts[x], InCache(fetch[x].uri))'
  <2>1. CASE x = t
    BY <1>2, <1>8, <1>9, <1>12, <2>1 DEF LockOf, InCache
  <2>2. CASE x # t
    <3> DEFINE m == Marked(fetch[x], lost(x, v))
    <3>1. fetch[x].raced \in BOOLEAN /\ Shaped(fetch[x])
      BY DEF CacheInv, FetchFine, Shaped
    <3>2. m.uri = fetch[x].uri
      BY <3>1, MarkedForm
    <3>3. fetch'[x] = m /\ parts'[x] = parts[x] /\ <<ProcessOf[x], fetch'[x].uri>> = LockOf(x)
      BY <1>2, <1>6, <2>2, <3>2 DEF LockOf
    <3>4. FetchFine(x, m, uriLock'[LockOf(x)], parts[x], files'[fetch[x].uri] # {})
      BY <1>13, <2>2
    <3> HIDE DEF m
    <3> QED BY <3>2, <3>3, <3>4 DEF LockOf, InCache
  <2> QED BY <2>1, <2>2
<1> QED BY <1>1, <1>2, <1>6, <1>7, <1>11, <1>14 DEF CacheInv, FetchFormOK

\* A process dies: its calls are over, its locks are free and its .part files are abandoned.
LEMMA DiesStep ==
    ASSUME CacheInv, ProcessDies
    PROVE  CacheInv'
<1>1. PICK p \in Processes :
         /\ uriLock' = [l \in DOMAIN uriLock |-> IF l[1] = p THEN {} ELSE uriLock[l]]
         /\ fetch' = [t \in Fetchers |-> IF ProcessOf[t] = p THEN Idle(fetch[t].uri) ELSE fetch[t]]
         /\ parts' = [n \in Names |-> IF n \in Fetchers /\ ProcessOf[n] = p THEN {} ELSE parts[n]]
    BY Zenon DEF ProcessDies
<1>2. files' = files
    BY DEF ProcessDies
<1>3. /\ files \in [Uris -> SUBSET Nat] /\ parts \in [Names -> SUBSET Nat]
      /\ uriLock \in [Processes \X Uris -> SUBSET Fetchers]
      /\ FilesAreWhole
    BY DEF CacheInv, FetchFormOK
<1>4. /\ parts' \in [Names -> SUBSET Nat]
      /\ uriLock' \in [Processes \X Uris -> SUBSET Fetchers]
      /\ fetch' = [t \in Fetchers |-> fetch'[t]]
      /\ FilesAreWhole'
    BY <1>1, <1>2, <1>3 DEF FilesAreWhole, InCache
<1>5. ASSUME NEW t \in Fetchers
      PROVE  FetchFine(t, fetch[t], uriLock[LockOf(t)], parts[t], InCache(fetch[t].uri))'
  <2> DEFINE r == fetch[t]
             k == <<ProcessOf[t], r.uri>>
  <2>1. /\ Shaped(r) /\ r.uri \in Uris /\ k \in Processes \X Uris /\ k[1] = ProcessOf[t]
        /\ FetchFine(t, r, uriLock[k], parts[t], files[r.uri] # {})
    BY DEF CacheInv, LockOf, InCache, FetchFine, Shaped, Processes
  <2>2. CASE ProcessOf[t] = p
    <3> DEFINE q == Idle(r.uri)
    <3>1. fetch'[t] = q
      BY <1>1, <2>2
    <3>2. Shaped(q) /\ q.at = "idle" /\ q.answer = "none"
      BY <2>1 DEF Shaped, Idle, Places
    <3> HIDE DEF q
    <3>3. \A l, m, b : FetchFine(t, q, l, m, b)
      BY <3>2 DEF FetchFine, UnderLock, Found
    <3> QED BY <3>1, <3>3 DEF LockOf, InCache
  <2>3. CASE ProcessOf[t] # p
    <3>1. fetch'[t] = r /\ parts'[t] = parts[t] /\ uriLock'[k] = uriLock[k]
      BY <1>1, <1>3, <2>1, <2>3 DEF Names
    <3>2. <<ProcessOf[t], fetch'[t].uri>> = k
      BY <3>1
    <3> HIDE DEF k
    <3> QED BY <1>2, <2>1, <3>1, <3>2 DEF LockOf, InCache
  <2> QED BY <2>2, <2>3
<1> QED BY <1>2, <1>3, <1>4, <1>5 DEF CacheInv, FetchFormOK

\* The cache, in every state.
LEMMA CacheInductive == CacheSpec => []CacheInv
<1>1. CacheInit => CacheInv
  <2> SUFFICES ASSUME CacheInit PROVE CacheInv
    OBVIOUS
  <2>1. PICK u \in Uris : fetch = [t \in Fetchers |-> Idle(u)]
    BY R2CacheAssumption DEF CacheInit
  <2>2. FetchFormOK /\ FilesAreWhole
    BY <2>1 DEF CacheInit, FetchFormOK, FilesAreWhole, InCache
  <2> DEFINE q == Idle(u)
  <2>3. Shaped(q) /\ q.at = "idle" /\ q.answer = "none"
    BY DEF Shaped, Idle, Places
  <2>4. \A t \in Fetchers : fetch[t] = q
    BY <2>1
  <2> HIDE DEF q
  <2>5. \A t, l, m, b : FetchFine(t, q, l, m, b)
    BY <2>3 DEF FetchFine, UnderLock, Found
  <2> QED BY <2>2, <2>4, <2>5 DEF CacheInv
<1>2. CacheInv /\ [CacheNext]_cacheVars => CacheInv'
  <2> SUFFICES ASSUME CacheInv, [CacheNext]_cacheVars PROVE CacheInv'
    OBVIOUS
  <2>1. ASSUME NEW t \in Fetchers, Call(t) \/ FetchStep(t) PROVE CacheInv'
    BY <2>1, ReadStep, LoadStep, CallStep, EvictStep DEF FetchStep
  <2>2. CASE UNCHANGED <<files, parts, uriLock, fetch>>
    BY <2>2 DEF CacheInv, FetchFormOK, FilesAreWhole, InCache, LockOf
  <2>3. Delete \/ UNCHANGED cacheVars => UNCHANGED <<files, parts, uriLock, fetch>>
    BY DEF Delete, cacheVars
  <2> QED BY <2>1, <2>2, <2>3, DiesStep DEF CacheNext
<1> QED BY <1>1, <1>2, PTL DEF CacheSpec

\* A file under its final name is the whole object, two threads of a process never pull
\* one object at once, and a reference is reported missing only when somebody else's
\* clean-up took it during the call (download_to_cache, resolve_reference_uri).
THEOREM FetchesSound == CacheSpec => []FetchSound
<1>1. CacheInv => FetchSound
  <2> SUFFICES ASSUME CacheInv PROVE FetchSound
    OBVIOUS
  <2>1. FilesAreWhole /\ MissingMeansRaced
    BY DEF CacheInv, MissingMeansRaced, FetchFine
  <2>2. ASSUME NEW s \in Fetchers, NEW t \in Fetchers, s # t, ProcessOf[s] = ProcessOf[t],
               fetch[s].uri = fetch[t].uri, fetch[s].at \in {"download", "replace"},
               fetch[t].at \in {"download", "replace"}
        PROVE  FALSE
    <3>1. uriLock[LockOf(s)] = {s} /\ uriLock[LockOf(t)] = {t}
      BY <2>2 DEF CacheInv, FetchFine, UnderLock
    <3>2. LockOf(s) = LockOf(t)
      BY <2>2 DEF LockOf
    <3> QED BY <2>2, <3>1, <3>2
  <2> QED BY <2>1, <2>2 DEF FetchSound, OneDownloadPerProcess
<1> QED BY <1>1, CacheInductive, PTL

-----------------------------------------------------------------------------
(* The size of the directory: what the clean-ups count.                    *)

\* The files in the cache, the blocks of whole files, and the bytes there are.
Kept == {u \in Uris : InCache(u)}
All(us) == UNION {{u} \X Blocks(u) : u \in us}
Bytes(us) == Cardinality(All(us))

\* What a clean-up counts covers what it goes through.
SumOK(r) ==
    /\ r.total \in Nat
    /\ r.at = "evict" => IsFiniteSet(All(r.seen)) /\ Bytes(r.seen) <= r.total

\* A thread that will see to the limit: it has yet to list the directory, or its listing
\* has every file that is there, and it counts no less than they have.
Tidies(r) ==
    \/ r.at = "scan"
    \/ r.at = "evict" /\ Kept \subseteq r.seen \cup {r.uri} /\ Bytes(Kept) <= r.total

\* The directory is as it should be.
Tidy == Bytes(Kept) <= CacheMax \/ \E u : Kept \subseteq {u}

CountsOK ==
    /\ objects \subseteq Uris
    /\ fetches \in 0..MaxFetches
    /\ troubles \in 0..CacheFaults

LimitInv ==
    /\ CountsOK
    /\ IsFiniteSet(All(Kept))
    /\ \A t \in Fetchers : SumOK(fetch[t])
    /\ troubles = 0 /\ CacheMax > 0 => Tidy \/ \E t \in Fetchers : Tidies(fetch[t])

\* The blocks of some files are part of those of more.
LEMMA AllParts ==
    ASSUME NEW S, NEW T, S \subseteq T, IsFiniteSet(All(T))
    PROVE  /\ IsFiniteSet(All(S)) /\ Bytes(S) \in Nat /\ Bytes(T) \in Nat
           /\ Bytes(S) <= Bytes(T)
<1>1. All(S) \in SUBSET All(T)
    BY DEF All
<1> QED BY <1>1, FS_Subset, FS_CardinalityType DEF Bytes

\* The blocks of one file.
LEMMA AllOfOne ==
    ASSUME NEW u \in Uris
    PROVE  IsFiniteSet({u} \X Blocks(u)) /\ Cardinality({u} \X Blocks(u)) = Size[u]
           /\ Cardinality(Blocks(u)) = Size[u] /\ Size[u] \in Nat
<1>1. PICK n \in Nat : n = Size[u]
    BY R2CacheAssumption
<1>2. IsFiniteSet(1..n) /\ Cardinality(1..n) = n
    BY FS_Interval
<1>3. IsFiniteSet({u}) /\ Cardinality({u}) = 1
    BY FS_Singleton
<1>4. /\ IsFiniteSet({u} \X (1..n))
      /\ Cardinality({u} \X (1..n)) = Cardinality({u}) * Cardinality(1..n)
    BY <1>2, <1>3, FS_Product, Zenon
<1>5. Cardinality({u} \X (1..n)) = n
    BY <1>2, <1>3, <1>4
<1> QED BY <1>1, <1>2, <1>4, <1>5 DEF Blocks

\* A file more.
LEMMA AllAdds ==
    ASSUME NEW S, NEW u \in Uris, IsFiniteSet(All(S))
    PROVE  IsFiniteSet(All(S \cup {u}))
<1> DEFINE B == {u} \X Blocks(u)
<1>1. All(S \cup {u}) = All(S) \cup B
    BY DEF All
<1>2. IsFiniteSet(B)
    BY AllOfOne
<1> HIDE DEF B
<1>3. IsFiniteSet(All(S) \cup B)
    BY <1>2, FS_Union
<1> QED BY <1>1, <1>3

\* A file less.
LEMMA AllLoses ==
    ASSUME NEW S, NEW u \in Uris, u \in S, IsFiniteSet(All(S))
    PROVE  Bytes(S \ {u}) + Size[u] = Bytes(S)
<1> DEFINE A == All(S \ {u})
           B == {u} \X Blocks(u)
<1>1. All(S) = A \cup B /\ A \cap B = {}
    BY DEF All
<1>2. IsFiniteSet(A) /\ IsFiniteSet(B) /\ Cardinality(B) = Size[u]
    BY AllParts, AllOfOne
<1>3. Size[u] \in Nat
    BY AllOfOne
<1> HIDE DEF A, B
<1>4. Cardinality(A \cup B) = Cardinality(A) + Cardinality(B) - Cardinality(A \cap B)
    BY <1>2, FS_Union
<1>5. Cardinality(A \cap B) = 0 /\ Cardinality(A) \in Nat
    BY <1>1, <1>2, FS_EmptySet, FS_CardinalityType
<1>6. Cardinality(A) + Size[u] = Cardinality(A \cup B)
    BY <1>2, <1>3, <1>4, <1>5
<1> QED BY <1>1, <1>6 DEF Bytes, A

\* Whole files: what is counted is what they have.
LEMMA WholeTotal ==
    ASSUME FilesAreWhole
    PROVE  Total(Kept) = Bytes(Kept)
<1>1. UNION {{u} \X files[u] : u \in Kept} = All(Kept)
    BY DEF FilesAreWhole, Kept, All
<1> QED BY <1>1 DEF Total, Bytes

\* What the counters may become.
LEMMA CountsStep ==
    ASSUME CountsOK, [CacheNext]_cacheVars
    PROVE  CountsOK' /\ (troubles' = 0 => troubles = 0)
<1>1. MaxFetches \in Nat /\ CacheFaults \in Nat /\ fetches \in 0..MaxFetches
      /\ troubles \in 0..CacheFaults /\ objects \subseteq Uris
    BY R2CacheAssumption DEF CountsOK
<1>2. ASSUME Trouble \/ UNCHANGED troubles
      PROVE  troubles' \in 0..CacheFaults /\ (troubles' = 0 => troubles = 0)
    BY <1>1, <1>2 DEF Trouble
<1>3. ASSUME NEW t \in Fetchers, Call(t)
      PROVE  CountsOK' /\ (troubles' = 0 => troubles = 0)
    BY <1>1, <1>3 DEF Call, CountsOK
<1>4. ASSUME NEW t \in Fetchers, FetchStep(t)
      PROVE  CountsOK' /\ (troubles' = 0 => troubles = 0)
  <2>1. UNCHANGED <<objects, fetches>>
    BY <1>4, Zenon DEF FetchStep, FastPath, Stat, TakeLock, Recheck, Restat, Download,
                DownloadFails, Replace, Scan, Evict, Resolve
  <2>2. Trouble \/ UNCHANGED troubles
    BY <1>4, Zenon DEF FetchStep, FastPath, Stat, TakeLock, Recheck, Restat, Download,
                DownloadFails, Replace, Scan, Evict, Resolve
  <2> QED BY <1>1, <1>2, <2>1, <2>2 DEF CountsOK
<1>5. CASE Delete
    BY <1>1, <1>2, <1>5 DEF Delete, CountsOK
<1>6. CASE ProcessDies
    BY <1>1, <1>2, <1>6 DEF ProcessDies, CountsOK
<1>7. CASE UNCHANGED cacheVars
    BY <1>1, <1>7 DEF cacheVars, CountsOK
<1> QED BY <1>3, <1>4, <1>5, <1>6, <1>7 DEF CacheNext

\* A thread that neither is at the clean-up nor comes to it.
LEMMA PlainForm ==
    ASSUME CacheInv, LimitInv, CountsOK', troubles' = 0 => troubles = 0, files' = files,
           NEW t \in Fetchers, NEW q, fetch' = [fetch EXCEPT ![t] = q],
           fetch[t].at \notin {"scan", "evict"}, q.at # "evict", q.total \in Nat
    PROVE  LimitInv'
<1>1. /\ fetch'[t] = q /\ \A x \in Fetchers : x # t => fetch'[x] = fetch[x]
    BY DEF CacheInv, FetchFormOK
<1>2. Kept' = Kept
    BY DEF Kept, InCache
<1>3. Bytes(Kept)' = Bytes(Kept) /\ All(Kept)' = All(Kept)
    BY <1>2 DEF Bytes, All, Blocks
<1>4. ASSUME NEW x \in Fetchers PROVE SumOK(fetch[x])'
  <2>1. CASE x = t
    BY <1>1, <2>1 DEF SumOK
  <2>2. CASE x # t
    BY <1>1, <2>2 DEF SumOK, LimitInv, Bytes, All, Blocks
  <2> QED BY <2>1, <2>2
<1>5. ASSUME NEW x \in Fetchers, Tidies(fetch[x]) PROVE Tidies(fetch[x])'
  <2>1. x # t
    BY <1>5 DEF Tidies
  <2> QED BY <1>1, <1>2, <1>3, <1>5, <2>1 DEF Tidies
<1>6. Tidy => Tidy'
    BY <1>2, <1>3 DEF Tidy
<1> QED BY <1>3, <1>4, <1>5, <1>6 DEF LimitInv

\* Everything a thread does but the replacement and the clean-up.
LEMMA PlainStep ==
    ASSUME CacheInv, LimitInv, CountsOK', troubles' = 0 => troubles = 0, NEW t \in Fetchers,
           \/ Call(t) \/ FastPath(t) \/ Stat(t) \/ TakeLock(t) \/ Recheck(t) \/ Restat(t)
           \/ Download(t) \/ DownloadFails(t) \/ Resolve(t)
    PROVE  LimitInv'
<1> DEFINE r == fetch[t]
<1>1. Shaped(r) /\ r.total \in Nat
    BY DEF CacheInv, FetchFine, LimitInv, SumOK
<1>2. files' = files
    BY Zenon DEF Call, FastPath, Stat, TakeLock, Recheck, Restat, Download, DownloadFails, Resolve
<1>3. r.at \notin {"scan", "evict"}
    BY DEF Call, FastPath, Stat, TakeLock, Recheck, Restat, Download, DownloadFails, Resolve
<1>4. ASSUME NEW at \in Places, at # "evict", Step(t, at) PROVE LimitInv'
  <2>1. fetch' = [fetch EXCEPT ![t] = Moved(r, at)]
    BY <1>4, StepForm
  <2>2. Moved(r, at).at = at /\ Moved(r, at).total = r.total
    BY <1>1, <1>4, MovedForm
  <2> QED BY <1>1, <1>2, <1>3, <1>4, <2>1, <2>2, PlainForm
<1>5. ASSUME NEW a \in {"ok", "missing", "error"}, Answer(t, a) PROVE LimitInv'
  <2>1. fetch' = [fetch EXCEPT ![t] = Answered(r, a)]
    BY <1>5, AnswerForm
  <2>2. Answered(r, a).at = "idle" /\ Answered(r, a).total = r.total
    BY <1>1, <1>5, AnsweredForm
  <2> QED BY <1>1, <1>2, <1>3, <2>1, <2>2, PlainForm
<1>6. CASE Call(t)
  <2>1. PICK v \in Uris : fetch' = [fetch EXCEPT ![t] = [Idle(v) EXCEPT !.at = "fast"]]
    BY <1>6 DEF Call
  <2> DEFINE q == [Idle(v) EXCEPT !.at = "fast"]
  <2>2. q.at # "evict" /\ q.total \in Nat
    BY DEF Idle
  <2>3. fetch' = [fetch EXCEPT ![t] = q]
    BY <2>1
  <2> HIDE DEF q
  <2> QED BY <1>2, <1>3, <2>2, <2>3, PlainForm
<1>7. CASE Download(t)
  <2> DEFINE n == r.total + 1
             at == IF n = Size[r.uri] THEN "replace" ELSE "download"
             q == Grown(r, n, at)
  <2>1. fetch' = [fetch EXCEPT ![t] = q]
    BY <1>7 DEF Download, Grown
  <2>2. at \in Places /\ at # "evict" /\ n \in Nat
    BY <1>1 DEF Places
  <2> HIDE DEF n, at
  <2>3. q.at = at /\ q.total = n
    BY <1>1, <2>2, GrownForm
  <2> HIDE DEF q
  <2> QED BY <1>2, <1>3, <2>1, <2>2, <2>3, PlainForm
<1>8. CASE FastPath(t) \/ TakeLock(t) \/ Recheck(t)
  <2>1. PICK at \in {"stat", "lock", "recheck", "restat", "download"} : Step(t, at)
    BY <1>8 DEF FastPath, TakeLock, Recheck
  <2> QED BY <1>4, <2>1 DEF Places
<1>9. CASE Stat(t) \/ Restat(t)
  <2>1. Step(t, "resolve") \/ Answer(t, "missing")
    BY <1>9 DEF Stat, Restat
  <2> QED BY <1>4, <1>5, <2>1 DEF Places
<1>10. CASE DownloadFails(t) \/ Resolve(t)
  <2>1. \E a \in {"ok", "missing", "error"} : Answer(t, a)
    BY <1>10 DEF DownloadFails, Resolve
  <2> QED BY <1>5, <2>1
<1> QED BY <1>6, <1>7, <1>8, <1>9, <1>10

\* A new file: its thread lists the directory next.
LEMMA ReplaceStep ==
    ASSUME CacheInv, LimitInv, CountsOK', troubles' = 0 => troubles = 0, NEW t \in Fetchers,
           Replace(t)
    PROVE  LimitInv'
<1> DEFINE r == fetch[t]
           u == r.uri
           q == Moved(r, "scan")
<1>1. /\ Shaped(r) /\ r.total \in Nat /\ u \in Uris /\ r.at = "replace"
      /\ parts[t] = Blocks(u) /\ files' = [files EXCEPT ![u] = parts[t]]
      /\ files \in [Uris -> SUBSET Nat]
  <2>1. r.at = "replace" /\ files' = [files EXCEPT ![u] = parts[t]]
    BY DEF Replace, tmp_name
  <2>2. /\ Shaped(r) /\ r.total \in Nat /\ (r.at = "replace" => parts[t] = Blocks(u))
        /\ files \in [Uris -> SUBSET Nat]
    BY DEF CacheInv, FetchFormOK, FetchFine, LimitInv, SumOK
  <2>3. u \in Uris
    BY <2>2 DEF Shaped
  <2> QED BY <2>1, <2>2, <2>3
<1>2. fetch' = [fetch EXCEPT ![t] = q]
    BY StepForm DEF Replace
<1>3. q.at = "scan" /\ q.total \in Nat
    BY <1>1, MovedForm DEF Places
<1> HIDE DEF q
<1>4. fetch'[t] = q /\ \A x \in Fetchers : x # t => fetch'[x] = fetch[x]
    BY <1>2 DEF CacheInv, FetchFormOK
<1>5. Kept' \subseteq Kept \cup {u}
    BY <1>1 DEF Kept, InCache
<1>6. IsFiniteSet(All(Kept)')
  <2>1. IsFiniteSet(All(Kept \cup {u}))
    BY <1>1, AllAdds DEF LimitInv
  <2>2. IsFiniteSet(All(Kept'))
    BY <1>5, <2>1, AllParts
  <2> QED BY <2>2 DEF All, Blocks
<1>7. ASSUME NEW x \in Fetchers PROVE SumOK(fetch[x])'
  <2>1. CASE x = t
    BY <1>3, <1>4, <2>1 DEF SumOK
  <2>2. CASE x # t
    BY <1>4, <2>2 DEF SumOK, LimitInv, Bytes, All, Blocks
  <2> QED BY <2>1, <2>2
<1>8. Tidies(fetch[t])'
    BY <1>3, <1>4 DEF Tidies
<1> QED BY <1>6, <1>7, <1>8 DEF LimitInv

\* The listing: a clean-up that goes on counts all there is, and one that is over found
\* the directory as it should be.
LEMMA ScanStep ==
    ASSUME CacheInv, LimitInv, CountsOK', troubles' = 0 => troubles = 0, NEW t \in Fetchers,
           Scan(t)
    PROVE  LimitInv'
<1> DEFINE r == fetch[t]
           done == CacheMax = 0 \/ Enough(Total(Kept)) \/ Victims(t, Kept) = {}
           at == IF done THEN "resolve" ELSE "evict"
           seen == IF done THEN {} ELSE Victims(t, Kept)
           total == IF done THEN 0 ELSE Total(Kept)
           q == Cleaned(r, at, seen, total)
<1>1. Shaped(r) /\ FilesAreWhole /\ IsFiniteSet(All(Kept))
    BY DEF CacheInv, FetchFine, LimitInv
<1>2. files' = files
    BY Zenon DEF Scan
<1>3. fetch' = [fetch EXCEPT ![t].at = at, ![t].seen = seen, ![t].total = total]
    BY Zenon DEF Scan, Kept
<1>4. Victims(t, Kept) = Kept \ {r.uri} /\ Kept \subseteq Uris
    BY DEF Victims, Kept
<1>5. Total(Kept) = Bytes(Kept) /\ Bytes(Kept) \in Nat
    BY <1>1, WholeTotal, AllParts
<1>6. at \in Places /\ seen \in SUBSET Uris /\ total \in Nat
    BY <1>4, <1>5 DEF Places
<1>7. done => CacheMax = 0 \/ Tidy
    BY <1>4, <1>5 DEF Tidy, Enough
<1>8. ~done => /\ at = "evict" /\ seen = Kept \ {r.uri} /\ total = Bytes(Kept)
    BY <1>4, <1>5
<1>9. done => at = "resolve"
    OBVIOUS
<1> HIDE DEF done, at, seen, total
<1>10. fetch' = [fetch EXCEPT ![t] = q]
    BY <1>3 DEF Cleaned
<1>11. q.at = at /\ q.uri = r.uri /\ q.seen = seen /\ q.total = total
    BY <1>1, <1>6, CleanedForm
<1> HIDE DEF q
<1>12. fetch'[t] = q /\ \A x \in Fetchers : x # t => fetch'[x] = fetch[x]
    BY <1>10 DEF CacheInv, FetchFormOK
<1>13. Kept' = Kept
    BY <1>2 DEF Kept, InCache
<1>14. Bytes(Kept)' = Bytes(Kept) /\ All(Kept)' = All(Kept)
    BY <1>13 DEF Bytes, All, Blocks
<1>15. ASSUME ~done
       PROVE  /\ IsFiniteSet(All(seen)) /\ Bytes(seen) <= total
              /\ Kept \subseteq seen \cup {r.uri}
  <2>1. seen \subseteq Kept
    BY <1>8, <1>15
  <2>2. IsFiniteSet(All(seen)) /\ Bytes(seen) <= Bytes(Kept)
    BY <1>1, <2>1, AllParts
  <2> QED BY <1>8, <1>15, <2>2
<1>16. ASSUME NEW x \in Fetchers PROVE SumOK(fetch[x])'
  <2>1. CASE x = t
    BY <1>6, <1>9, <1>11, <1>12, <1>15, <2>1 DEF SumOK, Bytes, All, Blocks
  <2>2. CASE x # t
    BY <1>12, <2>2 DEF SumOK, LimitInv, Bytes, All, Blocks
  <2> QED BY <2>1, <2>2
<1>17. CASE ~done
  <2>1. Tidies(fetch[t])'
    BY <1>5, <1>8, <1>11, <1>12, <1>13, <1>14, <1>15, <1>17 DEF Tidies
  <2> QED BY <1>1, <1>14, <1>16, <2>1 DEF LimitInv
<1>18. CASE done
  <2>1. CacheMax = 0 \/ Tidy'
    BY <1>7, <1>13, <1>14, <1>18 DEF Tidy
  <2> QED BY <1>1, <1>14, <1>16, <2>1 DEF LimitInv
<1> QED BY <1>17, <1>18

\* A file is unlinked: every count stays above what is left to be counted.
LEMMA UnlinkStep ==
    ASSUME CacheInv, LimitInv, CountsOK', troubles' = 0 => troubles = 0, NEW t \in Fetchers,
           Evict(t)
    PROVE  LimitInv'
<1> DEFINE r == fetch[t]
           seen(v) == r.seen \ {v}
           total(v) == r.total - Cardinality(files[v])
           done(v) == Enough(total(v)) \/ seen(v) = {}
           at(v) == IF done(v) THEN "resolve" ELSE "evict"
           left(v) == IF done(v) THEN {} ELSE seen(v)
           sum(v) == IF done(v) THEN 0 ELSE total(v)
           lost(x, v) == fetch[x].raced \/ (fetch[x].at # "idle" /\ fetch[x].uri = v)
<1>1. /\ Shaped(r) /\ r.at = "evict" /\ r.total \in Nat /\ IsFiniteSet(All(r.seen))
      /\ Bytes(r.seen) <= r.total /\ r.seen \subseteq Uris /\ CacheMax \in Nat
  <2>1. Shaped(r) /\ SumOK(r)
    BY DEF CacheInv, FetchFine, LimitInv
  <2>2. r.at = "evict"
    BY Zenon DEF Evict
  <2> QED BY <2>1, <2>2, R2CacheAssumption DEF SumOK, Shaped
<1>2. /\ FilesAreWhole /\ IsFiniteSet(All(Kept)) /\ files \in [Uris -> SUBSET Nat]
      /\ fetch = [x \in Fetchers |-> fetch[x]]
    BY DEF CacheInv, FetchFormOK, LimitInv
<1>3. PICK v \in r.seen :
         /\ files' = [files EXCEPT ![v] = {}]
         /\ fetch' = [x \in Fetchers |->
               IF x = t THEN [fetch[t] EXCEPT !.at = at(v), !.seen = left(v), !.total = sum(v)]
               ELSE [fetch[x] EXCEPT
                        !.raced = fetch[x].raced \/ (fetch[x].at # "idle" /\ fetch[x].uri = v)]]
    BY Zenon DEF Evict
<1>4. v \in Uris /\ Kept' = Kept \ {v}
  <2>1. v \in Uris
    BY <1>1, <1>3
  <2>2. \A u \in Uris : files'[u] = IF u = v THEN {} ELSE files[u]
    BY <1>2, <1>3
  <2> QED BY <2>1, <2>2 DEF Kept, InCache
<1> DEFINE n == Cardinality(files[v])
<1>5. /\ Size[v] \in Nat /\ n \in Nat /\ n <= Size[v]
      /\ v \in Kept => n = Size[v]
  <2>1. PICK m \in Nat : m = Size[v] /\ Cardinality(Blocks(v)) = m
    BY <1>4, AllOfOne
  <2>2. CASE v \in Kept
    <3>1. files[v] = Blocks(v)
      BY <1>2, <1>4, <2>2 DEF FilesAreWhole, Kept
    <3> QED BY <2>1, <3>1
  <2>3. CASE v \notin Kept
    <3>1. files[v] = {}
      BY <1>4, <2>3 DEF Kept, InCache
    <3>2. n = 0
      BY <3>1, FS_EmptySet
    <3> HIDE DEF n
    <3> QED BY <2>1, <2>3, <3>2
  <2> QED BY <2>2, <2>3
<1>6. /\ IsFiniteSet(All(r.seen \ {v})) /\ Bytes(r.seen \ {v}) \in Nat
      /\ Bytes(r.seen \ {v}) + Size[v] = Bytes(r.seen)
    BY <1>1, <1>3, <1>4, AllParts, AllLoses
<1>7. /\ total(v) \in Nat /\ Bytes(r.seen \ {v}) <= total(v)
  <2>1. total(v) = r.total - n
    OBVIOUS
  <2> HIDE DEF n, total
  <2> QED BY <1>1, <1>5, <1>6, <2>1
<1>8. /\ IsFiniteSet(All(Kept \ {v})) /\ Bytes(Kept \ {v}) \in Nat /\ Bytes(Kept) \in Nat
      /\ Bytes(Kept \ {v}) <= Bytes(Kept)
      /\ v \in Kept => Bytes(Kept \ {v}) + Size[v] = Bytes(Kept)
      /\ v \notin Kept => Kept \ {v} = Kept
    BY <1>2, <1>4, AllParts, AllLoses
<1>9. /\ Bytes(Kept)' = Bytes(Kept \ {v}) /\ All(Kept)' = All(Kept \ {v})
    BY <1>4 DEF Bytes, All, Blocks
<1> DEFINE q == Cleaned(r, at(v), left(v), sum(v))
<1>10. /\ fetch'[t] = q
       /\ \A x \in Fetchers : x # t => fetch'[x] = Marked(fetch[x], lost(x, v))
    <2> HIDE DEF at, left, sum
    <2> QED BY <1>3 DEF Cleaned, Marked
<1>11. at(v) \in Places /\ left(v) \in SUBSET Uris /\ sum(v) \in Nat
    <2> HIDE DEF total
    <2> QED BY <1>1, <1>7 DEF Places
<1>12. /\ done(v) => at(v) = "resolve"
       /\ ~done(v) => at(v) = "evict" /\ left(v) = r.seen \ {v} /\ sum(v) = total(v)
       /\ done(v) => total(v) <= CacheMax \/ r.seen \ {v} = {}
    BY DEF Enough
<1> HIDE DEF at, left, sum, done
<1>13. q.at = at(v) /\ q.uri = r.uri /\ q.seen = left(v) /\ q.total = sum(v)
    BY <1>1, <1>11, CleanedForm
<1> HIDE DEF q
<1>14. \A x \in Fetchers : x # t =>
          /\ fetch'[x].at = fetch[x].at /\ fetch'[x].uri = fetch[x].uri
          /\ fetch'[x].seen = fetch[x].seen /\ fetch'[x].total = fetch[x].total
  <2> SUFFICES ASSUME NEW x \in Fetchers, x # t
               PROVE  /\ fetch'[x].at = fetch[x].at /\ fetch'[x].uri = fetch[x].uri
                      /\ fetch'[x].seen = fetch[x].seen /\ fetch'[x].total = fetch[x].total
    BY Zenon
  <2>1. Shaped(fetch[x])
    BY DEF CacheInv, FetchFine
  <2>2. lost(x, v) \in BOOLEAN
    BY <2>1 DEF Shaped
  <2> HIDE DEF lost
  <2> QED BY <1>10, <2>1, <2>2, MarkedForm
<1> HIDE DEF total
<1>15. ASSUME NEW x \in Fetchers PROVE SumOK(fetch[x])'
  <2>1. CASE x = t
    BY <1>6, <1>7, <1>10, <1>11, <1>12, <1>13, <2>1 DEF SumOK, Bytes, All, Blocks
  <2>2. CASE x # t
    BY <1>14, <2>2 DEF SumOK, LimitInv, Bytes, All, Blocks
  <2> QED BY <2>1, <2>2
<1>16. ASSUME NEW x \in Fetchers, x # t, Tidies(fetch[x]) PROVE Tidies(fetch[x])'
  <2>1. CASE fetch[x].at = "scan"
    BY <1>14, <1>16, <2>1 DEF Tidies
  <2>2. CASE fetch[x].at # "scan"
    <3>1. fetch[x].at = "evict" /\ Kept \subseteq fetch[x].seen \cup {fetch[x].uri}
          /\ Bytes(Kept) <= fetch[x].total /\ fetch[x].total \in Nat
      BY <1>16, <2>2 DEF Tidies, LimitInv, SumOK
    <3>2. Kept' \subseteq fetch[x].seen \cup {fetch[x].uri}
      BY <1>4, <3>1
    <3>3. Bytes(Kept)' <= fetch[x].total
      BY <1>8, <1>9, <3>1
    <3> QED BY <1>14, <1>16, <3>1, <3>2, <3>3 DEF Tidies
  <2> QED BY <2>1, <2>2
<1>17. ASSUME Tidies(fetch[t]) PROVE Tidies(fetch[t])' \/ Tidy'
  <2>1. Kept \subseteq r.seen \cup {r.uri} /\ Bytes(Kept) <= r.total
    BY <1>1, <1>17 DEF Tidies
  <2>2. Kept' \subseteq (r.seen \ {v}) \cup {r.uri}
    BY <1>4, <2>1
  <2>3. Bytes(Kept \ {v}) <= total(v)
    <3>1. PICK c \in Nat, d \in Nat : c = r.total /\ d = n /\ total(v) = c - d
      BY <1>1, <1>5 DEF total
    <3>2. PICK b \in Nat, k \in Nat : b = Bytes(Kept) /\ k = Bytes(Kept \ {v}) /\ b <= c
      BY <1>8, <2>1, <3>1
    <3>3. CASE v \in Kept
      <4>1. k + d = b
        BY <1>5, <1>8, <3>1, <3>2, <3>3
      <4> QED BY <3>1, <3>2, <4>1
    <3>4. CASE v \notin Kept
      <4>1. k = b /\ files[v] = {}
        BY <1>4, <1>8, <3>2, <3>4 DEF Kept, InCache
      <4>2. d = 0
        BY <3>1, <4>1, FS_EmptySet
      <4> QED BY <3>1, <3>2, <4>1, <4>2
    <3> QED BY <3>3, <3>4
  <2>4. CASE ~done(v)
    <3>1. fetch'[t].at = "evict" /\ fetch'[t].uri = r.uri /\ fetch'[t].seen = r.seen \ {v}
          /\ fetch'[t].total = total(v)
      BY <1>10, <1>12, <1>13, <2>4
    <3> QED BY <1>9, <2>2, <2>3, <3>1 DEF Tidies
  <2>5. CASE done(v) /\ r.seen \ {v} = {}
    BY <2>2, <2>5 DEF Tidy
  <2>6. CASE done(v) /\ total(v) <= CacheMax
    BY <1>1, <1>7, <1>8, <1>9, <2>3, <2>6 DEF Tidy
  <2> QED BY <1>12, <2>4, <2>5, <2>6
<1>18. ASSUME Tidy PROVE Tidy'
  <2>1. CASE Bytes(Kept) <= CacheMax
    BY <1>1, <1>8, <1>9, <2>1 DEF Tidy
  <2>2. CASE ~(Bytes(Kept) <= CacheMax)
    BY <1>4, <1>18, <2>2 DEF Tidy
  <2> QED BY <2>1, <2>2
<1>19. IsFiniteSet(All(Kept)')
    BY <1>8, <1>9
<1>20. troubles' = 0 /\ CacheMax > 0 => Tidy' \/ \E x \in Fetchers : Tidies(fetch[x])'
    BY <1>16, <1>17, <1>18 DEF LimitInv
<1> QED BY <1>15, <1>19, <1>20 DEF LimitInv

\* Faults: after the first nothing is claimed of the limit.
LEMMA FaultStep ==
    ASSUME CacheInv, LimitInv, CountsOK', Delete \/ ProcessDies
    PROVE  LimitInv'
<1>1. troubles \in 0..CacheFaults /\ troubles' = troubles + 1 /\ files' = files
    BY DEF Delete, ProcessDies, Trouble, LimitInv, CountsOK
<1>2. troubles' # 0
    BY <1>1
<1>3. All(Kept)' = All(Kept)
    BY <1>1 DEF All, Kept, InCache, Blocks
<1>4. ASSUME NEW t \in Fetchers PROVE SumOK(fetch[t])'
  <2>1. SumOK(fetch[t])
    BY DEF LimitInv
  <2>2. CASE fetch'[t] = fetch[t]
    BY <2>1, <2>2 DEF SumOK, Bytes, All, Blocks
  <2>3. CASE fetch'[t] = Idle(fetch[t].uri)
    BY <2>3 DEF SumOK, Idle
  <2>4. fetch'[t] = fetch[t] \/ fetch'[t] = Idle(fetch[t].uri)
    <3>1. CASE Delete
      BY <3>1 DEF Delete
    <3>2. CASE ProcessDies
      BY <3>2 DEF ProcessDies
    <3> QED BY <3>1, <3>2
  <2> QED BY <2>2, <2>3, <2>4
<1> QED BY <1>2, <1>3, <1>4 DEF LimitInv

\* The directory, in every state.
LEMMA LimitInductive == CacheSpec => []LimitInv
<1>1. CacheInit => LimitInv
  <2> SUFFICES ASSUME CacheInit PROVE LimitInv
    OBVIOUS
  <2>1. PICK u \in Uris : fetch = [t \in Fetchers |-> Idle(u)]
    BY R2CacheAssumption DEF CacheInit
  <2>2. Kept = {}
    BY DEF CacheInit, Kept, InCache
  <2>3. All({}) = {}
    BY DEF All
  <2>4. IsFiniteSet(All(Kept))
    BY <2>2, <2>3, FS_EmptySet
  <2>5. Tidy
    BY <2>2 DEF Tidy
  <2>6. \A t \in Fetchers : SumOK(fetch[t])
    BY <2>1 DEF SumOK, Idle
  <2>7. CountsOK
    BY R2CacheAssumption DEF CacheInit, CountsOK
  <2> QED BY <2>4, <2>5, <2>6, <2>7 DEF LimitInv
<1>2. CacheInv /\ LimitInv /\ [CacheNext]_cacheVars => LimitInv'
  <2> SUFFICES ASSUME CacheInv, LimitInv, [CacheNext]_cacheVars PROVE LimitInv'
    OBVIOUS
  <2>1. CountsOK' /\ (troubles' = 0 => troubles = 0)
    BY CountsStep DEF LimitInv
  <2>2. ASSUME NEW t \in Fetchers, Call(t) \/ FetchStep(t) PROVE LimitInv'
    BY <2>1, <2>2, PlainStep, ReplaceStep, ScanStep, UnlinkStep DEF FetchStep
  <2>3. CASE UNCHANGED cacheVars
    BY <2>3 DEF cacheVars, LimitInv, CountsOK, SumOK, Tidy, Tidies, Kept, InCache, Bytes, All,
                Blocks
  <2> QED BY <2>1, <2>2, <2>3, FaultStep DEF CacheNext
<1> QED BY <1>1, <1>2, CacheInductive, PTL DEF CacheSpec

\* When nobody is fetching and nothing failed, the directory is below its limit or holds one
\* file (_enforce_cache_limit), for any number of threads, processes and objects of any
\* size, and whatever order the clean-ups unlink in.
THEOREM DirectoryHolds == CacheSpec => []DirectorySound
<1>1. CacheInv /\ LimitInv => DirectorySound
  <2> SUFFICES ASSUME CacheInv, LimitInv PROVE DirectorySound
    OBVIOUS
  <2>1. CacheTypeOK
    <3>1. ASSUME NEW t \in Fetchers PROVE fetch[t] \in Fetch
      <4>1. Shaped(fetch[t]) /\ fetch[t].total \in Nat
        BY DEF CacheInv, FetchFine, LimitInv, SumOK
      <4> QED BY <4>1 DEF Shaped, Fetch, Places
    <3>2. fetch \in [Fetchers -> Fetch]
      BY <3>1 DEF CacheInv, FetchFormOK
    <3> QED BY <3>2 DEF CacheInv, FetchFormOK, LimitInv, CountsOK, CacheTypeOK
  <2>2. ASSUME CacheMax > 0, troubles = 0, \A t \in Fetchers : fetch[t].at = "idle"
        PROVE  Total(Kept) <= CacheMax \/ Cardinality(Kept) = 1
    <3>1. ~\E t \in Fetchers : Tidies(fetch[t])
      BY <2>2 DEF Tidies
    <3>2. Tidy
      BY <2>2, <3>1 DEF LimitInv
    <3>3. Total(Kept) = Bytes(Kept)
      BY WholeTotal DEF CacheInv
    <3>4. CASE Bytes(Kept) <= CacheMax
      BY <3>3, <3>4
    <3>5. CASE ~(Bytes(Kept) <= CacheMax)
      <4>1. PICK u : Kept \subseteq {u}
        BY <3>2, <3>5 DEF Tidy
      <4>2. CASE Kept = {}
        <5>1. All({}) = {} /\ Cardinality({}) = 0 /\ CacheMax \in Nat
          BY FS_EmptySet, R2CacheAssumption DEF All
        <5> QED BY <3>5, <4>2, <5>1 DEF Bytes
      <4>3. CASE Kept # {}
        <5>1. Kept = {u}
          BY <4>1, <4>3
        <5> QED BY <5>1, FS_Singleton
      <4> QED BY <4>2, <4>3
    <3> QED BY <3>4, <3>5
  <2> QED BY <2>1, <2>2 DEF DirectorySound, DirectoryWithinLimit, Kept
<1> QED BY <1>1, CacheInductive, LimitInductive, PTL
=============================================================================
