---------------------------- MODULE VoicesProofs ----------------------------
(***************************************************************************)
(* Proofs about Voices, for any number of calls in flight, any number of   *)
(* days, calls and failures, and any retention.                            *)
(***************************************************************************)
EXTENDS Voices, FiniteSetTheorems, TLAPS

-----------------------------------------------------------------------------
(* The inductive invariant.                                                *)

\* Calls that have read the row, which they change or use.
Holding == {"delete", "freeze", "unfreeze", "artifacts", "scrub", "consent", "gate",
            "resolve"}

\* A call carries what it uploaded or read, and a row that was read is there.
CallOK(s) ==
    /\ step[s] \in {"check", "insert", "insertUnder"} => upload[s] \in 1..calls
    /\ step[s] \in Holding => snap[s] # NoVoice
    /\ snap[s] # NoVoice => voice # NoVoice

\* A scrubbed row has no reference, also for those that read it then.
ScrubbedOK ==
    /\ voice # NoVoice =>
         /\ voice.recording <= calls
         /\ voice.purged_at # Null => ~voice.reference
    /\ \A s \in Sessions :
         snap[s] # NoVoice /\ snap[s].purged_at # Null => ~snap[s].reference

\* From the deletion of the files on, the recording is gone, unless one failed; an
\* upload that comes later has another number.
FilesErased ==
    failures = 0 /\ voice # NoVoice =>
        \/ file # voice.recording
        \/ voice.purged_at = Null /\ \A s \in Sessions : step[s] # "scrub"

\* A call that came too late and is at the consent gate finds the consent revoked.
LateFindsRevoked ==
    \A s \in Sessions : step[s] = "gate" /\ late[s] => consent = "revoked"

\* Every job queued or at the gate is a call of its own.
AtGate == {s \in Sessions : step[s] = "gate"}
QueueCounted == IsFiniteSet(AtGate) /\ queued + Cardinality(AtGate) <= calls

VInv ==
    /\ TypeOK
    /\ \A s \in Sessions : CallOK(s)
    /\ ScrubbedOK
    /\ FilesErased
    /\ TicketHoldsVoice
    /\ LateFindsRevoked
    /\ QueueCounted

-----------------------------------------------------------------------------
(* The row only moves on.                                                  *)

\* w is a later version of the row v.
Later(v, w) ==
    /\ w \in Rows
    /\ w.recording = v.recording
    /\ v.purge_after_at # Null => w.purge_after_at # Null
    /\ v.purged_at # Null => w.purged_at # Null
    /\ w.purged_at # v.purged_at => ~w.reference
    /\ v.deleted => w.deleted
    /\ w.reference => v.reference

\* ... and is no closer to a tombstone.
Kept(v, w) == Later(v, w) /\ w.purged_at = v.purged_at

\* A row whose two dates are written moves on, if a purge date is not taken back.
LEMMA DatesMoveOn ==
    ASSUME NEW v \in Rows, NEW f \in Days \cup {Null}, NEW p \in Int \cup {Null},
           v.purge_after_at # Null => p # Null
    PROVE  Kept(v, [v EXCEPT !.frozen_at = f, !.purge_after_at = p])
    BY DEF Kept, Later, Rows

\* What the columns of freeze, schedule_purge, execute_purge, soft_delete and
\* unfreeze make of a row.
LEMMA ColumnsMoveOn ==
    ASSUME TypeOK, voice # NoVoice, NEW r \in Rows, NEW d \in FreezeDays \cup {Null}
    PROVE  /\ Kept(voice, Frozen(r, d))
           /\ Kept(voice, Scheduled(r)) /\ Scheduled(r).purge_after_at # Null
           /\ Later(voice, Scrubbed)
           /\ Kept(voice, [voice EXCEPT !.deleted = TRUE])
           /\ Kept(voice, [voice EXCEPT !.frozen_at = Null])
           /\ Kept(voice, voice)
<1>1. voice \in Rows /\ day \in Nat /\ day \in Days
    BY VoicesAssumption DEF TypeOK, Days
<1> DEFINE f == IF r.frozen_at = Null THEN day ELSE voice.frozen_at
           p == IF d # Null /\ (r.purge_after_at = Null \/ day + d > r.purge_after_at)
                THEN day + d ELSE voice.purge_after_at
           q == day + RetentionDays
<1>2. voice.frozen_at \in Days \cup {Null} /\ voice.purge_after_at \in Int \cup {Null}
    BY <1>1 DEF Rows
<1>3. f \in Days \cup {Null}
    BY <1>1, <1>2
<1>4. d # Null => day + d \in Int /\ day + d # Null
    BY <1>1, VoicesAssumption
<1>5. p \in Int \cup {Null} /\ (voice.purge_after_at # Null => p # Null)
    BY <1>2, <1>4
<1>6. q \in Int \cup {Null} /\ q # Null /\ (voice.purge_after_at # Null => q # Null)
    BY <1>1, VoicesAssumption
<1>7. Frozen(r, d) = [voice EXCEPT !.frozen_at = f, !.purge_after_at = p]
    BY <1>1 DEF Frozen, Rows
<1>8. Scheduled(r) = [voice EXCEPT !.frozen_at = f, !.purge_after_at = q]
    BY <1>1 DEF Scheduled, Rows
<1> HIDE DEF f, p, q
<1>9. Kept(voice, Frozen(r, d))
  <2>1. Kept(voice, [voice EXCEPT !.frozen_at = f, !.purge_after_at = p])
    BY <1>1, <1>3, <1>5, DatesMoveOn, Zenon
  <2> QED BY <2>1, <1>7
<1>10. Kept(voice, Scheduled(r)) /\ Scheduled(r).purge_after_at # Null
  <2>1. Kept(voice, [voice EXCEPT !.frozen_at = f, !.purge_after_at = q])
    BY <1>1, <1>3, <1>6, DatesMoveOn, Zenon
  <2>2. Scheduled(r).purge_after_at # Null
    BY <1>1, <1>6, <1>8 DEF Rows
  <2> QED BY <2>1, <2>2, <1>8
<1>11. Later(voice, Scrubbed)
  <2>1. day # Null
    BY <1>1, VoicesAssumption
  <2> QED BY <1>1, <2>1 DEF Later, Scrubbed, Rows
<1>12. /\ Kept(voice, [voice EXCEPT !.deleted = TRUE])
       /\ Kept(voice, [voice EXCEPT !.frozen_at = Null])
       /\ Kept(voice, voice)
    BY <1>1, VoicesAssumption DEF Kept, Later, Rows
<1> QED BY <1>9, <1>10, <1>11, <1>12

\* What a step does to the row: nothing, an enrolment's insert, or a change of
\* columns that only moves it on.
Inserted ==
    /\ voice = NoVoice
    /\ voice' \in Rows
    /\ voice'.purged_at = Null
    /\ voice'.recording \in 1..calls
    /\ consent' = "active"
    /\ \E s \in Sessions : EnrollInsert(s)
Moved ==
    /\ voice # NoVoice
    /\ Later(voice, voice')
    /\ consent' \in {consent, "revoked"}
    /\ voice'.purged_at = voice.purged_at \/ \E s \in Sessions : PurgeScrub(s)
RowStep == UNCHANGED <<voice, consent>> \/ Inserted \/ Moved

\* Every step moves the row on.
LEMMA RowMovesOn == ASSUME VInv, Next PROVE RowStep
<1> USE DEF VInv
<1>1. Tick \/ \E s \in Sessions : Call(s)
    BY DEF Next
<1>2. CASE Tick
    BY <1>2 DEF Tick, RowStep
<1>3. CASE \E s \in Sessions : Call(s)
  <2>1. PICK s \in Sessions : Call(s)
    BY <1>3
  <2>2. CallOK(s) /\ snap[s] \in Rows \cup {NoVoice}
    BY DEF TypeOK
  <2>3. CASE EnrollInsert(s)
    <3>1. CASE voice = NoVoice
      <4>1. upload[s] \in 1..calls /\ upload[s] \in Uploads
        BY <2>2, <2>3, VoicesAssumption DEF EnrollInsert, CallOK, TypeOK, Uploads
      <4> DEFINE under == step[s] = "insertUnder"
      <4>2. under \in BOOLEAN
        OBVIOUS
      <4>3. voice' = [recording |-> upload[s], reference |-> TRUE, underContract |-> under,
                      frozen_at |-> Null, purge_after_at |-> Null, purged_at |-> Null,
                      deleted |-> FALSE]
        BY <2>3, <3>1 DEF EnrollInsert
      <4> HIDE DEF under
      <4>4. Inserted
        BY <2>3, <3>1, <4>1, <4>2, <4>3 DEF EnrollInsert, RecordConsent, Inserted, Rows
      <4> QED BY <4>4 DEF RowStep
    <3>2. CASE voice # NoVoice
      BY <2>3, <3>2 DEF EnrollInsert, RowStep
    <3> QED BY <3>1, <3>2
  <2>4. CASE Delete(s)
    <3>1. voice # NoVoice
      BY <2>2, <2>4 DEF Delete, CallOK, Holding
    <3>2. /\ voice' = voice \/ voice' = [voice EXCEPT !.deleted = TRUE]
          /\ consent' = consent
      BY <2>4 DEF Delete, Commit
    <3> QED BY <3>1, <3>2, ColumnsMoveOn DEF RowStep, Moved, Kept, TypeOK
  <2>5. CASE Freeze(s)
    <3>1. voice # NoVoice /\ snap[s] \in Rows
      BY <2>2, <2>5 DEF Freeze, CallOK, Holding
    <3>2. PICK d \in FreezeDays \cup {Null} :
             /\ voice' = voice \/ voice' = Frozen(snap[s], d)
             /\ consent' = consent
      BY <2>5 DEF Freeze, Commit
    <3> QED BY <3>1, <3>2, ColumnsMoveOn DEF RowStep, Moved, Kept, TypeOK
  <2>6. CASE Unfreeze(s)
    <3>1. voice # NoVoice
      BY <2>2, <2>6 DEF Unfreeze, CallOK, Holding
    <3>2. /\ voice' = voice \/ voice' = [voice EXCEPT !.frozen_at = Null]
          /\ consent' = consent
      BY <2>6 DEF Unfreeze, Commit
    <3> QED BY <3>1, <3>2, ColumnsMoveOn DEF RowStep, Moved, Kept, TypeOK
  <2>7. CASE Request(s)
    <3>1. CASE Visible(snap[s]) /\ snap[s].purged_at = Null
      <4>1. voice # NoVoice /\ snap[s] \in Rows
        BY <2>2, <3>1 DEF CallOK, Visible
      <4>2. /\ voice' = voice \/ voice' = Scheduled(snap[s])
            /\ consent' = consent
        BY <2>7, <3>1 DEF Request, Commit
      <4> QED BY <4>1, <4>2, ColumnsMoveOn DEF RowStep, Moved, Kept, TypeOK
    <3>2. CASE ~(Visible(snap[s]) /\ snap[s].purged_at = Null)
      BY <2>7, <3>2 DEF Request, RowStep
    <3> QED BY <3>1, <3>2
  <2>8. CASE PurgeScrub(s)
    <3>1. voice # NoVoice
      BY <2>2, <2>8 DEF PurgeScrub, CallOK, Holding
    <3>2. /\ voice' = voice \/ voice' = Scrubbed
          /\ consent' = consent
      BY <2>8 DEF PurgeScrub, Commit
    <3> QED BY <2>8, <3>1, <3>2, ColumnsMoveOn DEF RowStep, Moved, Kept, TypeOK
  <2>9. CASE RevokeConsent(s)
    <3>1. voice # NoVoice /\ snap[s] \in Rows
      BY <2>2, <2>9 DEF RevokeConsent, CallOK, Holding
    <3>2. /\ voice' = voice \/ voice' = Frozen(snap[s], Null)
          /\ consent' \in {consent, "revoked"}
      BY <2>9 DEF RevokeConsent, Commit
    <3> QED BY <3>1, <3>2, ColumnsMoveOn DEF RowStep, Moved, Kept, TypeOK
  <2>10. CASE RevokeContract(s)
    <3>1. CASE Dependent(snap[s])
      <4>1. voice # NoVoice /\ snap[s] \in Rows
        BY <2>2, <3>1 DEF CallOK, Dependent
      <4>2. /\ voice' = voice \/ voice' = Frozen(snap[s], Null)
            /\ consent' = consent
        BY <2>10, <3>1 DEF RevokeContract, Commit
      <4> QED BY <4>1, <4>2, ColumnsMoveOn DEF RowStep, Moved, Kept, TypeOK
    <3>2. CASE ~Dependent(snap[s])
      BY <2>10, <3>2 DEF RevokeContract, RowStep
    <3> QED BY <3>1, <3>2
  <2>11. CASE ~\/ EnrollInsert(s) \/ Delete(s) \/ Freeze(s) \/ Unfreeze(s) \/ Request(s)
               \/ PurgeScrub(s) \/ RevokeConsent(s) \/ RevokeContract(s)
    BY <2>1, <2>11 DEF Call, EnrollWrite, EnrollTooShort, EnrollRefuse, EnrollAccept,
       DeleteRead, FreezeRead, UnfreezeRead, RequestRead, TicketRead, CompleteTicket,
       RejectTicket, CloseTicket, PurgeRead, PurgeArtifacts, ConsentRead, ContractRead,
       GateRead, Gate, PickUp, Resolve, Crash, Read, RowStep
  <2> QED BY <2>3, <2>4, <2>5, <2>6, <2>7, <2>8, <2>9, <2>10, <2>11
<1> QED BY <1>1, <1>2, <1>3

-----------------------------------------------------------------------------
(* What a step does to the calls in flight.                                *)

\* A call begins at step l, with what that step needs.
Begun(s, l) ==
    /\ Begin(s, l)
    /\ l \notin {"idle", "insert", "insertUnder", "scrub"}
    /\ l \in Holding => voice # NoVoice
    /\ l = "gate" => lifecycle_state(voice) = "active" /\ voice # NoVoice
    /\ upload' = IF l = "check" THEN [upload EXCEPT ![s] = calls'] ELSE upload

\* A call goes on at step l.
Gone(s, l) ==
    /\ Goto(s, l)
    /\ calls' = calls
    /\ \/ step[s] = "check" /\ l \in {"insert", "insertUnder"} /\ failures' = failures
       \/ /\ step[s] = "artifacts"
          /\ l = "scrub"
          /\ \/ file' = Wiped /\ failures' = failures
             \/ failures' = failures + 1

\* A call is answered at once.
Answered(s) ==
    /\ step[s] = "idle"
    /\ calls < MaxCalls /\ calls' = calls + 1
    /\ UNCHANGED <<step, snap, upload, late>>

CallForm(s) ==
    \/ \E l \in Steps : Begun(s, l) \/ Gone(s, l)
    \/ step[s] # "idle" /\ End(s) /\ calls' = calls
    \/ Answered(s)

\* Every step of a call has one of those forms.
LEMMA CallForms == ASSUME TypeOK, NEW s \in Sessions, Call(s) PROVE CallForm(s)
<1>1. CASE EnrollWrite(s)
  <2>1. Begun(s, "check")
    BY <1>1 DEF EnrollWrite, Begun, Holding
  <2> QED BY <2>1 DEF CallForm, Steps
<1>2. CASE EnrollTooShort(s) \/ (PickUp(s) /\ ~Visible(voice))
    BY <1>2 DEF EnrollTooShort, PickUp, Arrive, CallForm, Answered
<1>3. CASE EnrollAccept(s)
  <2>1. Gone(s, "insert") \/ Gone(s, "insertUnder")
    BY <1>3 DEF EnrollAccept, UserOwned, UnderContract, Gone, bounds
  <2> QED BY <2>1 DEF CallForm, Steps
<1>4. CASE PurgeArtifacts(s)
  <2>1. Gone(s, "scrub")
    BY <1>4 DEF PurgeArtifacts, Gone
  <2> QED BY <2>1 DEF CallForm, Steps
<1>5. CASE \/ DeleteRead(s) \/ FreezeRead(s) \/ UnfreezeRead(s) \/ RequestRead(s)
           \/ TicketRead(s) \/ PurgeRead(s) \/ ConsentRead(s) \/ ContractRead(s)
           \/ GateRead(s) \/ (PickUp(s) /\ Visible(voice))
  <2>1. latest_active => voice # NoVoice
    BY DEF latest_active, TypeOK
  <2>2. \E l \in {"delete", "freeze", "unfreeze", "request", "complete", "reject", "artifacts",
                  "consent", "contract", "gate", "resolve"} : Begun(s, l)
    BY <1>5, <2>1 DEF DeleteRead, FreezeRead, UnfreezeRead, RequestRead, TicketRead, PurgeRead,
       ConsentRead, ContractRead, GateRead, PickUp, Visible, Read, Begun, Holding
  <2> QED BY <2>2 DEF CallForm, Steps
<1>6. CASE \/ EnrollRefuse(s) \/ EnrollInsert(s) \/ Delete(s) \/ Freeze(s) \/ Unfreeze(s)
           \/ Request(s) \/ CompleteTicket(s) \/ RejectTicket(s) \/ PurgeScrub(s)
           \/ RevokeConsent(s) \/ RevokeContract(s) \/ Gate(s) \/ Resolve(s) \/ Crash(s)
    BY <1>6 DEF EnrollRefuse, EnrollInsert, Delete, Freeze, Unfreeze, Request, CompleteTicket,
       RejectTicket, CloseTicket, PurgeScrub, RevokeConsent, RevokeContract, Gate, Resolve,
       Crash, Commit, bounds, CallForm
<1> QED BY <1>1, <1>2, <1>3, <1>4, <1>5, <1>6 DEF Call

\* The other columns, the files and the counters keep their types; a worker's pick-up
\* takes a job from the queue, and the gate adds one.
LEMMA ScalarTypes ==
    ASSUME TypeOK, NEW s \in Sessions, Call(s)
    PROVE  /\ day' = day
           /\ contract' \in ContractStates
           /\ \/ file' \in {file, Absent, Wiped}
              \/ calls < MaxCalls /\ calls' = calls + 1 /\ file' = calls'
           /\ ticket' \in TicketStates
           /\ spoken' \subseteq Uploads
           /\ failures' \in failures..MaxFailures
           /\ \/ queued' = queued
              \/ queued' = queued - 1 /\ queued > 0 /\ step[s] = "idle" /\ step'[s] # "gate"
              \/ queued' = queued + 1 /\ step[s] = "gate" /\ step'[s] = "idle" /\ latest_active
           /\ spoken' = spoken \/ Resolve(s)
<1> USE VoicesAssumption DEF TypeOK
<1>1. CASE \/ EnrollWrite(s) \/ EnrollTooShort(s) \/ EnrollRefuse(s)
           \/ EnrollAccept(s) \/ EnrollInsert(s)
    BY <1>1 DEF EnrollWrite, EnrollTooShort, EnrollRefuse, EnrollAccept, EnrollInsert, Begin,
       Arrive, jobVars, bounds
<1>2. CASE \/ DeleteRead(s) \/ FreezeRead(s) \/ UnfreezeRead(s) \/ RequestRead(s)
           \/ TicketRead(s) \/ PurgeRead(s) \/ ConsentRead(s) \/ ContractRead(s)
           \/ GateRead(s)
    BY <1>2 DEF DeleteRead, FreezeRead, UnfreezeRead, RequestRead, TicketRead, PurgeRead,
       ConsentRead, ContractRead, GateRead, Read, Begin, jobVars
<1>3. CASE Delete(s) \/ Freeze(s) \/ Unfreeze(s) \/ PurgeScrub(s) \/ RevokeConsent(s)
    BY <1>3 DEF Delete, Freeze, Unfreeze, PurgeScrub, RevokeConsent, Commit, jobVars, bounds
<1>4. CASE Request(s)
    BY <1>4 DEF Request, Commit, OpenTicket, TicketStates, jobVars, bounds
<1>5. CASE RevokeContract(s)
    BY <1>5 DEF RevokeContract, Commit, ContractStates, jobVars, bounds
<1>6. CASE CompleteTicket(s) \/ RejectTicket(s)
    BY <1>6 DEF CompleteTicket, RejectTicket, CloseTicket, TicketStates, jobVars, bounds
<1>7. CASE PurgeArtifacts(s) \/ Crash(s)
    BY <1>7 DEF PurgeArtifacts, Crash, jobVars
<1>8. CASE Gate(s) \/ PickUp(s)
    BY <1>8 DEF Gate, PickUp, Begin, Arrive, End, bounds
<1>9. CASE Resolve(s)
    BY <1>9 DEF Resolve, bounds
<1> QED BY <1>1, <1>2, <1>3, <1>4, <1>5, <1>6, <1>7, <1>8, <1>9 DEF Call

\* The steps, the rows read, the uploads and the arrivals keep their types.
LEMMA SessionTypes ==
    ASSUME TypeOK, NEW s \in Sessions, CallForm(s)
    PROVE  /\ step' \in [Sessions -> Steps]
           /\ snap' \in [Sessions -> Rows \cup {NoVoice}]
           /\ upload' \in [Sessions -> 0..MaxCalls]
           /\ late' \in [Sessions -> BOOLEAN]
           /\ calls' \in calls..MaxCalls
           /\ \A t \in Sessions \ {s} : /\ step'[t] = step[t]
                                        /\ snap'[t] = snap[t]
                                        /\ upload'[t] = upload[t]
                                        /\ late'[t] = late[t]
           /\ snap'[s] \in {snap[s], NoVoice, voice}
<1> USE VoicesAssumption DEF TypeOK
<1>1. CASE \E l \in Steps : Begun(s, l)
    BY <1>1 DEF Begun, Begin, Arrive, Withdrawn
<1>2. CASE \E l \in Steps : Gone(s, l)
    BY <1>2 DEF Gone, Goto
<1>3. CASE End(s) /\ calls' = calls
    BY <1>3 DEF End, Steps
<1>4. CASE Answered(s)
    BY <1>4 DEF Answered
<1> QED BY <1>1, <1>2, <1>3, <1>4 DEF CallForm

-----------------------------------------------------------------------------
(* The step, one lemma per part of the invariant.                          *)

\* The row, its rank and its consent after a step.
LEMMA RankGrows ==
    ASSUME TypeOK, RowStep
    PROVE  /\ voice' \in Rows \cup {NoVoice}
           /\ voice # NoVoice => voice' # NoVoice
           /\ Rank(voice') >= Rank(voice)
           /\ consent' \in ConsentStates
           /\ voice' = NoVoice <=> consent' = "none"
<1> USE NamesAssumption DEF TypeOK
<1>1. CASE UNCHANGED <<voice, consent>>
    BY <1>1 DEF Rank, lifecycle_state
<1>2. CASE Inserted
    BY <1>2 DEF Inserted, Rank, lifecycle_state, ConsentStates
<1>3. CASE Moved
  <2>1. voice \in Rows /\ voice' \in Rows /\ voice # NoVoice /\ voice' # NoVoice
    BY <1>3 DEF Moved, Later
  <2>2. Rank(voice') >= Rank(voice)
    BY <1>3, <2>1 DEF Moved, Later, Rank, lifecycle_state
  <2> QED BY <1>3, <2>1, <2>2 DEF Moved, ConsentStates
<1> QED BY <1>1, <1>2, <1>3 DEF RowStep

\* A step keeps what the calls carry.
LEMMA StepCallOK ==
    ASSUME TypeOK, \A t \in Sessions : CallOK(t), RowStep, NEW s \in Sessions, CallForm(s)
    PROVE  \A t \in Sessions : CallOK(t)'
<1> SUFFICES ASSUME NEW t \in Sessions PROVE CallOK(t)'
    OBVIOUS
<1>1. voice # NoVoice => voice' # NoVoice
    BY RankGrows
<1>2. CASE t # s
    BY <1>1, <1>2, SessionTypes DEF CallOK, TypeOK
<1>3. CASE t = s /\ \E l \in Steps : Begun(s, l)
    BY <1>1, <1>3 DEF Begun, Begin, Arrive, CallOK, TypeOK
<1>4. CASE t = s /\ \E l \in Steps : Gone(s, l)
    BY <1>1, <1>4 DEF Gone, Goto, CallOK, Holding, TypeOK
<1>5. CASE t = s /\ End(s)
    BY <1>5 DEF End, CallOK, Holding, TypeOK
<1>6. CASE t = s /\ Answered(s)
    BY <1>1, <1>6 DEF Answered, CallOK, TypeOK
<1> QED BY <1>2, <1>3, <1>4, <1>5, <1>6 DEF CallForm

\* A step keeps the references of tombstones away, in the row and in what was read.
LEMMA StepScrubbedOK ==
    ASSUME TypeOK, ScrubbedOK, RowStep, NEW s \in Sessions, CallForm(s)
    PROVE  ScrubbedOK'
<1>1. /\ calls \in Nat /\ calls' \in Nat /\ calls' >= calls
      /\ voice # NoVoice => voice.recording \in Nat
    BY VoicesAssumption, SessionTypes DEF TypeOK, Rows, Uploads
<1>2. voice' # NoVoice =>
         voice'.recording <= calls' /\ (voice'.purged_at # Null => ~voice'.reference)
  <2>1. CASE UNCHANGED <<voice, consent>>
    BY <1>1, <2>1 DEF ScrubbedOK
  <2>2. CASE Inserted
    BY <1>1, <2>2 DEF Inserted
  <2>3. CASE Moved
    BY <1>1, <2>3 DEF Moved, Later, ScrubbedOK
  <2> QED BY <2>1, <2>2, <2>3 DEF RowStep
<1>3. \A t \in Sessions :
         snap'[t] # NoVoice /\ snap'[t].purged_at # Null => ~snap'[t].reference
    BY SessionTypes DEF ScrubbedOK
<1> QED BY <1>2, <1>3 DEF ScrubbedOK

\* A step keeps an erased recording away.
LEMMA StepFilesErased ==
    ASSUME VInv, RowStep, NEW s \in Sessions, Call(s), CallForm(s)
    PROVE  FilesErased'
<1> USE DEF VInv
<1> SUFFICES ASSUME failures' = 0, voice' # NoVoice, file' = voice'.recording
             PROVE  voice'.purged_at = Null /\ \A t \in Sessions : step'[t] # "scrub"
    BY DEF FilesErased
<1>1. failures = 0
    BY ScalarTypes, VoicesAssumption DEF TypeOK
<1>2. CASE voice = NoVoice
  <2>1. Inserted
    BY <1>2 DEF RowStep, Moved
  <2>2. \A t \in Sessions : step[t] # "scrub"
    BY <1>2 DEF CallOK, Holding
  <2>3. PICK t \in Sessions : step' = [step EXCEPT ![t] = "idle"]
    BY <2>1 DEF Inserted, EnrollInsert, End
  <2> QED BY <2>1, <2>2, <2>3 DEF Inserted, TypeOK
<1>3. CASE voice # NoVoice
  <2>1. voice'.recording = voice.recording /\ voice.recording \in 1..calls
    BY <1>3 DEF RowStep, Inserted, Moved, Later, ScrubbedOK, TypeOK, Rows, Uploads
  <2>2. file' = file
    BY <2>1, ScalarTypes, NamesAssumption DEF TypeOK
  <2>3. voice.purged_at = Null /\ \A t \in Sessions : step[t] # "scrub"
    BY <1>1, <1>3, <2>1, <2>2 DEF FilesErased
  <2>4. voice'.purged_at = Null
    BY <1>3, <2>3 DEF RowStep, Inserted, Moved, PurgeScrub
  <2>5. file' # Wiped /\ failures' # failures + 1
    BY <1>1, <2>1, VoicesAssumption, NamesAssumption DEF TypeOK
  <2>6. step'[s] # "scrub"
    BY <2>3, <2>5 DEF CallForm, Begun, Begin, Gone, Goto, End, Answered, TypeOK
  <2> QED BY <2>3, <2>4, <2>6, SessionTypes
<1> QED BY <1>2, <1>3

\* A step keeps the voice of an open request on its way out.
LEMMA StepTicketHoldsVoice ==
    ASSUME VInv, RowStep, NEW s \in Sessions, Call(s)
    PROVE  TicketHoldsVoice'
<1> USE DEF VInv
<1> SUFFICES ASSUME ticket' = "in-progress" PROVE Rank(voice') >= 2
    BY DEF TicketHoldsVoice
<1>1. CASE ticket = "in-progress"
  <2>1. Rank(voice) \in Nat /\ Rank(voice') \in Nat
    BY DEF Rank, lifecycle_state
  <2> QED BY <1>1, <2>1, RankGrows DEF TicketHoldsVoice
<1>2. CASE ticket # "in-progress"
  <2>1. Request(s)
    BY <1>2 DEF Call, EnrollWrite, EnrollTooShort, EnrollRefuse, EnrollAccept, EnrollInsert,
       DeleteRead, Delete, FreezeRead, Freeze, UnfreezeRead, Unfreeze, RequestRead, TicketRead,
       CompleteTicket, RejectTicket, CloseTicket, PurgeRead, PurgeArtifacts, PurgeScrub,
       ConsentRead, RevokeConsent, ContractRead, RevokeContract, GateRead, Gate, PickUp,
       Resolve, Crash, Commit, Read
  <2>2. Visible(snap[s]) /\ voice' = Scheduled(snap[s])
    BY <1>2, <2>1 DEF Request, Commit
  <2>3. voice # NoVoice /\ snap[s] \in Rows
    BY <2>2 DEF Visible, CallOK, TypeOK
  <2>4. voice' \in Rows /\ voice'.purge_after_at # Null
    BY <2>2, <2>3, ColumnsMoveOn DEF Kept, Later
  <2> QED BY <2>4, NamesAssumption DEF Rank, lifecycle_state
<1> QED BY <1>1, <1>2

\* A step lets no call that came too late stand at a gate with an active consent.
LEMMA StepLateFindsRevoked ==
    ASSUME VInv, RowStep, NEW s \in Sessions, CallForm(s)
    PROVE  LateFindsRevoked'
<1> USE DEF VInv
<1>1. consent = "revoked" => consent' = "revoked"
    BY DEF RowStep, Inserted, Moved, TypeOK
<1>2. ASSUME step'[s] = "gate", late'[s] PROVE consent' = "revoked"
  <2>1. CASE \E l \in Steps : Begun(s, l)
    <3>1. Withdrawn /\ lifecycle_state(voice) = "active" /\ voice # NoVoice
      BY <1>2, <2>1 DEF Begun, Begin, TypeOK
    <3>2. Rank(voice) = 1
      BY <3>1 DEF Rank
    <3> QED BY <1>1, <1>2, <3>1, <3>2 DEF Withdrawn, TicketHoldsVoice
  <2>2. CASE (\E l \in Steps : Gone(s, l)) \/ End(s)
    BY <1>2, <2>2 DEF Gone, Goto, End, TypeOK
  <2>3. CASE Answered(s)
    BY <1>1, <1>2, <2>3 DEF Answered, LateFindsRevoked
  <2> QED BY <2>1, <2>2, <2>3 DEF CallForm
<1> QED BY <1>1, <1>2, SessionTypes DEF LateFindsRevoked

\* A step leaves no more jobs at the gate and in the queue than calls were made.
LEMMA StepQueueCounted ==
    ASSUME VInv, NEW s \in Sessions, Call(s), CallForm(s)
    PROVE  QueueCounted' /\ queued' \in 0..MaxCalls
<1> USE VoicesAssumption DEF VInv
<1>1. /\ IsFiniteSet(AtGate) /\ Cardinality(AtGate) \in Nat
      /\ queued \in Nat /\ calls \in Nat /\ calls' \in Nat /\ calls' >= calls
    BY SessionTypes, FS_CardinalityType DEF QueueCounted, TypeOK
<1>2. CASE step[s] # "gate" /\ step'[s] # "gate"
  <2>1. AtGate' = AtGate
    BY <1>2, SessionTypes DEF AtGate
  <2>2. queued' \in Nat /\ queued' <= queued
    BY <1>1, <1>2, ScalarTypes
  <2> QED BY <1>1, <2>1, <2>2, SessionTypes DEF QueueCounted, TypeOK
<1>3. CASE step[s] # "gate" /\ step'[s] = "gate"
  <2>1. AtGate' = AtGate \cup {s} /\ s \notin AtGate
    BY <1>3, SessionTypes DEF AtGate
  <2>2. calls' = calls + 1
    BY <1>3 DEF CallForm, Begun, Begin, Arrive, Gone, Goto, End, Answered, TypeOK
  <2>3. queued' = queued
    BY <1>3, ScalarTypes
  <2>4. IsFiniteSet(AtGate') /\ Cardinality(AtGate') = Cardinality(AtGate) + 1
    BY <1>1, <2>1, FS_AddElement
  <2> QED BY <1>1, <2>2, <2>3, <2>4, SessionTypes DEF QueueCounted, TypeOK
<1>4. CASE step[s] = "gate" /\ step'[s] # "gate"
  <2>1. AtGate' = AtGate \ {s} /\ s \in AtGate
    BY <1>4, SessionTypes DEF AtGate
  <2>2. queued' \in {queued, queued + 1}
    BY <1>4, ScalarTypes
  <2>3. /\ IsFiniteSet(AtGate') /\ Cardinality(AtGate') \in Nat
        /\ Cardinality(AtGate') = Cardinality(AtGate) - 1
    BY <1>1, <2>1, FS_RemoveElement, FS_CardinalityType
  <2> QED BY <1>1, <2>2, <2>3, SessionTypes DEF QueueCounted, TypeOK
<1>5. CASE step[s] = "gate" /\ step'[s] = "gate"
    BY <1>5 DEF CallForm, Begun, Begin, Arrive, Gone, Goto, End, Answered, TypeOK
<1> QED BY <1>2, <1>3, <1>4, <1>5

-----------------------------------------------------------------------------
(* The theorems.                                                           *)

\* Nothing has happened yet.
LEMMA InitVInv == Init => VInv
<1> SUFFICES ASSUME Init PROVE VInv
    OBVIOUS
<1>1. TypeOK
    BY VoicesAssumption DEF Init, TypeOK, ConsentStates, ContractStates, TicketStates, Steps
<1>2. AtGate = {}
    BY DEF Init, AtGate
<1>3. QueueCounted
    BY <1>2, FS_EmptySet DEF Init, QueueCounted
<1> QED
    BY <1>1, <1>3 DEF Init, VInv, CallOK, Holding, ScrubbedOK, FilesErased, TicketHoldsVoice,
       LateFindsRevoked

\* Every step keeps the invariant.
LEMMA StepVInv == VInv /\ [Next]_vars => VInv'
<1> SUFFICES ASSUME VInv, [Next]_vars PROVE VInv'
    OBVIOUS
<1>1. CASE UNCHANGED vars
    BY <1>1 DEF vars, VInv, TypeOK, CallOK, ScrubbedOK, FilesErased, TicketHoldsVoice,
       LateFindsRevoked, QueueCounted, AtGate
<1>2. CASE Tick
  <2>1. day' \in 0..MaxDay
    BY <1>2, VoicesAssumption DEF Tick, VInv, TypeOK
  <2>2. UNCHANGED <<voice, consent, contract, file, ticket, queued, spoken, step, snap, upload,
                    late, calls, failures>>
    BY <1>2 DEF Tick, jobVars
  <2> QED
    BY <2>1, <2>2 DEF VInv, TypeOK, CallOK, ScrubbedOK, FilesErased, TicketHoldsVoice,
       LateFindsRevoked, QueueCounted, AtGate
<1>3. CASE \E s \in Sessions : Call(s)
  <2>1. PICK s \in Sessions : Call(s)
    BY <1>3
  <2>2. RowStep /\ CallForm(s)
    BY <1>3, <2>1, RowMovesOn, CallForms DEF Next, VInv
  <2>3. TypeOK'
    <3>1. QueueCounted' /\ queued' \in 0..MaxCalls
      BY <2>1, <2>2, StepQueueCounted
    <3>2. file' \in Uploads \cup {Absent, Wiped}
      BY <2>1, ScalarTypes, VoicesAssumption DEF VInv, TypeOK, Uploads
    <3>3. calls' \in 0..MaxCalls /\ failures' \in 0..MaxFailures
      BY <2>1, <2>2, ScalarTypes, SessionTypes, VoicesAssumption DEF VInv, TypeOK
    <3> QED
      BY <2>1, <2>2, <3>1, <3>2, <3>3, ScalarTypes, SessionTypes, RankGrows DEF VInv, TypeOK
  <2>4. \A t \in Sessions : CallOK(t)'
    BY <2>2, StepCallOK DEF VInv
  <2>5. ScrubbedOK'
    BY <2>2, StepScrubbedOK DEF VInv
  <2>6. FilesErased' /\ TicketHoldsVoice' /\ LateFindsRevoked' /\ QueueCounted'
    BY <2>1, <2>2, StepFilesErased, StepTicketHoldsVoice, StepLateFindsRevoked, StepQueueCounted
  <2> QED
    BY <2>3, <2>4, <2>5, <2>6 DEF VInv
<1> QED BY <1>1, <1>2, <1>3 DEF Next

\* The invariant holds in every state.
THEOREM VoicesInvariance == Spec => []VInv
    BY InitVInv, StepVInv, PTL DEF Spec

\* Erasure, in every state, for any number of calls in flight: a voice under an open
\* request is on its way out (create_data_deletion_request), and a purged one leaves no
\* recording unless a deletion failed (admin_purge_voice).
THEOREM Erasure == Spec => []VoicesSound
<1>1. VInv => VoicesSound
    BY VoicesAssumption DEF VInv, FilesErased, VoicesSound, ErasedStaysErased, TypeOK
<1> QED BY <1>1, VoicesInvariance, PTL

\* No call ever takes a voice back from purge-pending, deleted or purged
\* (freeze, unfreeze, schedule_purge, execute_purge, soft_delete).
THEOREM OnlyForward == Spec => LifecycleNeverGoesBack
<1>1. VInv /\ [Next]_vars => [Rank(voice') >= Rank(voice)]_vars
  <2> SUFFICES ASSUME VInv, Next PROVE Rank(voice') >= Rank(voice)
    OBVIOUS
  <2> QED BY RowMovesOn, RankGrows DEF VInv
<1> QED BY <1>1, VoicesInvariance, PTL DEF Spec, LifecycleNeverGoesBack

\* No request that arrives after the withdrawal of the voice passes the gate
\* (_ensure_voice_synthesizable).
THEOREM GateClosed == Spec => WithdrawnNeverAdmitted
<1> DEFINE Closed == \A s \in Sessions :
               step[s] = "gate" /\ late[s] /\ step'[s] = "idle" => queued' <= queued
<1>1. VInv /\ [Next]_vars => [Closed]_vars
  <2> SUFFICES ASSUME VInv, Next,
                      NEW s \in Sessions, step[s] = "gate", late[s], step'[s] = "idle"
               PROVE  queued' <= queued
    OBVIOUS
  <2>1. consent = "revoked"
    BY DEF VInv, LateFindsRevoked
  <2>2. PICK t \in Sessions : Call(t)
    BY DEF Next, Tick, VInv, TypeOK
  <2>3. CASE t = s
    BY <2>1, <2>2, <2>3, ScalarTypes, VoicesAssumption DEF latest_active, VInv, TypeOK
  <2>4. CASE t # s
    BY <2>2, <2>4, CallForms, SessionTypes DEF VInv
  <2> QED BY <2>3, <2>4
<1> QED BY <1>1, VoicesInvariance, PTL DEF Spec, WithdrawnNeverAdmitted

\* A worker that reads the row after the purge never speaks (resolve_reference).
THEOREM Silence == Spec => TombstoneIsSilent
<1> DEFINE Silent == \A s \in Sessions :
               step[s] = "resolve" /\ snap[s].purged_at # Null /\ step'[s] # "resolve"
                  => spoken' = spoken
<1>1. VInv /\ [Next]_vars => [Silent]_vars
  <2> SUFFICES ASSUME VInv, Next, NEW s \in Sessions,
                      step[s] = "resolve", snap[s].purged_at # Null, step'[s] # "resolve"
               PROVE  spoken' = spoken
    OBVIOUS
  <2>1. ~snap[s].reference
    BY DEF VInv, CallOK, Holding, ScrubbedOK
  <2>2. PICK t \in Sessions : Call(t)
    BY DEF Next, Tick
  <2>3. CASE t = s
    BY <2>1, <2>2, <2>3, ScalarTypes DEF Resolve, VInv
  <2>4. CASE t # s
    BY <2>2, <2>4, CallForms, SessionTypes DEF VInv
  <2> QED BY <2>3, <2>4
<1> QED BY <1>1, VoicesInvariance, PTL DEF Spec, TombstoneIsSilent

=============================================================================
