----------------------------- MODULE RecordsProofs -----------------------------
(***************************************************************************)
(* Proofs about the records a gateway and its workers consult: whose voice *)
(* a slug stands for (Sharing), which audio is marked (Watermarks) and who *)
(* may call (Access).                                                      *)
(***************************************************************************)
EXTENDS Sharing, Watermarks, Access, FiniteSetTheorems, WellFoundedInduction, TLAPS

-----------------------------------------------------------------------------
(* Natural numbers.                                                        *)

\* The order of the natural numbers is well founded.
LEMMA NatOrder ==
    \E R : IsWellFoundedOn(R, Nat) /\ \A x, y \in Nat : x < y => <<x, y>> \in R
<1> DEFINE R == OpToRel(<, Nat)
<1>1. IsWellFoundedOn(R, Nat)
    BY NatLessThanWellFounded
<1>2. \A x, y \in Nat : x < y => <<x, y>> \in R
    BY DEF OpToRel
<1> QED BY <1>1, <1>2, Zenon

\* A set of natural numbers has a least member, and Min picks it.
LEMMA LeastMember ==
    ASSUME NEW S, S \subseteq Nat, S # {}
    PROVE  Min(S) \in S /\ \A n \in S : Min(S) <= n
<1>1. PICK R : IsWellFoundedOn(R, Nat) /\ \A x, y \in Nat : x < y => <<x, y>> \in R
    BY NatOrder
<1>2. IsWellFoundedOn(R, Nat)
    BY <1>1
<1>3. \E x \in S : \A y \in S : ~(<<y, x>> \in R)
    BY <1>2, WFMin
<1>4. PICK x \in S : \A y \in S : ~(<<y, x>> \in R)
    BY <1>3
<1>5. \A y \in S : ~(y < x)
    BY <1>1, <1>4
<1>6. \A y \in S : x <= y
    BY <1>5
<1> QED BY <1>6 DEF Min

\* Min and Max of a set of integers between two bounds are its least and its greatest member.
LEMMA Bounds ==
    ASSUME NEW S \in SUBSET Int, S # {}, NEW lo \in Int, NEW hi \in Int,
           \A x \in S : lo <= x /\ x <= hi
    PROVE  /\ Min(S) \in S /\ \A x \in S : Min(S) <= x
           /\ Max(S) \in S /\ \A x \in S : x <= Max(S)
<1>1. \E x \in S : \A y \in S : x <= y
  <2> DEFINE T == {x - lo : x \in S}
  <2>1. T \in SUBSET Nat /\ T # {}
    <3>1. \A x \in S : x - lo \in Nat
      OBVIOUS
    <3> QED BY <3>1
  <2>2. PICK n \in T : \A m \in T : n <= m
    <3> HIDE DEF T
    <3> QED BY <2>1, LeastMember
  <2>3. PICK x \in S : n = x - lo
    OBVIOUS
  <2>4. \A y \in S : x - lo <= y - lo
    BY <2>2, <2>3
  <2> QED BY <2>3, <2>4
<1>2. \E x \in S : \A y \in S : y <= x
  <2> DEFINE T == {hi - x : x \in S}
  <2>1. T \in SUBSET Nat /\ T # {}
    <3>1. \A x \in S : hi - x \in Nat
      OBVIOUS
    <3> QED BY <3>1
  <2>2. PICK n \in T : \A m \in T : n <= m
    <3> HIDE DEF T
    <3> QED BY <2>1, LeastMember
  <2>3. PICK x \in S : n = hi - x
    OBVIOUS
  <2>4. \A y \in S : hi - x <= hi - y
    BY <2>2, <2>3
  <2> QED BY <2>3, <2>4
<1>3. Min(S) \in S /\ \A x \in S : Min(S) <= x
    BY <1>1, Zenon DEF Min
<1>4. Max(S) \in S /\ \A x \in S : Max(S) >= x
    BY <1>2, Zenon DEF Max
<1> QED BY <1>3, <1>4

-----------------------------------------------------------------------------
(* Whose voice a slug stands for.                                          *)

\* Every row that was ever enrolled is in the order of creation.
EnrolledIsBorn ==
    \A o \in Owners : shelf[o].state # "none" => \E i \in DOMAIN born : born[i] = o

\* What is known of the owner a look-up has found so far, or has ruled out.
LookupOK ==
    /\ lookup.owner # Nobody => lookup.at = "speaks"
    /\ SpokenWasOpen
    /\ lookup.at \in {"shared", "public"} => lookup.since.without
    /\ OwnVoiceFirst

SharingInv == SharingTypeOK /\ EnrolledIsBorn /\ LookupOK

\* The first row of a query is one of its rows.
LEMMA OldestOfMany ==
    ASSUME born \in Seq(Owners), EnrolledIsBorn, NEW os \in SUBSET Owners, os # {},
           \A o \in os : Live(o)
    PROVE  Oldest(os) \in os
<1> DEFINE S == {i \in DOMAIN born : born[i] \in os}
<1>1. S \subseteq Nat
    OBVIOUS
<1>2. S # {}
    BY DEF EnrolledIsBorn, Live
<1>3. Min(S) \in S
    BY <1>1, <1>2, LeastMember
<1> QED BY <1>3 DEF Oldest

\* What the three queries return is live, and open to the viewer; what they do
\* not return is not there.
LEMMA QueryRows ==
    ASSUME SharingTypeOK, EnrolledIsBorn, NEW v
    PROVE  /\ Shared(v) # Nobody =>
                Shared(v) \in Owners /\ Live(Shared(v)) /\ <<v, Shared(v)>> \in grants
           /\ Shared(v) = Nobody => ~\E o \in Owners : <<v, o>> \in grants /\ Live(o)
           /\ Public # Nobody =>
                Public \in Owners /\ Live(Public) /\ shelf[Public].visibility = "public"
           /\ Public = Nobody => ~\E o \in Owners : shelf[o].visibility = "public" /\ Live(o)
<1>1. ASSUME NEW os \in SUBSET Owners, \A o \in os : Live(o)
      PROVE  IF os = {} THEN Oldest(os) = Nobody ELSE Oldest(os) \in os /\ Oldest(os) # Nobody
  <2>1. CASE os = {}
    BY <2>1 DEF Oldest
  <2>2. CASE os # {}
    <3>1. Oldest(os) \in os
      BY <1>1, <2>2, OldestOfMany DEF SharingTypeOK
    <3> QED BY <2>2, <3>1, NobodyAssumption
  <2> QED BY <2>1, <2>2
<1> DEFINE G == {o \in Owners : <<v, o>> \in grants /\ Live(o)}
           P == {o \in Owners : shelf[o].visibility = "public" /\ Live(o)}
<1>2. IF G = {} THEN Shared(v) = Nobody ELSE Shared(v) \in G /\ Shared(v) # Nobody
  <2>1. G \in SUBSET Owners /\ \A o \in G : Live(o)
    OBVIOUS
  <2>2. Shared(v) = Oldest(G)
    BY DEF Shared
  <2> HIDE DEF G
  <2> QED BY <1>1, <2>1, <2>2
<1>3. IF P = {} THEN Public = Nobody ELSE Public \in P /\ Public # Nobody
  <2>1. P \in SUBSET Owners /\ \A o \in P : Live(o)
    OBVIOUS
  <2>2. Public = Oldest(P)
    BY DEF Public
  <2> HIDE DEF P
  <2> QED BY <1>1, <2>1, <2>2
<1> QED BY <1>2, <1>3

\* The catalogue shows a voice exactly if the gate opens one, and that one too.
LEMMA GateLemma ==
    SharingTypeOK /\ EnrolledIsBorn => ListMatchesGate
<1> SUFFICES ASSUME SharingTypeOK, EnrolledIsBorn, NEW v \in Viewers
             PROVE  /\ list_accessible(v) = {} <=> get_accessible(v) = Nobody
                    /\ list_accessible(v) # {} => get_accessible(v) \in list_accessible(v)
    BY DEF ListMatchesGate
<1>1. /\ Shared(v) # Nobody =>
           Shared(v) \in Owners /\ Live(Shared(v)) /\ <<v, Shared(v)>> \in grants
      /\ Shared(v) = Nobody => ~\E o \in Owners : <<v, o>> \in grants /\ Live(o)
      /\ Public # Nobody =>
           Public \in Owners /\ Live(Public) /\ shelf[Public].visibility = "public"
      /\ Public = Nobody => ~\E o \in Owners : shelf[o].visibility = "public" /\ Live(o)
    BY QueryRows
<1>2. get_accessible(v) # Nobody => get_accessible(v) \in list_accessible(v)
    BY <1>1 DEF get_accessible, list_accessible, OwnsLive
<1>3. get_accessible(v) = Nobody => list_accessible(v) = {}
    BY <1>1, NobodyAssumption DEF get_accessible, list_accessible, OwnsLive
<1> QED BY <1>2, <1>3

-----------------------------------------------------------------------------

\* Only a look-up under way gains history.
LEMMA WatchedForm ==
    ASSUME SharingTypeOK
    PROVE  /\ Watched \in VoiceLookup
           /\ Watched.at = lookup.at /\ Watched.viewer = lookup.viewer
           /\ Watched.owner = lookup.owner
           /\ lookup.since.open \subseteq Watched.since.open
           /\ lookup.since.without => Watched.since.without
           /\ lookup.at \in {"owned", "shared", "public"} =>
                /\ Watched.since.without <=> lookup.since.without \/ ~OwnsLive(lookup.viewer)
                /\ \A o \in Owners :
                     Live(o) /\ (o = lookup.viewer \/ <<lookup.viewer, o>> \in grants
                                 \/ shelf[o].visibility = "public")
                     => o \in Watched.since.open
<1> DEFINE v == lookup.viewer
           n == Now(v, lookup.since)
<1>1. lookup \in VoiceLookup /\ lookup.since \in Since
    BY DEF SharingTypeOK, VoiceLookup
<1>2. /\ n \in Since /\ lookup.since.open \subseteq n.open
      /\ n.without <=> lookup.since.without \/ ~OwnsLive(v)
      /\ \A o \in Owners :
            Live(o) /\ (o = v \/ <<v, o>> \in grants \/ shelf[o].visibility = "public")
            => o \in n.open
    BY <1>1 DEF Now, Since
<1>3. CASE lookup.at \in {"idle", "speaks"}
    BY <1>1, <1>3 DEF Watched
<1>4. CASE lookup.at \in {"owned", "shared", "public"}
  <2>1. Watched = [lookup EXCEPT !.since = n]
    BY <1>4 DEF Watched
  <2> HIDE DEF n
  <2> QED BY <1>1, <1>2, <1>4, <2>1 DEF VoiceLookup
<1> QED BY <1>1, <1>3, <1>4 DEF VoiceLookup

\* A step that only watches keeps what is known of the look-up.
LEMMA WatchedKeeps ==
    ASSUME SharingTypeOK, LookupOK, lookup' = Watched
    PROVE  LookupOK' /\ lookup' \in VoiceLookup
BY WatchedForm DEF LookupOK, SpokenWasOpen, OwnVoiceFirst

\* The answer of a query, and what the worker does with it.
LEMMA ResolvedKeeps ==
    ASSUME SharingTypeOK, LookupOK, NEW o \in Owners \cup {Nobody},
           NEW next \in {"shared", "public", "idle"}, Resolved(o, next),
           lookup.at \in {"owned", "shared", "public"},
           o # Nobody => o \in Watched.since.open,
           o \notin {Nobody, lookup.viewer} => Watched.since.without,
           o = Nobody /\ next # "idle" => Watched.since.without
    PROVE  LookupOK' /\ lookup' \in VoiceLookup
<1> DEFINE u == Watched
<1>1. u \in VoiceLookup /\ u.at = lookup.at /\ u.viewer = lookup.viewer /\ u.owner = lookup.owner
    BY WatchedForm
<1>2. u.owner = Nobody
    BY <1>1 DEF LookupOK
<1>3. NoLookup \in VoiceLookup /\ NoLookup.owner = Nobody /\ NoLookup.at = "idle"
    BY DEF NoLookup, NoSince, VoiceLookup, Since
<1> HIDE DEF u
<1>4. CASE o # Nobody
  <2>1. lookup' = [u EXCEPT !.at = "speaks", !.owner = o]
    BY <1>4 DEF Resolved, u
  <2>2. /\ lookup' \in VoiceLookup /\ lookup'.at = "speaks" /\ lookup'.owner = o
        /\ lookup'.viewer = lookup.viewer /\ lookup'.since = u.since
    BY <1>1, <1>4, <2>1 DEF VoiceLookup
  <2> QED BY <1>4, <2>2 DEF LookupOK, SpokenWasOpen, OwnVoiceFirst, u
<1>5. CASE o = Nobody /\ next = "idle"
    BY <1>3, <1>5 DEF Resolved, LookupOK, SpokenWasOpen, OwnVoiceFirst
<1>6. CASE o = Nobody /\ next # "idle"
  <2>1. lookup' = [u EXCEPT !.at = next]
    BY <1>6 DEF Resolved, u
  <2>2. /\ lookup' \in VoiceLookup /\ lookup'.at = next /\ lookup'.owner = Nobody
        /\ lookup'.since = u.since
    BY <1>1, <1>2, <1>6, <2>1 DEF VoiceLookup
  <2> QED BY <1>6, <2>2 DEF LookupOK, SpokenWasOpen, OwnVoiceFirst, u
<1> QED BY <1>4, <1>5, <1>6

\* Each of the three queries.
LEMMA QueryKeeps ==
    ASSUME SharingInv, Query
    PROVE  LookupOK' /\ lookup' \in VoiceLookup
<1> DEFINE v == lookup.viewer
           own == IF OwnsLive(v) THEN v ELSE Nobody
<1>0. SharingTypeOK /\ EnrolledIsBorn /\ LookupOK /\ v \in Viewers \cup {Nobody}
    BY DEF SharingInv, SharingTypeOK, VoiceLookup
<1>1. /\ Shared(v) # Nobody =>
           Shared(v) \in Owners /\ Live(Shared(v)) /\ <<v, Shared(v)>> \in grants
      /\ Public # Nobody =>
           Public \in Owners /\ Live(Public) /\ shelf[Public].visibility = "public"
    BY <1>0, QueryRows
<1>2. lookup.at \in {"owned", "shared", "public"} =>
        /\ Watched.since.without <=> lookup.since.without \/ ~OwnsLive(v)
        /\ \A o \in Owners :
             Live(o) /\ (o = v \/ <<v, o>> \in grants \/ shelf[o].visibility = "public")
             => o \in Watched.since.open
    BY <1>0, WatchedForm
<1>3. CASE lookup.at = "owned" /\ Resolved(own, "shared")
  <2>1. own \in Owners \cup {Nobody}
    BY DEF OwnsLive
  <2>2. own # Nobody => own = v /\ v \in Owners /\ Live(v)
    BY DEF OwnsLive
  <2>3. own = Nobody => ~OwnsLive(v)
    BY NobodyAssumption DEF OwnsLive
  <2> HIDE DEF own
  <2> QED BY <1>0, <1>2, <1>3, <2>1, <2>2, <2>3, ResolvedKeeps
<1>4. CASE lookup.at = "shared" /\ Resolved(Shared(v), "public")
  <2>1. lookup.since.without
    BY <1>0, <1>4 DEF LookupOK
  <2>2. Shared(v) \in Owners \cup {Nobody}
    BY <1>1
  <2> QED BY <1>0, <1>1, <1>2, <1>4, <2>1, <2>2, ResolvedKeeps
<1>5. CASE lookup.at = "public" /\ Resolved(Public, "idle")
  <2>1. lookup.since.without
    BY <1>0, <1>5 DEF LookupOK
  <2>2. Public \in Owners \cup {Nobody}
    BY <1>1
  <2> QED BY <1>0, <1>1, <1>2, <1>5, <2>1, <2>2, ResolvedKeeps
<1> QED BY <1>3, <1>4, <1>5 DEF Query

\* The shelf and the grants keep their types, and every row is in the order of creation.
LEMMA RowsKeep ==
    ASSUME SharingTypeOK, EnrolledIsBorn, [SharingNext]_sharingVars
    PROVE  /\ shelf' \in [Owners -> Shelf] /\ born' \in Seq(Owners)
           /\ grants' \subseteq Viewers \X Owners /\ waiting' \subseteq Viewers
           /\ EnrolledIsBorn'
<1> USE DEF SharingTypeOK
<1>1. ASSUME NEW o \in Owners, Enroll(o)
      PROVE  /\ shelf' \in [Owners -> Shelf] /\ born' \in Seq(Owners)
             /\ grants' \subseteq Viewers \X Owners /\ waiting' \subseteq Viewers
             /\ EnrolledIsBorn'
  <2>1. PICK vis \in Visibility :
          shelf' = [shelf EXCEPT ![o] = [state |-> "live", visibility |-> vis]]
    BY <1>1 DEF Enroll
  <2>2. [state |-> "live", visibility |-> vis] \in Shelf
    BY DEF Shelf
  <2>3. /\ born' = Append(born, o) /\ Len(born') = Len(born) + 1 /\ born'[Len(born) + 1] = o
        /\ \A i \in DOMAIN born : i \in DOMAIN born' /\ born'[i] = born[i]
        /\ Len(born) + 1 \in DOMAIN born' /\ born' \in Seq(Owners)
    BY <1>1 DEF Enroll
  <2>4. ASSUME NEW p \in Owners, shelf'[p].state # "none"
        PROVE  \E i \in DOMAIN born' : born'[i] = p
    <3>1. CASE p = o
      BY <2>3, <3>1
    <3>2. CASE p # o
      <4>1. PICK i \in DOMAIN born : born[i] = p
        BY <2>1, <2>4, <3>2 DEF EnrolledIsBorn
      <4> QED BY <2>3, <4>1
    <3> QED BY <3>1, <3>2
  <2> QED BY <1>1, <2>1, <2>2, <2>3, <2>4 DEF Enroll, EnrolledIsBorn
<1>2. ASSUME NEW o \in Owners, update_voice(o) \/ soft_delete(o)
      PROVE  shelf' \in [Owners -> Shelf] /\ EnrolledIsBorn' /\ UNCHANGED <<born, grants, waiting>>
  <2>1. PICK new \in Shelf : shelf' = [shelf EXCEPT ![o] = new]
    <3>1. shelf[o] \in Shelf
      OBVIOUS
    <3>2. \A vis \in Visibility :
            [shelf EXCEPT ![o].visibility = vis]
            = [shelf EXCEPT ![o] = [shelf[o] EXCEPT !.visibility = vis]]
            /\ [shelf[o] EXCEPT !.visibility = vis] \in Shelf
      BY <3>1 DEF Shelf
    <3>3. /\ [shelf EXCEPT ![o].state = "deleted"]
               = [shelf EXCEPT ![o] = [shelf[o] EXCEPT !.state = "deleted"]]
          /\ [shelf[o] EXCEPT !.state = "deleted"] \in Shelf
      BY <3>1 DEF Shelf
    <3> QED BY <1>2, <3>2, <3>3 DEF update_voice, update_metadata, soft_delete
  <2>2. shelf[o].state # "none"
    BY <1>2 DEF update_voice, soft_delete, Live
  <2> QED BY <1>2, <2>1, <2>2 DEF update_voice, soft_delete, EnrolledIsBorn
<1>3. CASE Grant \/ Revoke \/ Query \/ Spoken \/ UNCHANGED sharingVars
    BY <1>3 DEF Grant, Revoke, Query, Spoken, sharingVars, EnrolledIsBorn
<1>4. CASE \E v \in Viewers : Ask(v) \/ Pick(v)
    BY <1>4 DEF Ask, Pick, EnrolledIsBorn
<1> QED BY <1>1, <1>2, <1>3, <1>4 DEF SharingNext

\* The invariant is inductive.
LEMMA SharingInductive ==
    /\ SharingInit => SharingInv
    /\ SharingInv /\ [SharingNext]_sharingVars => SharingInv'
<1>0. NoLookup \in VoiceLookup /\ NoLookup.owner = Nobody /\ NoLookup.at = "idle"
    BY DEF NoLookup, NoSince, VoiceLookup, Since
<1>1. SharingInit => SharingInv
  <2> SUFFICES ASSUME SharingInit PROVE SharingInv
    OBVIOUS
  <2>1. SharingTypeOK
    BY <1>0 DEF SharingInit, SharingTypeOK, Shelf, Visibility
  <2>2. EnrolledIsBorn
    BY DEF SharingInit, EnrolledIsBorn
  <2>3. LookupOK
    BY <1>0 DEF SharingInit, LookupOK, SpokenWasOpen, OwnVoiceFirst
  <2> QED BY <2>1, <2>2, <2>3 DEF SharingInv
<1>2. ASSUME SharingInv, [SharingNext]_sharingVars PROVE SharingInv'
  <2>1. SharingTypeOK /\ EnrolledIsBorn /\ LookupOK
    BY <1>2 DEF SharingInv
  <2>2. /\ shelf' \in [Owners -> Shelf] /\ born' \in Seq(Owners)
        /\ grants' \subseteq Viewers \X Owners /\ waiting' \subseteq Viewers
        /\ EnrolledIsBorn'
    BY <1>2, <2>1, RowsKeep
  <2>3. LookupOK' /\ lookup' \in VoiceLookup
    <3>1. CASE lookup' = Watched
      BY <2>1, <3>1, WatchedKeeps
    <3>2. CASE Query
      BY <1>2, <3>2, QueryKeeps
    <3>3. CASE lookup' = lookup
      BY <2>1, <3>3 DEF LookupOK, SpokenWasOpen, OwnVoiceFirst, SharingTypeOK
    <3>4. CASE lookup' = NoLookup
      BY <1>0, <3>4 DEF LookupOK, SpokenWasOpen, OwnVoiceFirst
    <3>5. ASSUME NEW v \in Viewers, Pick(v)
          PROVE  LookupOK' /\ lookup' \in VoiceLookup
      <4>1. lookup' = [at |-> "owned", viewer |-> v, owner |-> Nobody, since |-> NoSince]
        BY <3>5 DEF Pick, NoLookup
      <4>2. NoSince \in Since
        BY DEF NoSince, Since
      <4> QED BY <4>1, <4>2 DEF VoiceLookup, LookupOK, SpokenWasOpen, OwnVoiceFirst
    <3> QED
      BY <1>2, <3>1, <3>2, <3>3, <3>4, <3>5
         DEF SharingNext, sharingVars, Enroll, update_voice, soft_delete, Grant, Revoke, Ask,
             Spoken
  <2> QED BY <2>2, <2>3 DEF SharingInv, SharingTypeOK
<1> QED BY <1>1, <1>2

\* The voice a worker speaks with was open to the job's tenant after the job was picked up
\* (get_accessible at the worker), for any owners, viewers and grants.
THEOREM SpokenOpen == SharingSpec => []SpokenWasOpen
<1>1. SharingInv => SpokenWasOpen
    BY DEF SharingInv, LookupOK
<1> QED BY <1>1, SharingInductive, PTL DEF SharingSpec

\* One's own voice comes first, and the catalogue and the gate agree.
THEOREM SharingHolds == SharingSpec => []SharingSound
<1>1. SharingInv => SharingSound
    BY GateLemma DEF SharingInv, LookupOK, SharingSound
<1> QED BY <1>1, SharingInductive, PTL DEF SharingSpec

-----------------------------------------------------------------------------
(* Which audio is marked.                                                  *)

\* Key k carries payload b, and is the newest of the first n allocations that does.
Newest(k, b, n) ==
    /\ k \in 1..n
    /\ n <= Len(keys)
    /\ keys[k].message_bits = b
    /\ \A j \in 1..n : keys[j].message_bits = b => j <= k

\* A payload has one active key, and that is its newest.
OneActive ==
    \A j, k \in 1..Len(keys) :
        j < k /\ keys[j].message_bits = keys[k].message_bits => keys[j].retired

\* A job with a payload knows its key; a job that may speak of a voice that requires the
\* mark has a payload and a model.
SpeakingOK ==
    \A w \in MarkWorkers :
        /\ speaking[w].at \in {"probe", "chunks"} /\ speaking[w].bits # NoPayload =>
             Newest(speaking[w].key, speaking[w].bits, speaking[w].vintage)
        /\ speaking[w].at = "chunks" /\ marked.required =>
             speaking[w].bits # NoPayload /\ applier[w] = "loaded"

\* The mark in a clip leads to the key its voice had: the newest one with that payload when
\* the job read it (what admin_detect_watermark has to find).
ClipHasKey ==
    clip.tensor # <<>> =>
        \E b \in Payloads : clip.tensor = Embed(b) /\ Newest(clip.key, b, clip.vintage)

\* An INSERT has a payload.
InsertOK == \A o \in MarkOperators : edit[o].at = "insert" => edit[o].bits \in Payloads

MarkInv == MarkTypeOK /\ InsertOK /\ OneActive /\ SpeakingOK /\ RequiredIsMarked /\ ClipHasKey

\* The rows are a sequence.
LEMMA KeysForm ==
    ASSUME NEW s
    PROVE  s \in BoundedSeq(WatermarkKey, MaxKeys) <=>
             s \in Seq(WatermarkKey) /\ Len(s) <= MaxKeys
BY WatermarksAssumption DEF BoundedSeq, SeqOf

\* The weights of the bits: the powers of two (1 << i).  There is such a function, so Weight
\* is one.
LEMMA Weights ==
    /\ Weight \in [0..PayloadBits -> Nat]
    /\ Weight[0] = 1
    /\ \A i \in 1..PayloadBits : Weight[i] = 2 * Weight[i - 1]
<1> DEFINE Powers(f, n) == /\ f \in [0..n -> Nat] /\ f[0] = 1
                           /\ \A i \in 1..n : f[i] = 2 * f[i - 1]
           S == {n \in Nat : ~\E f : Powers(f, n)}
<1>1. PayloadBits \in Nat
    BY WatermarksAssumption
<1>2. S = {}
  <2> SUFFICES ASSUME S # {} PROVE FALSE
    OBVIOUS
  <2>1. PICK n \in S : \A m \in S : n <= m
    <3>1. S \subseteq Nat
      OBVIOUS
    <3> HIDE DEF S
    <3> QED BY <3>1, LeastMember
  <2>2. Powers([i \in 0..0 |-> 1], 0)
    <3>1. \A i \in 1..0 : FALSE
      OBVIOUS
    <3>2. [i \in 0..0 |-> 1] \in [0..0 -> Nat] /\ [i \in 0..0 |-> 1][0] = 1
      OBVIOUS
    <3> QED BY <3>1, <3>2
  <2>3. n \in Nat /\ n # 0 /\ ~\E f : Powers(f, n)
    BY <2>1, <2>2
  <2>4. n - 1 \in Nat /\ n - 1 \notin S
    <3>1. n \in Nat /\ n # 0 /\ ~(n <= n - 1)
      BY <2>3
    <3> HIDE DEF S
    <3> QED BY <2>1, <3>1
  <2>5. PICK f : Powers(f, n - 1)
    BY <2>4
  <2>6. Powers([i \in 0..n |-> IF i = n THEN 2 * f[n - 1] ELSE f[i]], n)
    BY <2>3, <2>5
  <2> QED BY <2>3, <2>6
<1>3. PICK f : Powers(f, PayloadBits)
    BY <1>1, <1>2
<1>4. f = [i \in 0..PayloadBits |-> IF i = 0 THEN 1 ELSE 2 * f[i - 1]]
    BY <1>1, <1>3
<1>5. Weight = [i \in 0..PayloadBits |-> IF i = 0 THEN 1 ELSE 2 * Weight[i - 1]]
    BY <1>4, Zenon DEF Weight
<1>6. ASSUME NEW i \in 0..PayloadBits, Weight[i] # f[i] PROVE FALSE
  <2> DEFINE U == {j \in 0..PayloadBits : Weight[j] # f[j]}
  <2>1. PICK n \in U : \A m \in U : n <= m
    <3>1. U \subseteq Nat /\ U # {}
      BY <1>1, <1>6
    <3> HIDE DEF U
    <3> QED BY <3>1, LeastMember
  <2>2. n # 0
    BY <1>1, <1>3, <1>5, <2>1
  <2>3. n - 1 \in 0..PayloadBits /\ n - 1 \notin U
    BY <1>1, <2>1, <2>2
  <2>4. Weight[n] = 2 * Weight[n - 1] /\ f[n] = 2 * f[n - 1]
    BY <1>1, <1>3, <1>5, <2>1, <2>2
  <2> QED BY <2>1, <2>3, <2>4
<1>7. Weight = f
  BY <1>4, <1>5, <1>6
<1> QED BY <1>1, <1>3, <1>7

\* No weight is zero.
LEMMA WeightPositive ==
    ASSUME NEW n \in 0..PayloadBits
    PROVE  Weight[n] \in Nat \ {0}
<1>1. PayloadBits \in Nat
    BY WatermarksAssumption
<1> DEFINE U == {j \in 0..PayloadBits : Weight[j] = 0}
<1>2. SUFFICES ASSUME U # {} PROVE FALSE
    BY Weights
<1>3. PICK m \in U : \A j \in U : m <= j
  <2>1. U \subseteq Nat
    BY <1>1
  <2> HIDE DEF U
  <2> QED BY <1>2, <2>1, LeastMember
<1>4. m # 0
    BY <1>3, Weights
<1>5. m \in 1..PayloadBits /\ m - 1 \in 0..PayloadBits /\ m - 1 \notin U
    BY <1>1, <1>3, <1>4
<1> QED BY <1>3, <1>5, Weights

\* A number is its quotient and its remainder.
LEMMA Divided ==
    ASSUME NEW b \in Nat, NEW p \in Nat \ {0}
    PROVE  \E q, r \in Nat : q = b \div p /\ r = b % p /\ b = p * q + r /\ r < p
OBVIOUS

\* There is one remainder.
LEMMA OneRemainder ==
    ASSUME NEW d \in Nat \ {0}, NEW k \in Nat, NEW r \in Nat, r < d
    PROVE  (d * k + r) % d = r
<1> DEFINE x == d * k + r
<1>1. x \in Nat
    OBVIOUS
<1>2. PICK q, s \in Nat : q = x \div d /\ s = x % d /\ x = d * q + s /\ s < d
  <2> HIDE DEF x
  <2> QED BY <1>1, Divided
<1>3. d * (q - k) = r - s
    BY <1>2
<1>4. CASE q > k
  <2>1. d * (q - k) >= d
    BY <1>4
  <2> QED BY <1>2, <1>3, <2>1
<1>5. CASE q < k
  <2>1. d * (k - q) >= d
    BY <1>5
  <2>2. d * (k - q) = s - r
    BY <1>2
  <2> QED BY <1>2, <2>1, <2>2
<1>6. CASE q = k
    BY <1>2, <1>3, <1>6
<1> QED BY <1>4, <1>5, <1>6

\* One more bit of a number.
LEMMA NextBit ==
    ASSUME NEW b \in Nat, NEW p \in Nat \ {0}
    PROVE  b % (2 * p) = (b % p) + ((b \div p) % 2) * p
<1>1. PICK q, r \in Nat : q = b \div p /\ r = b % p /\ b = p * q + r /\ r < p
    BY Divided
<1>2. PICK h, o \in Nat : h = q \div 2 /\ o = q % 2 /\ q = 2 * h + o /\ o < 2
    OBVIOUS
<1>3. b = (2 * p) * h + (o * p + r)
  <2>1. p * (2 * h + o) = (2 * p) * h + o * p
    OBVIOUS
  <2>2. p * q = p * (2 * h + o)
    BY <1>2
  <2>3. PICK x, y, z \in Int : x = p * q /\ y = (2 * p) * h /\ z = o * p
    OBVIOUS
  <2>4. b = x + r /\ x = y + z
    BY <1>1, <2>1, <2>2, <2>3
  <2> QED BY <2>3, <2>4
<1>4. o * p + r \in Nat /\ o * p + r < 2 * p
  <2>1. o = 0 \/ o = 1
    BY <1>2
  <2> QED BY <1>1, <2>1
<1>5. ((2 * p) * h + (o * p + r)) % (2 * p) = o * p + r
  <2>1. PICK d \in Nat \ {0} : d = 2 * p
    OBVIOUS
  <2>2. PICK v \in Nat : v = o * p + r
    BY <1>4
  <2>3. (d * h + v) % d = v
    BY <1>4, <2>1, <2>2, OneRemainder
  <2> QED BY <2>1, <2>2, <2>3, Zenon
<1>6. b % (2 * p) = o * p + r
    BY <1>3, <1>5, Zenon
<1>7. PICK z \in Nat : z = o * p
    BY <1>2
<1>8. b % (2 * p) = r + z
    BY <1>6, <1>7
<1> QED BY <1>1, <1>2, <1>7, <1>8, Zenon

\* The detector reads what the generator wrote: the bits of a payload are summed to it
\* (WatermarkApplier.watermark_pcm, WatermarkDetector.detect).
LEMMA DecodeEmbed ==
    ASSUME NEW b \in Payloads
    PROVE  Decode(Embed(b)) = b
<1> DEFINE bit(i) == (b \div Weight[i]) % 2
           f == [i \in 0..PayloadBits |-> b % Weight[i]]
           Sums(g) == g = [i \in 0..PayloadBits |->
                              IF i = 0 THEN 0 ELSE g[i - 1] + Embed(b)[i - 1] * Weight[i - 1]]
           g == CHOOSE g : Sums(g)
<1>1. PayloadBits \in Nat /\ b \in Nat /\ b < Weight[PayloadBits]
  <2>1. Weight[PayloadBits] \in Nat
    BY WatermarksAssumption, Weights
  <2> QED BY <2>1, WatermarksAssumption
<1>2. \A i \in 1..PayloadBits : Embed(b)[i - 1] = bit(i - 1)
    BY <1>1 DEF Embed
<1>3. b % Weight[0] = 0
    BY <1>1, Weights
<1>4. ASSUME NEW i \in 1..PayloadBits
      PROVE  b % Weight[i] = (b % Weight[i - 1]) + bit(i - 1) * Weight[i - 1]
  <2>1. Weight[i] = 2 * Weight[i - 1]
    BY Weights
  <2>2. Weight[i - 1] \in Nat \ {0}
    BY <1>1, WeightPositive
  <2> QED BY <1>1, <2>1, <2>2, NextBit
<1>5. Sums(f)
  <2>1. ASSUME NEW i \in 0..PayloadBits
        PROVE  b % Weight[i] = IF i = 0 THEN 0 ELSE f[i - 1] + Embed(b)[i - 1] * Weight[i - 1]
    <3>1. CASE i = 0
      BY <1>3, <3>1
    <3>2. CASE i # 0
      <4>1. i \in 1..PayloadBits /\ i - 1 \in 0..PayloadBits
        BY <1>1, <3>2
      <4>2. f[i - 1] = b % Weight[i - 1]
        BY <4>1
      <4> QED BY <1>2, <1>4, <3>2, <4>1, <4>2
    <3> QED BY <3>1, <3>2
  <2> QED BY <2>1
<1>6. Sums(g)
    BY <1>5, Zenon
<1>7. \A i \in 0..PayloadBits : g[i] = b % Weight[i]
  <2> HIDE DEF g
  <2> DEFINE U == {j \in 0..PayloadBits : g[j] # b % Weight[j]}
  <2>1. SUFFICES ASSUME U # {} PROVE FALSE
    OBVIOUS
  <2>2. PICK n \in U : \A m \in U : n <= m
    <3>1. U \subseteq Nat
      BY <1>1
    <3> HIDE DEF U
    <3> QED BY <2>1, <3>1, LeastMember
  <2>3. n # 0
    BY <1>1, <1>3, <1>6, <2>2
  <2>4. n \in 1..PayloadBits /\ n - 1 \in 0..PayloadBits /\ n - 1 \notin U
    BY <1>1, <2>2, <2>3
  <2>5. g[n] = g[n - 1] + bit(n - 1) * Weight[n - 1]
    BY <1>2, <1>6, <2>3, <2>4
  <2>6. g[n - 1] = b % Weight[n - 1]
    BY <2>4
  <2> QED BY <1>4, <2>2, <2>4, <2>5, <2>6
<1>8. Decode(Embed(b)) = g[PayloadBits]
    BY Zenon DEF Decode
<1>9. b % Weight[PayloadBits] = b
  <2>1. PICK d \in Nat \ {0} : d = Weight[PayloadBits]
    BY <1>1, WeightPositive
  <2>2. d * 0 + b = b
    BY <1>1, <2>1
  <2> QED BY <1>1, <2>1, <2>2, OneRemainder
<1> HIDE DEF g
<1> QED BY <1>1, <1>7, <1>8, <1>9

\* A payload and its bits.
LEMMA EmbedType ==
    ASSUME NEW b \in Payloads
    PROVE  Embed(b) \in [0..PayloadBits - 1 -> {0, 1}] /\ Embed(b) # <<>> /\ b # NoPayload
<1>0. b \in Nat
    BY WatermarksAssumption, WeightPositive
<1>1. PayloadBits \in Nat \ {0}
    BY WatermarksAssumption
<1>2. ASSUME NEW i \in 0..PayloadBits - 1 PROVE (b \div Weight[i]) % 2 \in {0, 1}
  <2>1. PICK w \in Nat \ {0} : w = Weight[i]
    BY <1>1, WeightPositive
  <2>2. b \in Nat
    BY <1>0
  <2> QED BY <2>1, <2>2
<1>3. 0 \in DOMAIN Embed(b) /\ DOMAIN <<>> = {}
    BY <1>1 DEF Embed
<1>4. b # NoPayload
    BY <1>0 DEF NoPayload
<1> QED BY <1>1, <1>2, <1>3, <1>4 DEF Embed

\* Rows are only added, and keep their payload.
KeysGrow ==
    /\ Len(keys) <= Len(keys')
    /\ \A k \in 1..Len(keys) : keys'[k].message_bits = keys[k].message_bits

\* What a step does to the rows (allocate, retire).
LEMMA KeysStep ==
    ASSUME MarkTypeOK, InsertOK, OneActive, [MarkNext]_markVars
    PROVE  keys' \in BoundedSeq(WatermarkKey, MaxKeys) /\ KeysGrow /\ OneActive'
<1>0. keys \in Seq(WatermarkKey) /\ Len(keys) <= MaxKeys /\ MaxKeys \in Nat
    BY KeysForm, WatermarksAssumption DEF MarkTypeOK
<1>1. CASE keys' = keys
    BY <1>0, <1>1, KeysForm DEF KeysGrow, OneActive
<1>2. ASSUME NEW o \in MarkOperators, Allocate(o), keys' # keys
      PROVE  keys' \in BoundedSeq(WatermarkKey, MaxKeys) /\ KeysGrow /\ OneActive'
  <2>1. /\ ~Held(edit[o].bits) /\ Len(keys) # MaxKeys
        /\ keys' = Append(keys, [message_bits |-> edit[o].bits, retired |-> FALSE])
    BY <1>2 DEF Allocate
  <2>2. edit[o].bits \in Payloads
    BY <1>2 DEF InsertOK, Allocate
  <2> DEFINE new == [message_bits |-> edit[o].bits, retired |-> FALSE]
  <2>3. /\ new \in WatermarkKey /\ new.message_bits = edit[o].bits /\ ~new.retired
        /\ keys' = Append(keys, new)
    BY <2>1, <2>2 DEF WatermarkKey
  <2>4. \A k \in 1..Len(keys) : keys[k].message_bits = edit[o].bits => keys[k].retired
    BY <1>0, <2>1 DEF Held
  <2> HIDE DEF new
  <2>5. /\ keys' \in Seq(WatermarkKey) /\ Len(keys') = Len(keys) + 1 /\ Len(keys) < MaxKeys
        /\ keys'[Len(keys) + 1] = new
        /\ \A k \in 1..Len(keys) : keys'[k] = keys[k]
    BY <1>0, <2>1, <2>3
  <2>6. OneActive'
    <3> SUFFICES ASSUME NEW j \in 1..Len(keys'), NEW k \in 1..Len(keys'), j < k,
                        keys'[j].message_bits = keys'[k].message_bits
                 PROVE  keys'[j].retired
      BY DEF OneActive
    <3>1. j \in 1..Len(keys) /\ (k \in 1..Len(keys) \/ k = Len(keys) + 1)
      BY <1>0, <2>5
    <3> QED BY <2>3, <2>4, <2>5, <3>1 DEF OneActive
  <2>7. Len(keys) <= Len(keys') /\ Len(keys') <= MaxKeys
    BY <1>0, <2>5
  <2> QED BY <2>5, <2>6, <2>7, KeysForm DEF KeysGrow
<1>3. ASSUME NEW o \in MarkOperators, Retire(o)
      PROVE  keys' \in BoundedSeq(WatermarkKey, MaxKeys) /\ KeysGrow /\ OneActive'
  <2>1. PICK k \in DOMAIN keys : ~keys[k].retired /\ keys' = [keys EXCEPT ![k].retired = TRUE]
    BY <1>3 DEF Retire
  <2> DEFINE new == [keys[k] EXCEPT !.retired = TRUE]
  <2>4. k \in 1..Len(keys) /\ keys[k] \in WatermarkKey /\ keys' = [keys EXCEPT ![k] = new]
    BY <1>0, <2>1
  <2>5. new \in WatermarkKey /\ new.message_bits = keys[k].message_bits /\ new.retired
    BY <2>4 DEF WatermarkKey
  <2> HIDE DEF new
  <2>2. keys' \in Seq(WatermarkKey) /\ Len(keys') = Len(keys)
    BY <1>0, <2>4, <2>5
  <2>3. \A j \in 1..Len(keys) : /\ keys'[j].message_bits = keys[j].message_bits
                                /\ keys[j].retired => keys'[j].retired
    BY <1>0, <2>4, <2>5
  <2> QED BY <1>0, <2>2, <2>3, KeysForm DEF KeysGrow, OneActive
<1>4. ASSUME NEW w \in MarkWorkers,
             ReadVoice(w) \/ ReadKey(w) \/ Probe(w) \/ Speak(w) \/ SpokenAll(w) \/ WorkerRestarts(w)
      PROVE  keys' = keys
    BY <1>4 DEF ReadVoice, ReadKey, Probe, Speak, SpokenAll, WorkerRestarts
<1>5. ASSUME NEW o \in MarkOperators, AllocateCheck(o) \/ EnableCheck(o) \/ Enable(o) \/ Disable(o)
      PROVE  keys' = keys
  <2>1. AllocateCheck(o) => keys' = keys
    BY Zenon DEF AllocateCheck
  <2>2. EnableCheck(o) => keys' = keys
    BY Zenon DEF EnableCheck
  <2>3. Enable(o) \/ Disable(o) => keys' = keys
    BY Zenon DEF Enable, Disable
  <2> QED BY <1>5, <2>1, <2>2, <2>3
<1>6. CASE UNCHANGED markVars
    BY <1>1, <1>6 DEF markVars
<1> QED BY <1>1, <1>2, <1>3, <1>4, <1>5, <1>6 DEF MarkNext

\* What a step of an operator does to the voice and the requests in flight.
LEMMA OperatorStep ==
    ASSUME MarkTypeOK, InsertOK, NEW o \in MarkOperators,
           \/ AllocateCheck(o) \/ Allocate(o) \/ Retire(o)
           \/ EnableCheck(o) \/ Enable(o) \/ Disable(o)
    PROVE  /\ marked' \in MarkedVoice /\ marked'.required = marked.required
           /\ edit' \in [MarkOperators -> Edit] /\ InsertOK'
           /\ UNCHANGED <<applier, speaking, clip>>
<1>0. /\ keys \in Seq(WatermarkKey) /\ Len(keys) <= MaxKeys /\ MaxKeys \in Nat
      /\ marked \in MarkedVoice /\ edit \in [MarkOperators -> Edit]
      /\ NoEdit \in Edit /\ NoEdit.at = "idle"
    BY KeysForm, WatermarksAssumption DEF MarkTypeOK, NoEdit, NoKey, Edit
<1>1. CASE AllocateCheck(o)
  <2>1. PICK bits \in Payloads :
          edit' = [edit EXCEPT ![o] = [NoEdit EXCEPT !.at = "insert", !.bits = bits]]
    BY <1>1, Zenon DEF AllocateCheck
  <2> DEFINE new == [NoEdit EXCEPT !.at = "insert", !.bits = bits]
  <2>2. new \in Edit /\ new.bits \in Payloads
    BY <1>0 DEF NoEdit, Edit
  <2>3. edit' = [edit EXCEPT ![o] = new]
    BY <2>1
  <2> HIDE DEF new
  <2>4. edit' \in [MarkOperators -> Edit] /\ InsertOK'
    BY <1>0, <2>2, <2>3 DEF InsertOK
  <2>5. UNCHANGED <<marked, applier, speaking, clip>>
    BY <1>1, Zenon DEF AllocateCheck
  <2> QED BY <1>0, <2>4, <2>5
<1>2. CASE Allocate(o)
    BY <1>0, <1>2 DEF Allocate, InsertOK
<1>3. CASE Retire(o) \/ Disable(o)
    BY <1>0, <1>3 DEF Retire, Disable, InsertOK, MarkedVoice
<1>4. CASE EnableCheck(o)
  <2>1. PICK k \in DOMAIN keys \cup {NoKey} :
          edit' = [edit EXCEPT ![o] = [NoEdit EXCEPT !.at = "bind",
                      !.enables = ~marked.enabled,
                      !.key = IF k = marked.key THEN NoKey ELSE k]]
    BY <1>4, Zenon DEF EnableCheck
  <2> DEFINE new == [NoEdit EXCEPT !.at = "bind", !.enables = ~marked.enabled,
                         !.key = IF k = marked.key THEN NoKey ELSE k]
  <2>2. (IF k = marked.key THEN NoKey ELSE k) \in 0..MaxKeys
    BY <1>0 DEF NoKey
  <2>3. new \in Edit /\ new.at = "bind"
    BY <1>0, <2>2 DEF NoEdit, Edit
  <2>4. edit' = [edit EXCEPT ![o] = new]
    BY <2>1
  <2> HIDE DEF new
  <2>5. edit' \in [MarkOperators -> Edit] /\ InsertOK'
    BY <1>0, <2>3, <2>4 DEF InsertOK
  <2>6. UNCHANGED <<marked, applier, speaking, clip>>
    BY <1>4, Zenon DEF EnableCheck
  <2> QED BY <1>0, <2>5, <2>6
<1>5. CASE Enable(o)
  <2>1. marked' \in MarkedVoice /\ marked'.required = marked.required
    <3>1. edit[o].key \in 0..MaxKeys /\ edit[o].enables \in BOOLEAN
      BY <1>0 DEF Edit
    <3> QED BY <1>0, <1>5, <3>1 DEF Enable, MarkedVoice
  <2>2. edit' \in [MarkOperators -> Edit] /\ InsertOK' /\ UNCHANGED <<applier, speaking, clip>>
    BY <1>0, <1>5 DEF Enable, InsertOK
  <2> QED BY <2>1, <2>2
<1> QED BY <1>1, <1>2, <1>3, <1>4, <1>5

\* What is read of the rows stays true while they only grow.
LEMMA NewestStays ==
    ASSUME MarkTypeOK, KeysGrow, keys' \in BoundedSeq(WatermarkKey, MaxKeys),
           NEW k, NEW b, NEW n \in 0..MaxKeys, Newest(k, b, n)
    PROVE  Newest(k, b, n)'
<1>1. /\ keys \in Seq(WatermarkKey) /\ keys' \in Seq(WatermarkKey)
      /\ Len(keys) \in Nat /\ Len(keys') \in Nat /\ MaxKeys \in Nat
    BY KeysForm, WatermarksAssumption DEF MarkTypeOK
<1>2. \A j \in 1..n : j \in 1..Len(keys) /\ keys'[j].message_bits = keys[j].message_bits
    BY <1>1 DEF Newest, KeysGrow
<1>3. n <= Len(keys') /\ k \in 1..n
    BY <1>1 DEF Newest, KeysGrow
<1>4. /\ keys'[k].message_bits = b
      /\ \A j \in 1..n : keys'[j].message_bits = b => j <= k
    BY <1>2, <1>3, Zenon DEF Newest
<1> QED BY <1>3, <1>4 DEF Newest

\* Nothing that was read or published changes while an operator is at work.
LEMMA MarksKept ==
    ASSUME MarkInv, KeysGrow, keys' \in BoundedSeq(WatermarkKey, MaxKeys),
           UNCHANGED <<applier, speaking, clip>>, marked'.required = marked.required
    PROVE  SpeakingOK' /\ RequiredIsMarked' /\ ClipHasKey'
<1>1. /\ MarkTypeOK /\ SpeakingOK /\ ClipHasKey /\ RequiredIsMarked
      /\ speaking \in [MarkWorkers -> Speaking] /\ clip \in Clip
    BY DEF MarkInv, MarkTypeOK
<1>2. SpeakingOK'
  <2> SUFFICES ASSUME NEW w \in MarkWorkers
        PROVE  (/\ speaking[w].at \in {"probe", "chunks"} /\ speaking[w].bits # NoPayload =>
                     Newest(speaking[w].key, speaking[w].bits, speaking[w].vintage)
                /\ speaking[w].at = "chunks" /\ marked.required =>
                     speaking[w].bits # NoPayload /\ applier[w] = "loaded")'
    BY DEF SpeakingOK
  <2>1. speaking[w].vintage \in 0..MaxKeys
    BY <1>1 DEF Speaking
  <2> QED BY <1>1, <2>1, NewestStays DEF SpeakingOK
<1>3. ClipHasKey'
  <2>1. clip.vintage \in 0..MaxKeys
    BY <1>1 DEF Clip
  <2> QED BY <1>1, <2>1, NewestStays DEF ClipHasKey, Embed
<1> QED BY <1>1, <1>2, <1>3 DEF RequiredIsMarked


\* What a job that is in state s, in a process whose model is a, may rely on.
SpeaksOK(s, a) ==
    /\ s.at \in {"probe", "chunks"} /\ s.bits # NoPayload => Newest(s.key, s.bits, s.vintage)
    /\ s.at = "chunks" /\ marked.required => s.bits # NoPayload /\ a = "loaded"

\* A step of worker w that leaves its job in state s and its process with model a.
LEMMA SpeakerStep ==
    ASSUME MarkInv, NEW w \in MarkWorkers, NEW s \in Speaking,
           NEW a \in {"fresh", "loaded", "broken"}, SpeaksOK(s, a),
           speaking' = [speaking EXCEPT ![w] = s], applier' = [applier EXCEPT ![w] = a],
           UNCHANGED <<keys, marked, edit>>
    PROVE  /\ speaking' \in [MarkWorkers -> Speaking]
           /\ applier' \in [MarkWorkers -> {"fresh", "loaded", "broken"}]
           /\ SpeakingOK'
<1>1. /\ speaking \in [MarkWorkers -> Speaking] /\ SpeakingOK
      /\ applier \in [MarkWorkers -> {"fresh", "loaded", "broken"}]
    BY DEF MarkInv, MarkTypeOK
<1>2. \A k, b, n : Newest(k, b, n)' <=> (k \in 1..n /\ n <= Len(keys) /\ keys[k].message_bits = b
                                          /\ \A j \in 1..n : keys[j].message_bits = b => j <= k)
    BY DEF Newest
<1>3. \A k, b, n : Newest(k, b, n) => Newest(k, b, n)'
    BY <1>2 DEF Newest
<1>4. /\ speaking'[w] = s /\ applier'[w] = a
      /\ \A v \in MarkWorkers \ {w} : speaking'[v] = speaking[v] /\ applier'[v] = applier[v]
    BY <1>1
<1>5. SpeakingOK'
    BY <1>1, <1>3, <1>4 DEF SpeakingOK, SpeaksOK
<1> QED BY <1>1, <1>5

\* The worker of a job that gives up is idle, whatever happens to its model.
LEMMA GivesUpForm ==
    ASSUME NEW a
    PROVE  NotSpeaking \in Speaking /\ SpeaksOK(NotSpeaking, a)
BY WatermarksAssumption DEF NotSpeaking, Speaking, NoKey, NoPayload, SpeaksOK

\* What a step of a worker does to its job and its model.
LEMMA WorkerStep ==
    ASSUME MarkInv, NEW w \in MarkWorkers,
           \/ ReadVoice(w) \/ ReadKey(w) \/ Probe(w) \/ Speak(w) \/ SpokenAll(w)
           \/ WorkerRestarts(w)
    PROVE  /\ speaking' \in [MarkWorkers -> Speaking]
           /\ applier' \in [MarkWorkers -> {"fresh", "loaded", "broken"}]
           /\ SpeakingOK'
           /\ UNCHANGED <<keys, marked, edit>>
<1>1. /\ speaking \in [MarkWorkers -> Speaking] /\ SpeakingOK /\ OneActive
      /\ applier \in [MarkWorkers -> {"fresh", "loaded", "broken"}]
      /\ marked \in MarkedVoice
      /\ keys \in Seq(WatermarkKey) /\ Len(keys) \in 0..MaxKeys /\ MaxKeys \in Nat
    BY KeysForm, WatermarksAssumption DEF MarkInv, MarkTypeOK
<1>2. /\ speaking[w] \in Speaking /\ SpeaksOK(speaking[w], applier[w])
      /\ applier[w] \in {"fresh", "loaded", "broken"}
      /\ applier = [applier EXCEPT ![w] = applier[w]]
      /\ speaking = [speaking EXCEPT ![w] = speaking[w]]
    BY <1>1 DEF SpeakingOK, SpeaksOK
<1>3. UNCHANGED <<keys, marked, edit>>
    BY DEF ReadVoice, ReadKey, Probe, Speak, SpokenAll, WorkerRestarts
<1> DEFINE Spoke == \E s \in Speaking, a \in {"fresh", "loaded", "broken"} :
                       /\ SpeaksOK(s, a)
                       /\ speaking' = [speaking EXCEPT ![w] = s]
                       /\ applier' = [applier EXCEPT ![w] = a]
<1>4. Spoke
  <2>1. CASE ReadVoice(w)
    <3> DEFINE s == [NotSpeaking EXCEPT !.at = "key",
                         !.key = IF marked.enabled THEN marked.key ELSE NoKey]
    <3>0. (IF marked.enabled THEN marked.key ELSE NoKey) \in 0..MaxKeys
      BY <1>1 DEF NoKey, MarkedVoice
    <3>1. s \in Speaking /\ s.at = "key" /\ SpeaksOK(s, applier[w])
      BY <1>1, <3>0, GivesUpForm DEF NotSpeaking, Speaking, SpeaksOK
    <3>2. speaking' = [speaking EXCEPT ![w] = s] /\ applier' = applier
      BY <2>1 DEF ReadVoice
    <3> HIDE DEF s
    <3> QED BY <1>2, <3>1, <3>2
  <2>2. CASE ReadKey(w)
    <3> DEFINE k == speaking[w].key
               bits == IF IsActive(k) THEN keys[k].message_bits ELSE NoPayload
               s == [speaking[w] EXCEPT !.at = "probe", !.vintage = Len(keys), !.bits = bits]
    <3>1. bits \in Payloads \cup {NoPayload}
      <4>1. ASSUME IsActive(k) PROVE keys[k].message_bits \in Payloads
        <5>1. keys[k] \in WatermarkKey
          BY <1>1, <4>1 DEF IsActive
        <5> QED BY <5>1 DEF WatermarkKey
      <4> QED BY <4>1
    <3>2. ASSUME bits # NoPayload PROVE Newest(k, bits, Len(keys))
      <4>1. k \in 1..Len(keys) /\ ~keys[k].retired /\ bits = keys[k].message_bits
        BY <1>1, <3>2 DEF IsActive
      <4>2. ASSUME NEW j \in 1..Len(keys), keys[j].message_bits = bits PROVE j <= k
        BY <1>1, <4>1, <4>2 DEF OneActive
      <4> QED BY <1>1, <4>1, <4>2 DEF Newest
    <3>3. speaking' = [speaking EXCEPT ![w] = s] /\ applier' = applier
      BY <1>1, <2>2 DEF ReadKey
    <3> HIDE DEF bits
    <3>4. /\ s \in Speaking /\ s.at = "probe" /\ s.key = k /\ s.bits = bits
          /\ s.vintage = Len(keys)
      BY <1>1, <1>2, <3>1 DEF Speaking
    <3> HIDE DEF s
    <3>5. SpeaksOK(s, applier[w])
      BY <3>2, <3>4 DEF SpeaksOK
    <3> QED BY <1>2, <3>3, <3>4, <3>5
  <2>3. CASE GivesUp(w) /\ \E a \in {"fresh", "loaded", "broken"} :
                              applier' = [applier EXCEPT ![w] = a]
      BY <2>3, GivesUpForm, Zenon DEF GivesUp
  <2>4. CASE UNCHANGED <<speaking, applier>>
      BY <1>2, <2>4
  <2> DEFINE talks == [speaking[w] EXCEPT !.at = "chunks"]
  <2>5. ASSUME Probe(w), ~GivesUp(w)
        PROVE  \E a \in {"fresh", "loaded", "broken"} :
                  /\ speaking' = [speaking EXCEPT ![w] = talks]
                  /\ applier' = [applier EXCEPT ![w] = a]
                  /\ marked.required => speaking[w].bits # NoPayload /\ a = "loaded"
                  /\ speaking[w].at = "probe"
    <3>1. CASE ~marked.required
      BY <1>1, <1>2, <2>5, <3>1 DEF Probe
    <3>2. CASE marked.required
      <4>1. /\ speaking[w].bits # NoPayload /\ speaking[w].at = "probe"
            /\ _load(w) /\ applier'[w] # "broken"
            /\ speaking' = [speaking EXCEPT ![w] = talks]
        BY <1>1, <1>2, <2>5, <3>2 DEF Probe
      <4>2. applier' = [applier EXCEPT ![w] = "loaded"]
        BY <1>1, <1>2, <4>1 DEF _load
      <4> QED BY <4>1, <4>2
    <3> QED BY <3>1, <3>2
  <2>6. ASSUME speaking[w].at = "probe"
        PROVE  /\ talks \in Speaking /\ talks.at = "chunks"
               /\ talks.bits = speaking[w].bits
               /\ talks.bits # NoPayload => Newest(talks.key, talks.bits, talks.vintage)
    BY <1>2, <2>6 DEF Speaking, SpeaksOK
  <2>7. CASE Probe(w)
    <3>1. GivesUp(w) => \E a \in {"fresh", "loaded", "broken"} :
                           applier' = [applier EXCEPT ![w] = a]
      BY <1>1, <1>2, <2>7 DEF Probe, _load
    <3> HIDE DEF talks
    <3>2. CASE ~GivesUp(w)
      <4>1. PICK a \in {"fresh", "loaded", "broken"} :
                /\ speaking' = [speaking EXCEPT ![w] = talks]
                /\ applier' = [applier EXCEPT ![w] = a]
                /\ marked.required => speaking[w].bits # NoPayload /\ a = "loaded"
                /\ speaking[w].at = "probe"
        BY <2>5, <2>7, <3>2
      <4>2. SpeaksOK(talks, a)
        BY <2>6, <4>1 DEF SpeaksOK
      <4> QED BY <2>6, <4>1, <4>2, Zenon
    <3> QED BY <2>3, <3>1, <3>2
  <2>8. CASE Speak(w)
    <3>1. ASSUME _load(w), UNCHANGED speaking PROVE Spoke
      <4>1. PICK a \in {"fresh", "loaded", "broken"} :
                /\ applier' = [applier EXCEPT ![w] = a]
                /\ applier[w] = "loaded" => a = "loaded"
        BY <1>1, <1>2, <3>1 DEF _load
      <4>2. SpeaksOK(speaking[w], a)
        BY <1>2, <4>1 DEF SpeaksOK
      <4> QED BY <1>2, <3>1, <4>1, <4>2, Zenon
    <3>2. _load(w) => \E a \in {"fresh", "loaded", "broken"} : applier' = [applier EXCEPT ![w] = a]
      BY <1>1, <1>2 DEF _load
    <3>3. \/ UNCHANGED <<applier, speaking>>
          \/ _load(w) /\ UNCHANGED speaking
          \/ _load(w) /\ GivesUp(w)
      BY <2>8, Zenon DEF Speak
    <3> QED BY <2>3, <2>4, <3>1, <3>2, <3>3
  <2>9. CASE SpokenAll(w) \/ WorkerRestarts(w)
    <3>1. GivesUp(w) /\ \E a \in {"fresh", "loaded", "broken"} :
                           applier' = [applier EXCEPT ![w] = a]
      BY <1>2, <2>9 DEF SpokenAll, WorkerRestarts
    <3> QED BY <2>3, <3>1
  <2> QED BY <2>1, <2>2, <2>7, <2>8, <2>9
<1>5. PICK s \in Speaking, a \in {"fresh", "loaded", "broken"} :
         /\ SpeaksOK(s, a)
         /\ speaking' = [speaking EXCEPT ![w] = s]
         /\ applier' = [applier EXCEPT ![w] = a]
    BY <1>4, Zenon
<1> QED BY <1>3, <1>5, SpeakerStep, Zenon


\* What a step of a worker publishes (_publish_chunk after WatermarkApplier): marked with
\* the payload that was read, or not at all where the licence allows it.
LEMMA ClipStep ==
    ASSUME MarkInv, NEW w \in MarkWorkers,
           \/ ReadVoice(w) \/ ReadKey(w) \/ Probe(w) \/ Speak(w) \/ SpokenAll(w)
           \/ WorkerRestarts(w)
    PROVE  clip' \in Clip /\ RequiredIsMarked' /\ ClipHasKey'
<1>1. /\ clip \in Clip /\ RequiredIsMarked /\ ClipHasKey
      /\ speaking[w] \in Speaking
      /\ applier \in [MarkWorkers -> {"fresh", "loaded", "broken"}]
    BY DEF MarkInv, MarkTypeOK
<1>2. UNCHANGED <<keys, marked>>
    BY WorkerStep
<1>3. /\ ClipHasKey' <=>
             (clip'.tensor # <<>> =>
                \E b \in Payloads : clip'.tensor = Embed(b) /\ Newest(clip'.key, b, clip'.vintage))
      /\ RequiredIsMarked' <=> (marked.required /\ clip'.out => clip'.tensor # <<>>)
    BY <1>2 DEF ClipHasKey, RequiredIsMarked, Newest, Embed
<1>4. CASE clip' = clip
    BY <1>1, <1>3, <1>4 DEF ClipHasKey, RequiredIsMarked
<1>5. ASSUME Speak(w), clip' # clip PROVE clip' \in Clip /\ RequiredIsMarked' /\ ClipHasKey'
  <2>1. /\ speaking[w].at = "chunks"
        /\ marked.required => speaking[w].bits # NoPayload /\ applier[w] = "loaded"
        /\ speaking[w].bits # NoPayload =>
             Newest(speaking[w].key, speaking[w].bits, speaking[w].vintage)
        /\ speaking[w].bits # NoPayload => speaking[w].bits \in Payloads
        /\ speaking[w].key \in 0..MaxKeys /\ speaking[w].vintage \in 0..MaxKeys
    BY <1>1, <1>5 DEF MarkInv, SpeakingOK, Speak, Speaking
  <2>2. CASE speaking[w].bits = NoPayload \/ applier[w] = "broken"
    <3>1. clip' = [out |-> TRUE, tensor |-> <<>>,
                   key |-> speaking[w].key, vintage |-> speaking[w].vintage]
      BY <1>5, <2>2 DEF Speak, Publish
    <3>2. ~marked.required
      BY <2>1, <2>2
    <3> QED BY <1>3, <2>1, <3>1, <3>2 DEF Clip
  <2>3. CASE ~(speaking[w].bits = NoPayload \/ applier[w] = "broken")
    <3> DEFINE tensor == IF applier'[w] = "broken" THEN <<>> ELSE Embed(speaking[w].bits)
    <3>1. /\ _load(w)
          /\ clip' = [out |-> TRUE, tensor |-> tensor,
                      key |-> speaking[w].key, vintage |-> speaking[w].vintage]
      BY <1>5, <2>3, Zenon DEF Speak, Publish
    <3>2. marked.required => applier'[w] # "broken"
      BY <1>1, <2>1, <3>1 DEF _load
    <3>3. Embed(speaking[w].bits) \in [0..PayloadBits - 1 -> {0, 1}] /\ Embed(speaking[w].bits) # <<>>
      BY <2>1, <2>3, EmbedType
    <3>4. /\ tensor \in [0..PayloadBits - 1 -> {0, 1}] \cup {<<>>}
          /\ marked.required => tensor # <<>>
          /\ tensor # <<>> => tensor = Embed(speaking[w].bits)
      BY <3>2, <3>3
    <3> HIDE DEF tensor
    <3>5. /\ clip'.tensor = tensor /\ clip'.key = speaking[w].key
          /\ clip'.vintage = speaking[w].vintage
      BY <3>1
    <3>6. clip' \in Clip
      BY <2>1, <3>1, <3>4 DEF Clip
    <3> QED BY <1>3, <2>1, <2>3, <3>4, <3>5, <3>6
  <2> QED BY <2>2, <2>3
<1>6. Speak(w) \/ clip' = clip
    BY DEF ReadVoice, ReadKey, Probe, SpokenAll, WorkerRestarts
<1> QED BY <1>4, <1>5, <1>6

\* The invariant is inductive.
LEMMA MarkInductive ==
    /\ MarkInit => MarkInv
    /\ MarkInv /\ [MarkNext]_markVars => MarkInv'
<1>1. MarkInit => MarkInv
  <2> SUFFICES ASSUME MarkInit PROVE MarkInv
    OBVIOUS
  <2>1. MaxKeys \in Nat
    BY WatermarksAssumption
  <2>2. keys = <<>> /\ Len(keys) = 0 /\ keys \in Seq(WatermarkKey)
    BY DEF MarkInit
  <2>3. keys \in BoundedSeq(WatermarkKey, MaxKeys)
    <3>1. Len(keys) <= MaxKeys
      BY <2>1, <2>2
    <3> QED BY <2>2, <3>1, KeysForm, Zenon
  <2>4. marked \in MarkedVoice
    <3>1. NoKey \in 0..MaxKeys
      BY <2>1 DEF NoKey
    <3>2. marked \in [enabled : {FALSE}, key : {NoKey}, required : BOOLEAN]
      BY DEF MarkInit
    <3> QED BY <3>1, <3>2 DEF MarkedVoice
  <2>5. edit \in [MarkOperators -> Edit] /\ InsertOK
    BY <2>1 DEF MarkInit, NoEdit, NoKey, Edit, InsertOK
  <2>6. speaking \in [MarkWorkers -> Speaking] /\ SpeakingOK
    <3>1. NotSpeaking \in Speaking /\ NotSpeaking.at = "idle"
      BY GivesUpForm DEF NotSpeaking
    <3> QED BY <3>1 DEF MarkInit, SpeakingOK
  <2>7. clip \in Clip /\ ClipHasKey /\ RequiredIsMarked
    <3>1. NoClip \in Clip
      BY <2>1 DEF NoClip, NoKey, Clip
    <3>2. clip = NoClip /\ clip.tensor = <<>> /\ ~clip.out
      BY DEF MarkInit, NoClip
    <3> QED BY <3>1, <3>2 DEF ClipHasKey, RequiredIsMarked
  <2>8. applier \in [MarkWorkers -> {"fresh", "loaded", "broken"}]
    BY DEF MarkInit
  <2>9. OneActive
    BY <2>2 DEF OneActive
  <2> QED BY <2>3, <2>4, <2>5, <2>6, <2>7, <2>8, <2>9 DEF MarkInv, MarkTypeOK
<1>2. ASSUME MarkInv, [MarkNext]_markVars PROVE MarkInv'
  <2>1. MarkTypeOK /\ InsertOK /\ OneActive
    BY <1>2 DEF MarkInv
  <2>2. keys' \in BoundedSeq(WatermarkKey, MaxKeys) /\ KeysGrow /\ OneActive'
    BY <1>2, <2>1, KeysStep
  <2>3. ASSUME NEW o \in MarkOperators,
               \/ AllocateCheck(o) \/ Allocate(o) \/ Retire(o)
               \/ EnableCheck(o) \/ Enable(o) \/ Disable(o)
        PROVE  MarkInv'
    <3>1. /\ marked' \in MarkedVoice /\ marked'.required = marked.required
          /\ edit' \in [MarkOperators -> Edit] /\ InsertOK'
          /\ UNCHANGED <<applier, speaking, clip>>
      BY <2>1, <2>3, OperatorStep
    <3>2. SpeakingOK' /\ RequiredIsMarked' /\ ClipHasKey'
      BY <1>2, <2>2, <3>1, MarksKept
    <3> QED BY <2>1, <2>2, <3>1, <3>2 DEF MarkInv, MarkTypeOK
  <2>4. ASSUME NEW w \in MarkWorkers,
               \/ ReadVoice(w) \/ ReadKey(w) \/ Probe(w) \/ Speak(w) \/ SpokenAll(w)
               \/ WorkerRestarts(w)
        PROVE  MarkInv'
    <3>1. /\ speaking' \in [MarkWorkers -> Speaking]
          /\ applier' \in [MarkWorkers -> {"fresh", "loaded", "broken"}]
          /\ SpeakingOK'
          /\ UNCHANGED <<keys, marked, edit>>
      BY <1>2, <2>4, WorkerStep
    <3>2. clip' \in Clip /\ RequiredIsMarked' /\ ClipHasKey'
      BY <1>2, <2>4, ClipStep
    <3>3. InsertOK'
      BY <2>1, <3>1 DEF InsertOK
    <3> QED BY <2>1, <2>2, <3>1, <3>2, <3>3 DEF MarkInv, MarkTypeOK
  <2>5. CASE UNCHANGED markVars
    <3>1. /\ UNCHANGED <<applier, speaking, clip>> /\ marked' = marked /\ edit' = edit
      BY <2>5 DEF markVars
    <3>2. SpeakingOK' /\ RequiredIsMarked' /\ ClipHasKey'
      BY <1>2, <2>2, <3>1, MarksKept
    <3>3. InsertOK'
      BY <2>1, <3>1 DEF InsertOK
    <3> QED BY <2>1, <2>2, <3>1, <3>2, <3>3 DEF MarkInv, MarkTypeOK
  <2> QED BY <1>2, <2>3, <2>4, <2>5 DEF MarkNext
<1> QED BY <1>1, <1>2

\* "Legally watermarked" (the probe of pipeline.py and WatermarkApplier): no chunk of a
\* voice whose licence requires the mark goes out without one.
THEOREM RequiredMarked == MarkSpec => []RequiredIsMarked
<1>1. MarkInv => RequiredIsMarked
    BY DEF MarkInv
<1> QED BY <1>1, MarkInductive, PTL DEF MarkSpec

\* Max is what nothing exceeds.
LEMMA TheMax ==
    ASSUME NEW S \in SUBSET Int, NEW x \in S, \A y \in S : y <= x
    PROVE  Max(S) = x
<1>1. \A y \in S : x >= y
    OBVIOUS
<1>2. Max(S) \in S /\ \A y \in S : Max(S) >= y
    BY <1>1, Zenon DEF Max
<1>3. PICK m \in S : m = Max(S)
    BY <1>2
<1>4. m >= x /\ x >= m /\ m \in Int /\ x \in Int
    BY <1>1, <1>2, <1>3
<1> QED BY <1>3, <1>4

\* What detection finds in a marked clip (admin_detect_watermark).
LEMMA Found ==
    ASSUME MarkInv
    PROVE  ClipsAreTraceable
<1> DEFINE found == admin_detect_watermark(clip.tensor)
           vintage == {k \in found.history : k <= clip.vintage}
<1>1. SUFFICES ASSUME clip.tensor # <<>>
               PROVE  /\ vintage # {} /\ Max(vintage) = clip.key
                      /\ vintage = found.history => found.match = clip.key
                      /\ marked.key = clip.key => found.voice
    BY Zenon DEF ClipsAreTraceable
<1>2. PICK b \in Payloads : clip.tensor = Embed(b) /\ Newest(clip.key, b, clip.vintage)
    BY <1>1 DEF MarkInv, ClipHasKey
<1>3. keys \in Seq(WatermarkKey)
    BY KeysForm DEF MarkInv, MarkTypeOK
<1>4. PICK l \in Nat : l = Len(keys) /\ DOMAIN keys = 1..l
    BY <1>3
<1>5. found.history = {k \in 1..l : keys[k].message_bits = b}
    BY <1>2, <1>4, DecodeEmbed DEF admin_detect_watermark, list_by_bits
<1>6. /\ found.match = IF found.history = {} THEN NoKey ELSE Max(found.history)
      /\ found.voice <=> marked.key \in found.history
    BY DEF admin_detect_watermark
<1> HIDE DEF found
<1>7. PICK n \in Int : n = clip.vintage
    BY DEF MarkInv, MarkTypeOK, Clip
<1>8. /\ clip.key \in 1..n /\ n <= l /\ keys[clip.key].message_bits = b
      /\ \A j \in 1..n : keys[j].message_bits = b => j <= clip.key
    BY <1>2, <1>4, <1>7 DEF Newest
<1>9. clip.key \in vintage /\ \A k \in vintage : k <= clip.key
    BY <1>5, <1>7, <1>8
<1>10. Max(vintage) = clip.key
  <2>1. vintage \subseteq Int /\ clip.key \in Int
    BY <1>5, <1>8
  <2> HIDE DEF vintage
  <2> QED BY <1>9, <2>1, TheMax
<1>11. clip.key \in found.history
    BY <1>9
<1> QED BY <1>6, <1>9, <1>10, <1>11

\* A mark leads back to its key (WatermarkApplier, list_by_bits, admin_detect_watermark),
\* for any number of bits, payloads and allocations: the allocation a job spoke with is the
\* newest of its payload among those there were when the job read it, and detection lists it.
THEOREM MarkLeadsToKey == MarkSpec => []MarksSound
<1>1. MarkInv => MarksSound
    BY Found DEF MarkInv, MarksSound
<1> QED BY <1>1, MarkInductive, PTL DEF MarkSpec


-----------------------------------------------------------------------------
(* Who passes.                                                             *)

\* A request that is past the look-up, or that finds its key and tenant active there, was
\* entitled since it arrived; so was one that passed.
EntitledOK(q) ==
    /\ q.at \in {"key", "tenant"} => q.entitled
    /\ q.at = "lookup" /\ EntitledNow(q.key) => q.entitled
    /\ q.answer = "ok" => q.entitled

AccessInv ==
    /\ apiKey \in [ApiKeys -> KeyRow]
    /\ tenant \in TenantStatus
    /\ request \in [Requests -> ApiRequest]
    /\ \A r \in Requests : EntitledOK(request[r])
    /\ tenant = "none" => \A k \in ApiKeys : apiKey[k].state = "none"

\* A step that only puts request r into state q.
LEMMA RequestForm ==
    ASSUME AccessInv, NEW r \in Requests, NEW q \in ApiRequest, EntitledOK(q),
           UNCHANGED <<apiKey, tenant>>, request' = [request EXCEPT ![r] = q]
    PROVE  AccessInv'
<1>1. \A p : EntitledOK(p)' <=> EntitledOK(p)
    BY DEF EntitledOK, EntitledNow
<1>2. /\ request' \in [Requests -> ApiRequest]
      /\ \A p \in Requests : request'[p] = IF p = r THEN q ELSE request[p]
    BY DEF AccessInv
<1> QED BY <1>1, <1>2 DEF AccessInv

\* authenticate_bearer, step by step.
LEMMA RequestStep ==
    ASSUME AccessInv, NEW r \in Requests,
           RequestArrives(r) \/ Lookup(r) \/ CheckKey(r) \/ CheckTenant(r)
    PROVE  AccessInv'
<1>0. /\ request[r] \in ApiRequest /\ EntitledOK(request[r]) /\ apiKey \in [ApiKeys -> KeyRow]
      /\ request \in [Requests -> ApiRequest]
    BY DEF AccessInv
<1>1. ASSUME NEW a \in {"refused", "ok"}, Reply(r, a), UNCHANGED <<apiKey, tenant>>,
             a = "ok" => request[r].at = "tenant"
      PROVE  AccessInv'
  <2> DEFINE q == [request[r] EXCEPT !.at = "idle", !.limit = 1, !.answer = a,
                                     !.entitled = a = "ok" /\ request[r].entitled]
  <2>1. q \in ApiRequest /\ q.at = "idle" /\ q.answer = a
        /\ q.entitled = (a = "ok" /\ request[r].entitled)
    BY <1>0 DEF ApiRequest
  <2>2. request' = [request EXCEPT ![r] = q]
    BY <1>0, <1>1 DEF Reply
  <2> HIDE DEF q
  <2>3. EntitledOK(q)
    BY <1>0, <1>1, <2>1 DEF EntitledOK
  <2> QED BY <1>1, <2>1, <2>2, <2>3, RequestForm
<1>2. CASE RequestArrives(r)
  <2>1. PICK k \in ApiKeys :
          request' = [request EXCEPT ![r] = [NoRequest EXCEPT !.at = "lookup", !.key = k,
                                                 !.entitled = EntitledNow(k)]]
    BY <1>2, Zenon DEF RequestArrives
  <2> DEFINE q == [NoRequest EXCEPT !.at = "lookup", !.key = k, !.entitled = EntitledNow(k)]
  <2>2. EntitledNow(k) \in BOOLEAN
    BY DEF EntitledNow
  <2>3. q \in ApiRequest /\ q.at = "lookup" /\ q.key = k /\ q.answer = "none"
        /\ q.entitled = EntitledNow(k)
    BY <2>2 DEF ApiRequest, NoRequest
  <2>4. request' = [request EXCEPT ![r] = q]
    BY <2>1
  <2> HIDE DEF q
  <2>5. EntitledOK(q)
    BY <2>3 DEF EntitledOK
  <2>6. UNCHANGED <<apiKey, tenant>>
    BY <1>2, Zenon DEF RequestArrives
  <2> QED BY <2>3, <2>4, <2>5, <2>6, RequestForm
<1>3. CASE Lookup(r)
  <2> DEFINE k == request[r].key
             q == [request[r] EXCEPT !.at = "key", !.limit = apiKey[k].limit]
  <2>1. CASE Reply(r, "refused")
    <3>1. UNCHANGED <<apiKey, tenant>>
      BY <1>3, Zenon DEF Lookup
    <3> QED BY <1>1, <2>1, <3>1
  <2>2. CASE ~Reply(r, "refused")
    <3>1. Active(k) /\ request[r].at = "lookup" /\ UNCHANGED <<apiKey, tenant>>
          /\ request' = [request EXCEPT ![r].at = "key", ![r].limit = apiKey[k].limit]
      BY <1>3, <2>2 DEF Lookup
    <3>2. apiKey[k].limit \in KeyLimits \cup {1}
      BY <1>0 DEF ApiRequest, KeyRow
    <3>3. request' = [request EXCEPT ![r] = q]
      BY <1>0, <3>1
    <3>4. q \in ApiRequest /\ q.at = "key" /\ q.entitled = request[r].entitled
          /\ q.answer = request[r].answer
      BY <1>0, <3>2 DEF ApiRequest
    <3>5. request[r].entitled
      BY <1>0, <3>1 DEF EntitledOK, Active, EntitledNow
    <3> HIDE DEF q
    <3>6. EntitledOK(q)
      BY <3>4, <3>5 DEF EntitledOK
    <3> QED BY <3>1, <3>3, <3>4, <3>6, RequestForm
  <2> QED BY <2>1, <2>2
<1>4. CASE CheckKey(r)
  <2> DEFINE q == [request[r] EXCEPT !.at = "tenant"]
  <2>1. CASE Reply(r, "refused")
    <3>1. UNCHANGED <<apiKey, tenant>>
      BY <1>4, Zenon DEF CheckKey
    <3> QED BY <1>1, <2>1, <3>1
  <2>2. CASE ~Reply(r, "refused")
    <3>1. request[r].at = "key" /\ UNCHANGED <<apiKey, tenant>>
          /\ request' = [request EXCEPT ![r].at = "tenant"]
      BY <1>4, <2>2 DEF CheckKey
    <3>2. request' = [request EXCEPT ![r] = q]
      BY <1>0, <3>1
    <3>3. q \in ApiRequest /\ q.at = "tenant" /\ q.entitled = request[r].entitled
          /\ q.answer = request[r].answer
      BY <1>0 DEF ApiRequest
    <3> HIDE DEF q
    <3>4. EntitledOK(q)
      BY <1>0, <3>1, <3>3 DEF EntitledOK
    <3> QED BY <3>1, <3>2, <3>3, <3>4, RequestForm
  <2> QED BY <2>1, <2>2
<1>5. CASE CheckTenant(r)
  <2>1. /\ request[r].at = "tenant" /\ UNCHANGED <<apiKey, tenant>>
        /\ Reply(r, IF Refuses(Tenant, TenantLimit, ClockOf[r]) THEN "refused" ELSE "ok")
    BY <1>5, Zenon DEF CheckTenant
  <2> QED BY <1>1, <2>1
<1> QED BY <1>2, <1>3, <1>4, <1>5

\* Rows that change, and what the history notes of it.
LEMMA RowsForm ==
    ASSUME AccessInv, apiKey' \in [ApiKeys -> KeyRow], tenant' \in TenantStatus,
           request' \in [Requests -> ApiRequest],
           tenant' = "none" => \A k \in ApiKeys : apiKey'[k].state = "none",
           \A r \in Requests :
              /\ request'[r] = [request[r] EXCEPT !.entitled = request'[r].entitled]
              /\ request[r].entitled => request'[r].entitled
              /\ request[r].at # "idle" /\ EntitledNow(request[r].key)'
                   /\ ~EntitledNow(request[r].key)
                   => request'[r].entitled
    PROVE  AccessInv'
<1> SUFFICES ASSUME NEW r \in Requests PROVE EntitledOK(request[r])'
    BY DEF AccessInv
<1>1. request[r] \in ApiRequest /\ request'[r] \in ApiRequest /\ EntitledOK(request[r])
    BY DEF AccessInv
<1>2. /\ request'[r].at = request[r].at /\ request'[r].key = request[r].key
      /\ request'[r].answer = request[r].answer
    BY <1>1 DEF ApiRequest
<1>3. request[r].at # "idle" /\ EntitledNow(request[r].key)' =>
        EntitledNow(request[r].key) \/ request'[r].entitled
    OBVIOUS
<1> QED BY <1>1, <1>2, <1>3 DEF EntitledOK

\* The invariant is inductive.
LEMMA AccessInductive ==
    /\ AccessInit => AccessInv
    /\ AccessInv /\ [AccessNext]_accessVars => AccessInv'
<1>1. AccessInit => AccessInv
  <2> SUFFICES ASSUME AccessInit PROVE AccessInv
    OBVIOUS
  <2>1. NoRequest \in ApiRequest /\ NoRequest.at = "idle" /\ NoRequest.answer = "none"
    <3>1. (CHOOSE k \in ApiKeys : TRUE) \in ApiKeys
      BY AccessAssumption
    <3> QED BY <3>1 DEF NoRequest, ApiRequest
  <2>2. EntitledOK(NoRequest)
    BY <2>1 DEF EntitledOK
  <2>3. request \in [Requests -> ApiRequest] /\ \A r \in Requests : EntitledOK(request[r])
    BY <2>1, <2>2 DEF AccessInit
  <2> QED BY <2>3 DEF AccessInit, AccessInv, KeyRow, TenantStatus
<1>2. ASSUME AccessInv, [AccessNext]_accessVars PROVE AccessInv'
  <2>0. /\ apiKey \in [ApiKeys -> KeyRow] /\ tenant \in TenantStatus
        /\ request \in [Requests -> ApiRequest]
        /\ \A r \in Requests : request[r] \in ApiRequest
    BY <1>2 DEF AccessInv
  <2>1. CASE \E r \in Requests : RequestArrives(r) \/ Lookup(r) \/ CheckKey(r) \/ CheckTenant(r)
    BY <1>2, <2>1, RequestStep
  <2>2. ASSUME UNCHANGED request, apiKey' \in [ApiKeys -> KeyRow], tenant' \in TenantStatus,
               \A k \in ApiKeys : EntitledNow(k)' => EntitledNow(k),
               tenant' = "none" => \A k \in ApiKeys : apiKey'[k].state = "none"
        PROVE  AccessInv'
    <3>1. \A r \in Requests : request[r].key \in ApiKeys
      BY <2>0 DEF ApiRequest
    <3>2. \A r \in Requests : request'[r] = [request[r] EXCEPT !.entitled = request'[r].entitled]
      BY <2>0, <2>2 DEF ApiRequest
    <3> QED BY <1>2, <2>0, <2>2, <3>1, <3>2, RowsForm
  <2>3. CASE Login \/ DisableOperator \/ TimePasses \/ UNCHANGED accessVars
    <3>1. UNCHANGED <<apiKey, tenant, request>>
      BY <2>3, Zenon DEF Login, DisableOperator, TimePasses, accessVars
    <3> QED BY <1>2, <2>0, <2>2, <3>1 DEF EntitledNow, AccessInv
  <2>4. CASE CreateTenant
    <3>1. /\ UNCHANGED <<apiKey, request>> /\ tenant = "none" /\ tenant' = "active"
      BY <2>4, Zenon DEF CreateTenant
    <3>2. \A k \in ApiKeys : apiKey[k].state = "none"
      BY <1>2, <3>1 DEF AccessInv
    <3> QED BY <2>0, <2>2, <3>1, <3>2 DEF EntitledNow, TenantStatus
  <2>5. CASE RevokeKey
    <3>1. PICK k \in ApiKeys : Revoked(k)
      BY <2>5, Zenon DEF RevokeKey
    <3>2. UNCHANGED <<tenant, request>>
      BY <2>5, Zenon DEF RevokeKey
    <3>3. /\ apiKey[k] \in KeyRow /\ apiKey[k].state = "active"
          /\ apiKey' = [apiKey EXCEPT ![k] = [apiKey[k] EXCEPT !.state = "revoked"]]
      BY <2>0, <3>1 DEF Revoked
    <3> DEFINE new == [apiKey[k] EXCEPT !.state = "revoked"]
    <3>4. new \in KeyRow /\ new.state = "revoked"
      BY <3>3 DEF KeyRow
    <3> HIDE DEF new
    <3>5. apiKey' = [apiKey EXCEPT ![k] = new]
      BY <3>3 DEF new
    <3>6. tenant # "none"
      BY <1>2, <3>3 DEF AccessInv
    <3> QED BY <2>0, <2>2, <3>2, <3>4, <3>5, <3>6 DEF EntitledNow
  <2>6. CASE CreateKey
    <3>1. PICK k \in ApiKeys, n \in KeyLimits :
             /\ NewKey(k, n)
             /\ request' = [r \in Requests |-> [request[r] EXCEPT !.entitled =
                   @ \/ (request[r].at # "idle" /\ request[r].key = k /\ tenant = "active")]]
      BY <2>6, Zenon DEF CreateKey
    <3>2. tenant # "none" /\ tenant' = tenant
      BY <2>6, Zenon DEF CreateKey
    <3>3. apiKey' \in [ApiKeys -> KeyRow] /\ \A j \in ApiKeys \ {k} : apiKey'[j] = apiKey[j]
      <4>1. [state |-> "active", limit |-> n] \in KeyRow
        BY DEF KeyRow
      <4> QED BY <2>0, <3>1, <4>1 DEF NewKey
    <3> DEFINE e(r) == \/ request[r].entitled
                       \/ request[r].at # "idle" /\ request[r].key = k /\ tenant = "active"
               new(r) == [request[r] EXCEPT !.entitled = e(r)]
    <3>4. request' = [r \in Requests |-> new(r)]
      BY <3>1
    <3>5. \A r \in Requests : e(r) \in BOOLEAN
      BY <2>0 DEF ApiRequest
    <3> HIDE DEF e
    <3>6. /\ request' \in [Requests -> ApiRequest]
          /\ \A r \in Requests : request'[r].entitled = e(r) /\ request'[r].key = request[r].key
      <4>1. \A r \in Requests :
               new(r) \in ApiRequest /\ new(r).entitled = e(r) /\ new(r).key = request[r].key
        BY <2>0, <3>5 DEF ApiRequest
      <4> HIDE DEF new
      <4> QED BY <3>4, <4>1
    <3>7. \A r \in Requests :
            /\ request[r].entitled => e(r)
            /\ request[r].at # "idle" /\ EntitledNow(request[r].key)'
                 /\ ~EntitledNow(request[r].key)
                 => e(r)
      <4>1. ASSUME NEW r \in Requests, request[r].at # "idle",
                   EntitledNow(request[r].key)', ~EntitledNow(request[r].key)
            PROVE  e(r)
        <5>1. request[r].key \in ApiKeys /\ request'[r].key = request[r].key
          BY <2>0, <3>6 DEF ApiRequest
        <5>2. tenant = "active" /\ apiKey'[request[r].key].state = "active"
          BY <3>2, <4>1, <5>1 DEF EntitledNow
        <5>3. request[r].key = k
          BY <3>3, <4>1, <5>1, <5>2 DEF EntitledNow
        <5> QED BY <4>1, <5>2, <5>3 DEF e
      <4>2. \A r \in Requests : request[r].entitled => e(r)
        BY DEF e
      <4> QED BY <4>1, <4>2
    <3>8. \A r \in Requests :
            request'[r] = [request[r] EXCEPT !.entitled = request'[r].entitled]
      BY <3>4, <3>6
    <3> QED BY <1>2, <2>0, <3>2, <3>3, <3>6, <3>7, <3>8, RowsForm
  <2>7. CASE SetTenantStatus
    <3>1. /\ tenant # "none" /\ tenant' \in {"active", "suspended"} /\ apiKey' = apiKey
          /\ request' = [r \in Requests |-> [request[r] EXCEPT !.entitled =
                 @ \/ (request[r].at # "idle" /\ tenant' = "active"
                       /\ apiKey[request[r].key].state = "active")]]
      BY <2>7, Zenon DEF SetTenantStatus
    <3> DEFINE e(r) == \/ request[r].entitled
                       \/ request[r].at # "idle" /\ tenant' = "active"
                          /\ apiKey[request[r].key].state = "active"
               new(r) == [request[r] EXCEPT !.entitled = e(r)]
    <3>4. request' = [r \in Requests |-> new(r)]
      BY <3>1
    <3>5. \A r \in Requests : e(r) \in BOOLEAN
      BY <2>0 DEF ApiRequest
    <3> HIDE DEF e
    <3>6. /\ request' \in [Requests -> ApiRequest]
          /\ \A r \in Requests : request'[r].entitled = e(r) /\ request'[r].key = request[r].key
      <4>1. \A r \in Requests :
               new(r) \in ApiRequest /\ new(r).entitled = e(r) /\ new(r).key = request[r].key
        BY <2>0, <3>5 DEF ApiRequest
      <4> HIDE DEF new
      <4> QED BY <3>4, <4>1
    <3>7. \A r \in Requests :
            /\ request[r].entitled => e(r)
            /\ request[r].at # "idle" /\ EntitledNow(request[r].key)'
                 /\ ~EntitledNow(request[r].key)
                 => e(r)
      BY <2>0, <3>1, <3>6 DEF e, EntitledNow, ApiRequest
    <3>8. tenant' \in TenantStatus /\ tenant' # "none"
      BY <3>1 DEF TenantStatus
    <3>9. \A r \in Requests :
            request'[r] = [request[r] EXCEPT !.entitled = request'[r].entitled]
      BY <3>4, <3>6
    <3> QED BY <1>2, <2>0, <3>1, <3>6, <3>7, <3>8, <3>9, RowsForm
  <2> QED BY <1>2, <2>1, <2>3, <2>4, <2>5, <2>6, <2>7 DEF AccessNext
<1> QED BY <1>1, <1>2

\* A request that passed had a key that was not revoked and a tenant that was active, at
\* some moment since it arrived (authenticate_bearer), for any number of requests and keys.
THEOREM OnlyEntitled == AccessSpec => []OnlyEntitledPass
<1>1. AccessInv => OnlyEntitledPass
    BY DEF AccessInv, EntitledOK, OnlyEntitledPass
<1> QED BY <1>1, AccessInductive, PTL DEF AccessSpec

-----------------------------------------------------------------------------
(* How much the windows let through, and what they tell a client to wait.  *)

\* The clock that lags most.
Lowest == Min(Offsets)

\* No two clocks are further apart than the drift.
LEMMA Clocks ==
    /\ Lowest \in Nat /\ Drift \in Nat /\ Window - Drift \in Int /\ Window \in Nat
    /\ \A o \in Offsets : o \in 0..Window /\ Lowest <= o /\ o - Lowest <= Drift
<1>1. Offsets \subseteq 0..Window /\ Offsets # {} /\ Window \in Nat
    BY AccessAssumption DEF Offsets
<1>2. /\ Min(Offsets) \in Offsets /\ \A x \in Offsets : Min(Offsets) <= x
      /\ Max(Offsets) \in Offsets /\ \A x \in Offsets : x <= Max(Offsets)
  <2>1. Offsets \in SUBSET Int /\ 0 \in Int /\ Window \in Int
        /\ \A x \in Offsets : 0 <= x /\ x <= Window
    BY <1>1
  <2> QED BY <1>1, <2>1, Bounds, Zenon
<1>3. PICK low \in Int, high \in Int : low = Min(Offsets) /\ high = Max(Offsets)
  <2>1. Min(Offsets) \in 0..Window /\ Max(Offsets) \in 0..Window
    BY <1>1, <1>2, Zenon
  <2> QED BY <2>1
<1>4. /\ low \in 0..Window /\ high \in 0..Window /\ low <= high
      /\ \A o \in Offsets : o \in 0..Window /\ low <= o /\ o <= high
    BY <1>1, <1>2, <1>3
<1>5. Lowest = low /\ Drift = high - low
    BY <1>3 DEF Lowest, Drift
<1> QED BY <1>1, <1>4, <1>5

\* The entries younger than t.
Younger(entries, t) == {e \in entries : e.age < t}

\* A window that was let through so often, and what is left of it: it is within its limit,
\* and whatever may still count is in it.
WindowOK(entered, left, limit) ==
    /\ entered \in SUBSET Entry /\ left \in SUBSET Entry
    /\ IsFiniteSet(entered) /\ IsFiniteSet(left)
    /\ Cardinality(left) <= limit
    /\ Cardinality(Younger(entered, Window - Drift)) <= limit
    /\ \A t \in Int : t <= Window - Drift =>
          Cardinality(Younger(entered, t)) <= Cardinality(Younger(left, t - Lowest))

\* Part of a finite set is finite and not larger.
LEMMA Part ==
    ASSUME NEW S, NEW T, IsFiniteSet(S), T \subseteq S
    PROVE  IsFiniteSet(T) /\ Cardinality(T) \in Nat /\ Cardinality(S) \in Nat
           /\ Cardinality(T) <= Cardinality(S)
BY FS_Subset, FS_CardinalityType

\* The young entries of a window are part of it.
LEMMA YoungerPart ==
    ASSUME NEW S, IsFiniteSet(S), NEW t
    PROVE  IsFiniteSet(Younger(S, t)) /\ Cardinality(Younger(S, t)) \in Nat
           /\ Cardinality(Younger(S, t)) <= Cardinality(S)
<1>1. Younger(S, t) \subseteq S
    BY DEF Younger
<1> QED BY <1>1, Part, Zenon

\* A new member is one more.
LEMMA OneMore ==
    ASSUME NEW S \in SUBSET Entry, IsFiniteSet(S), NEW a \in -Window .. Window
    PROVE  \E e \in Entry : e \notin S /\ e.age = a /\ With(S, a) = S \cup {e}
<1>1. PICK c \in Nat : c = Cardinality(S)
    BY FS_CardinalityType
<1> DEFINE new(n) == [age |-> a, n |-> n]
<1>2. \E n \in 0..c : new(n) \notin S
  <2> SUFFICES ASSUME \A n \in 0..c : new(n) \in S PROVE FALSE
    OBVIOUS
  <2> DEFINE f == [n \in 0..c |-> new(n)]
  <2>1. f \in Injection(0..c, S)
    <3>1. f \in [0..c -> S]
      OBVIOUS
    <3>2. \A x, y \in 0..c : f[x] = f[y] => x = y
      <4>1. \A x \in 0..c : f[x].n = x
        OBVIOUS
      <4> HIDE DEF f
      <4> QED BY <4>1
    <3> HIDE DEF f
    <3> QED BY <3>1, <3>2 DEF Injection, IsInjective
  <2> HIDE DEF f
  <2>2. Cardinality(0..c) <= Cardinality(S)
    BY <2>1, FS_Injection, Zenon
  <2>3. Cardinality(0..c) = c + 1
    BY FS_Interval
  <2> QED BY <1>1, <2>2, <2>3
<1> DEFINE n == CHOOSE n \in 0..Cardinality(S) : new(n) \notin S
<1>3. n \in 0..c /\ new(n) \notin S
    BY <1>1, <1>2
<1>4. With(S, a) = S \cup {new(n)}
    BY Zenon DEF With
<1> HIDE DEF n
<1>5. new(n) \in Entry /\ new(n).age = a
    BY <1>3 DEF Entry
<1> QED BY <1>3, <1>4, <1>5

\* What a clock still counts is all that may count for any of them.
LEMMA StillThere ==
    ASSUME NEW S \in SUBSET Entry, NEW o \in Offsets, NEW t \in Int, t <= Window - Drift
    PROVE  Younger(Younger(S, Window - o), t - Lowest) = Younger(S, t - Lowest)
<1>1. o \in Int /\ Window - o \in Int /\ Lowest \in Int /\ t - Lowest <= Window - o
    BY Clocks
<1>2. \A e \in S : e.age \in Int
    BY Clocks DEF Entry
<1> QED BY <1>1, <1>2 DEF Younger

\* The script refuses.
LEMMA KeptOut ==
    ASSUME NEW P, NEW L, NEW limit \in Nat, NEW o \in Offsets, WindowOK(P, L, limit)
    PROVE  WindowOK(P, Younger(L, Window - o), limit)
<1>1. /\ IsFiniteSet(Younger(L, Window - o)) /\ Younger(L, Window - o) \in SUBSET Entry
      /\ Cardinality(Younger(L, Window - o)) <= limit
  <2>1. Younger(L, Window - o) \in SUBSET Entry
    BY DEF WindowOK, Younger
  <2>2. /\ IsFiniteSet(Younger(L, Window - o)) /\ Cardinality(Younger(L, Window - o)) \in Nat
        /\ Cardinality(L) \in Nat
        /\ Cardinality(Younger(L, Window - o)) <= Cardinality(L)
    BY YoungerPart, FS_CardinalityType DEF WindowOK
  <2> QED BY <2>1, <2>2 DEF WindowOK
<1>2. \A t \in Int : t <= Window - Drift =>
          Younger(Younger(L, Window - o), t - Lowest) = Younger(L, t - Lowest)
    BY StillThere DEF WindowOK
<1> QED BY <1>1, <1>2 DEF WindowOK

\* The script lets through.
LEMMA LetIn ==
    ASSUME NEW P, NEW L, NEW limit \in Nat, NEW o \in Offsets, WindowOK(P, L, limit),
           Cardinality(Younger(L, Window - o)) < limit
    PROVE  WindowOK(With(P, 0), With(Younger(L, Window - o), -o), limit)
<1> DEFINE K == Younger(L, Window - o)
<1>1. /\ P \in SUBSET Entry /\ IsFiniteSet(P) /\ K \in SUBSET Entry /\ IsFiniteSet(K)
      /\ Cardinality(K) \in Nat /\ Cardinality(K) < limit
  <2>1. K \in SUBSET Entry
    BY DEF WindowOK, Younger
  <2>2. IsFiniteSet(K) /\ Cardinality(K) \in Nat
    BY YoungerPart DEF WindowOK
  <2> QED BY <2>1, <2>2 DEF WindowOK
<1>2. \A t \in Int : t <= Window - Drift =>
          /\ Cardinality(Younger(P, t)) <= Cardinality(Younger(K, t - Lowest))
          /\ IsFiniteSet(Younger(P, t)) /\ Cardinality(Younger(P, t)) \in Nat
          /\ IsFiniteSet(Younger(K, t - Lowest)) /\ Cardinality(Younger(K, t - Lowest)) \in Nat
          /\ Cardinality(Younger(K, t - Lowest)) <= Cardinality(K)
  <2> SUFFICES ASSUME NEW t \in Int, t <= Window - Drift
               PROVE  /\ Cardinality(Younger(P, t)) <= Cardinality(Younger(K, t - Lowest))
                      /\ IsFiniteSet(Younger(P, t)) /\ Cardinality(Younger(P, t)) \in Nat
                      /\ IsFiniteSet(Younger(K, t - Lowest))
                      /\ Cardinality(Younger(K, t - Lowest)) \in Nat
                      /\ Cardinality(Younger(K, t - Lowest)) <= Cardinality(K)
    BY Zenon
  <2>1. Younger(K, t - Lowest) = Younger(L, t - Lowest)
    BY StillThere DEF WindowOK
  <2>2. Cardinality(Younger(P, t)) <= Cardinality(Younger(L, t - Lowest))
    BY DEF WindowOK
  <2> HIDE DEF K
  <2>3. IsFiniteSet(Younger(P, t)) /\ Cardinality(Younger(P, t)) \in Nat
    BY <1>1, YoungerPart, Zenon
  <2>4. /\ IsFiniteSet(Younger(K, t - Lowest)) /\ Cardinality(Younger(K, t - Lowest)) \in Nat
        /\ Cardinality(Younger(K, t - Lowest)) <= Cardinality(K)
    BY <1>1, YoungerPart, Zenon
  <2> QED BY <2>1, <2>2, <2>3, <2>4
<1>3. PICK p \in Entry : p \notin P /\ p.age = 0 /\ With(P, 0) = P \cup {p}
  <2>1. 0 \in -Window .. Window
    BY Clocks
  <2> QED BY <1>1, <2>1, OneMore, Zenon
<1>4. o \in 0..Window /\ -o \in -Window .. Window /\ Lowest \in Nat /\ Lowest <= o
    BY Clocks
<1>5. PICK k \in Entry : k \notin K /\ k.age = -o /\ With(K, -o) = K \cup {k}
  <2> HIDE DEF K
  <2> QED BY <1>1, <1>4, OneMore, Zenon
<1> HIDE DEF K
<1>6. /\ P \cup {p} \in SUBSET Entry /\ IsFiniteSet(P \cup {p})
      /\ K \cup {k} \in SUBSET Entry /\ IsFiniteSet(K \cup {k})
      /\ Cardinality(K \cup {k}) = Cardinality(K) + 1
    BY <1>1, <1>3, <1>5, FS_AddElement
<1>7. ASSUME NEW t \in Int, t <= Window - Drift
      PROVE  /\ Cardinality(Younger(P \cup {p}, t)) <= Cardinality(Younger(K \cup {k}, t - Lowest))
             /\ Cardinality(Younger(P \cup {p}, t)) <= Cardinality(K) + 1
  <2>1. CASE t > 0
    <3>1. Younger(P \cup {p}, t) = Younger(P, t) \cup {p} /\ p \notin Younger(P, t)
      BY <1>3, <2>1 DEF Younger
    <3>2. /\ Younger(K \cup {k}, t - Lowest) = Younger(K, t - Lowest) \cup {k}
          /\ k \notin Younger(K, t - Lowest)
      <4>1. -o < t - Lowest
        BY <1>4, <2>1
      <4> QED BY <1>5, <4>1 DEF Younger
    <3>3. Cardinality(Younger(P, t) \cup {p}) = Cardinality(Younger(P, t)) + 1
      BY <1>2, <1>7, <3>1, FS_AddElement
    <3>4. Cardinality(Younger(K, t - Lowest) \cup {k}) = Cardinality(Younger(K, t - Lowest)) + 1
      BY <1>2, <1>7, <3>2, FS_AddElement
    <3>5. Cardinality(Younger(P \cup {p}, t)) = Cardinality(Younger(P, t)) + 1
      BY <3>1, <3>3
    <3>6. Cardinality(Younger(K \cup {k}, t - Lowest)) = Cardinality(Younger(K, t - Lowest)) + 1
      BY <3>2, <3>4
    <3>7. /\ Cardinality(Younger(P, t)) \in Nat /\ Cardinality(Younger(K, t - Lowest)) \in Nat
          /\ Cardinality(Younger(P, t)) <= Cardinality(Younger(K, t - Lowest))
          /\ Cardinality(Younger(K, t - Lowest)) <= Cardinality(K)
      BY <1>2, <1>7, Zenon
    <3> QED BY <1>1, <3>5, <3>6, <3>7
  <2>2. CASE ~(t > 0)
    <3>1. Younger(P \cup {p}, t) = Younger(P, t)
      BY <1>3, <2>2 DEF Younger
    <3>2. Younger(K, t - Lowest) \subseteq Younger(K \cup {k}, t - Lowest)
      BY DEF Younger
    <3>3. /\ Cardinality(Younger(K, t - Lowest)) <= Cardinality(Younger(K \cup {k}, t - Lowest))
          /\ Cardinality(Younger(K \cup {k}, t - Lowest)) \in Nat
      <4>1. IsFiniteSet(Younger(K \cup {k}, t - Lowest))
        BY <1>6, YoungerPart, Zenon
      <4> QED BY <3>2, <4>1, Part, Zenon
    <3> QED BY <1>1, <1>2, <1>7, <3>1, <3>3
  <2> QED BY <2>1, <2>2
<1>8. Cardinality(Younger(P \cup {p}, Window - Drift)) <= limit
  <2>1. PICK w \in Int : w = Window - Drift
    BY Clocks
  <2>2. Cardinality(Younger(P \cup {p}, w)) <= Cardinality(K) + 1
    <3>1. w <= Window - Drift
      BY <2>1
    <3> QED BY <1>7, <3>1, Zenon
  <2>3. Cardinality(Younger(P \cup {p}, w)) \in Nat
    BY <1>6, YoungerPart, Zenon
  <2> QED BY <1>1, <2>1, <2>2, <2>3
<1>9. \A t \in Int : t <= Window - Drift =>
          Cardinality(Younger(P \cup {p}, t)) <= Cardinality(Younger(K \cup {k}, t - Lowest))
    BY <1>7, Zenon
<1>10. Cardinality(K \cup {k}) <= limit
    BY <1>1, <1>6
<1>11. WindowOK(P \cup {p}, K \cup {k}, limit)
    BY <1>6, <1>8, <1>9, <1>10, Zenon DEF WindowOK
<1> QED BY <1>3, <1>5, <1>11, Zenon DEF K

\* A tick makes every entry older, and loses those nobody counts.
LEMMA Older ==
    ASSUME NEW S \in SUBSET Entry, IsFiniteSet(S)
    PROVE  /\ Aging(S) \in SUBSET Entry /\ IsFiniteSet(Aging(S))
           /\ Cardinality(Aging(S)) \in Nat /\ Cardinality(Aging(S)) <= Cardinality(S)
           /\ \A t \in Int :
                 /\ Cardinality(Younger(Aging(S), t)) <= Cardinality(Younger(S, t - 1))
                 /\ t <= Window =>
                       Cardinality(Younger(S, t - 1)) <= Cardinality(Younger(Aging(S), t))
<1> DEFINE older(e) == [e EXCEPT !.age = @ + 1]
           younger(e) == [e EXCEPT !.age = @ - 1]
<1>1. Window \in Nat
    BY Clocks
<1>2. ASSUME NEW e \in Aging(S)
      PROVE  younger(e) \in S /\ e = older(younger(e)) /\ e \in Entry /\ younger(e).age = e.age - 1
  <2>1. PICK d \in S : e = older(d) /\ e.age < Window
    BY DEF Aging
  <2>2. PICK a \in Int, n \in Nat : /\ d = [age |-> a, n |-> n]
                                    /\ -Window <= a /\ a <= Window
    <3>1. d \in Entry /\ Window \in Int /\ -Window \in Int
      BY <1>1
    <3> QED BY <3>1 DEF Entry
  <2>3. e = [age |-> a + 1, n |-> n] /\ a + 1 < Window
    BY <2>1, <2>2
  <2>4. younger(e) = d
    BY <2>2, <2>3
  <2>5. e \in Entry
    BY <1>1, <2>2, <2>3 DEF Entry
  <2>6. younger(e).age = e.age - 1
    BY <2>2, <2>3, <2>4
  <2> QED BY <2>1, <2>4, <2>5, <2>6
<1>3. ASSUME NEW e \in S, e.age + 1 < Window
      PROVE  older(e) \in Aging(S) /\ older(e).age = e.age + 1 /\ e = younger(older(e))
  <2>1. PICK a \in Int, n \in Nat : e = [age |-> a, n |-> n]
    <3>1. e \in Entry /\ Window \in Int /\ -Window \in Int
      BY <1>1
    <3> QED BY <3>1 DEF Entry
  <2>2. older(e).age = e.age + 1 /\ e = younger(older(e))
    <3>1. older(e) = [age |-> a + 1, n |-> n]
      BY <2>1
    <3>2. PICK b \in Int : b = a + 1 /\ older(e) = [age |-> b, n |-> n]
      BY <3>1
    <3>3. \A d : d = [age |-> b, n |-> n] => younger(d) = [age |-> b - 1, n |-> n]
      OBVIOUS
    <3> HIDE DEF older, younger
    <3>4. younger(older(e)) = [age |-> b - 1, n |-> n]
      BY <3>2, <3>3
    <3>5. b - 1 = a
      BY <3>2
    <3> QED BY <2>1, <3>1, <3>4, <3>5
  <2> QED BY <1>3, <2>2 DEF Aging
<1> HIDE DEF older, younger
<1>4. IsFiniteSet(Aging(S)) /\ Cardinality(Aging(S)) <= Cardinality(S)
  <2> DEFINE f == [e \in Aging(S) |-> younger(e)]
  <2>1. f \in Injection(Aging(S), S)
    <3>1. f \in [Aging(S) -> S] /\ \A e \in Aging(S) : e = older(f[e])
      BY <1>2
    <3> HIDE DEF f
    <3> QED BY <3>1, Zenon DEF Injection, IsInjective
  <2> QED BY <2>1, FS_Injection, Zenon
<1>5. Aging(S) \in SUBSET Entry
    BY <1>2
<1>6. \A t : IsFiniteSet(Younger(S, t)) /\ IsFiniteSet(Younger(Aging(S), t))
    BY <1>4, YoungerPart, Zenon
<1>7. ASSUME NEW t \in Int
      PROVE  Cardinality(Younger(Aging(S), t)) <= Cardinality(Younger(S, t - 1))
  <2> DEFINE f == [e \in Younger(Aging(S), t) |-> younger(e)]
  <2>1. f \in Injection(Younger(Aging(S), t), Younger(S, t - 1))
    <3>1. ASSUME NEW e \in Younger(Aging(S), t)
          PROVE  younger(e) \in Younger(S, t - 1) /\ e = older(younger(e))
      <4>1. e \in Aging(S) /\ e.age < t
        BY DEF Younger
      <4>2. younger(e) \in S /\ younger(e).age = e.age - 1 /\ e \in Entry /\ e = older(younger(e))
        BY <1>2, <4>1
      <4> QED BY <4>1, <4>2 DEF Younger, Entry
    <3>2. f \in [Younger(Aging(S), t) -> Younger(S, t - 1)]
          /\ \A e \in Younger(Aging(S), t) : e = older(f[e])
      BY <3>1
    <3> HIDE DEF f
    <3> QED BY <3>2, Zenon DEF Injection, IsInjective
  <2> QED BY <1>6, <2>1, FS_Injection, Zenon
<1>8. ASSUME NEW t \in Int, t <= Window
      PROVE  Cardinality(Younger(S, t - 1)) <= Cardinality(Younger(Aging(S), t))
  <2> DEFINE f == [e \in Younger(S, t - 1) |-> older(e)]
  <2>1. f \in Injection(Younger(S, t - 1), Younger(Aging(S), t))
    <3>1. ASSUME NEW e \in Younger(S, t - 1)
          PROVE  older(e) \in Younger(Aging(S), t) /\ e = younger(older(e))
      <4>1. e \in S /\ e.age < t - 1 /\ e.age \in Int
        BY <1>1 DEF Younger, Entry
      <4>2. e.age + 1 < Window /\ e.age + 1 < t
        BY <1>1, <1>8, <4>1
      <4>3. older(e) \in Aging(S) /\ older(e).age = e.age + 1 /\ e = younger(older(e))
        BY <1>3, <4>1, <4>2
      <4> QED BY <4>2, <4>3 DEF Younger
    <3>2. f \in [Younger(S, t - 1) -> Younger(Aging(S), t)]
          /\ \A e \in Younger(S, t - 1) : e = younger(f[e])
      BY <3>1
    <3> HIDE DEF f
    <3> QED BY <3>2, Zenon DEF Injection, IsInjective
  <2> QED BY <1>6, <2>1, FS_Injection, Zenon
<1>9. Cardinality(Aging(S)) \in Nat
    BY <1>4, FS_CardinalityType, Zenon
<1> QED BY <1>4, <1>5, <1>7, <1>8, <1>9

\* Time passes.
LEMMA Aged ==
    ASSUME NEW P, NEW L, NEW limit \in Nat, WindowOK(P, L, limit)
    PROVE  WindowOK(Aging(P), IF Aging(P) = {} THEN {} ELSE Aging(L), limit)
<1>1. /\ P \in SUBSET Entry /\ IsFiniteSet(P) /\ L \in SUBSET Entry /\ IsFiniteSet(L)
      /\ Cardinality(L) <= limit /\ Cardinality(L) \in Nat
    BY FS_CardinalityType DEF WindowOK
<1>2. PICK w \in Int : w = Window - Drift /\ Window \in Nat /\ Lowest \in Nat /\ Drift \in Nat
    BY Clocks
<1>3. Aging(P) \in SUBSET Entry /\ IsFiniteSet(Aging(P))
    BY <1>1, Older, Zenon
<1>4. Cardinality(Younger(Aging(P), w)) <= limit
  <2>1. Younger(P, w - 1) \subseteq Younger(P, w)
    <3>1. \A e \in P : e.age \in Int
      BY <1>1, <1>2 DEF Entry
    <3> QED BY <3>1 DEF Younger
  <2>2. Cardinality(Younger(P, w - 1)) <= Cardinality(Younger(P, w))
        /\ Cardinality(Younger(P, w - 1)) \in Nat /\ Cardinality(Younger(P, w)) \in Nat
    <3>1. IsFiniteSet(Younger(P, w))
      BY <1>1, YoungerPart, Zenon
    <3> QED BY <2>1, <3>1, Part, Zenon
  <2>3. Cardinality(Younger(Aging(P), w)) <= Cardinality(Younger(P, w - 1))
    BY <1>1, Older, Zenon
  <2>4. Cardinality(Younger(P, w)) <= limit
    BY <1>2 DEF WindowOK
  <2>5. Cardinality(Younger(Aging(P), w)) \in Nat
    BY <1>3, YoungerPart, Zenon
  <2> QED BY <2>2, <2>3, <2>4, <2>5
<1>5. CASE Aging(P) = {}
  <2>1. \A t : Younger({}, t) = {}
    BY DEF Younger
  <2>2. IsFiniteSet({}) /\ Cardinality({}) = 0
    BY FS_EmptySet
  <2>3. \A t : Cardinality(Younger({}, t)) = 0
    BY <2>1, <2>2
  <2>4. WindowOK({}, {}, limit)
    BY <2>2, <2>3 DEF WindowOK
  <2> QED BY <1>5, <2>4
<1>6. CASE Aging(P) # {}
  <2>1. /\ Aging(L) \in SUBSET Entry /\ IsFiniteSet(Aging(L))
        /\ Cardinality(Aging(L)) <= Cardinality(L) /\ Cardinality(Aging(L)) \in Nat
    BY <1>1, Older, Zenon
  <2>2. ASSUME NEW t \in Int, t <= w
        PROVE  Cardinality(Younger(Aging(P), t)) <= Cardinality(Younger(Aging(L), t - Lowest))
    <3>1. PICK u \in Int, v \in Int : u = t - 1 /\ v = t - Lowest /\ v <= Window /\ u <= w
                                     /\ u - Lowest = v - 1
      BY <1>2, <2>2
    <3>2. Cardinality(Younger(Aging(P), t)) <= Cardinality(Younger(P, t - 1))
      BY <1>1, Older, Zenon
    <3>3. Cardinality(Younger(P, u)) <= Cardinality(Younger(L, u - Lowest))
      BY <1>2, <3>1 DEF WindowOK
    <3>4. Cardinality(Younger(L, v - 1)) <= Cardinality(Younger(Aging(L), v))
      BY <1>1, <3>1, Older, Zenon
    <3>5. /\ Cardinality(Younger(Aging(P), t)) \in Nat /\ Cardinality(Younger(P, u)) \in Nat
          /\ Cardinality(Younger(L, v - 1)) \in Nat /\ Cardinality(Younger(Aging(L), v)) \in Nat
      BY <1>1, <1>3, <2>1, YoungerPart, Zenon
    <3> QED BY <3>1, <3>2, <3>3, <3>4, <3>5
  <2>3. Cardinality(Aging(L)) <= limit
    BY <1>1, <2>1
  <2>4. WindowOK(Aging(P), Aging(L), limit)
    BY <1>2, <1>3, <1>4, <2>1, <2>2, <2>3 DEF WindowOK
  <2> QED BY <1>6, <2>4
<1> QED BY <1>5, <1>6

\* A number that is at least one.
LEMMA AtLeastOne ==
    ASSUME NEW y \in Int
    PROVE  Max({1, y}) \in Int /\ Max({1, y}) >= 1 /\ Max({1, y}) >= y
<1> DEFINE S == {1, y}
           hi == IF y > 1 THEN y ELSE 1
           lo == IF y > 1 THEN 1 ELSE y
<1>1. S \in SUBSET Int /\ S # {} /\ lo \in Int /\ hi \in Int /\ \A x \in S : lo <= x /\ x <= hi
    OBVIOUS
<1> HIDE DEF S, hi, lo
<1>2. Max(S) \in S /\ \A x \in S : x <= Max(S)
    BY <1>1, Bounds, Zenon
<1>3. 1 \in S /\ y \in S
    BY DEF S
<1>4. Max(S) \in Int /\ 1 <= Max(S) /\ y <= Max(S)
    BY <1>1, <1>2, <1>3
<1> QED BY <1>4 DEF S

\* The oldest entry is gone by then.
LEMMA Waited ==
    ASSUME NEW b, NEW o \in Offsets, NEW P, NEW limit \in Nat, WindowOK(P, window[b], limit),
           limit > 0, Refuses(b, limit, o)
    PROVE  Cardinality({e \in window[b] : e.age + o + Retry_After(b, o) * Second < Window}) < limit
<1> DEFINE L == window[b]
           K == Current(b, o)
           A == {e.age : e \in K}
<1>1. /\ L \in SUBSET Entry /\ IsFiniteSet(L) /\ Cardinality(L) \in Nat /\ Cardinality(L) <= limit
      /\ K \subseteq L
    BY FS_CardinalityType DEF WindowOK, Current
<1>2. /\ IsFiniteSet(K) /\ Cardinality(K) \in Nat /\ Cardinality(K) <= Cardinality(L)
      /\ Cardinality(K) >= limit /\ K # {}
  <2> HIDE DEF K
  <2>1. IsFiniteSet(K) /\ Cardinality(K) \in Nat /\ Cardinality(K) <= Cardinality(L)
    BY <1>1, Part, Zenon
  <2>2. Cardinality(K) >= limit
    BY DEF Refuses, K
  <2>3. Cardinality({}) = 0
    BY FS_EmptySet
  <2> QED BY <2>1, <2>2, <2>3
<1>3. o \in Int /\ Window \in Nat /\ Second \in Nat /\ Second > 0
    BY Clocks, AccessAssumption
<1>4. \A e \in L : e.age \in -Window .. Window
    BY <1>1 DEF Entry
<1>5. PICK old \in K, m \in Int : old.age = m /\ m = Max(A)
  <2>1. A \in SUBSET Int /\ A # {} /\ \A x \in A : -Window <= x /\ x <= Window
    BY <1>1, <1>2, <1>3, <1>4
  <2>2. -Window \in Int /\ Window \in Int
    BY <1>3
  <2>3. Max(A) \in A
    <3> HIDE DEF A
    <3> QED BY <2>1, <2>2, Bounds, Zenon
  <2> QED BY <2>1, <2>3
<1>6. PICK ra \in Int : ra = retry_after(b, o) /\ ra >= 1 /\ ra >= Window - (m + o)
  <2>1. PICK y \in Int : y = Window - (m + o)
    BY <1>3
  <2>2. retry_after(b, o) = Max({1, y})
    BY <1>5, <2>1, Zenon DEF retry_after
  <2>3. Max({1, y}) \in Int /\ Max({1, y}) >= 1 /\ Max({1, y}) >= y
    BY AtLeastOne
  <2> QED BY <2>1, <2>2, <2>3
<1>7. PICK RA \in Int : RA = Retry_After(b, o) /\ RA * Second \in Int /\ RA * Second > ra
  <2>1. PICK q \in Int : q = ra \div Second /\ (q + 1) * Second > ra
    BY <1>3
  <2>2. PICK y \in Int : y = q + 1
    OBVIOUS
  <2>3. Retry_After(b, o) = Max({1, y})
    BY <1>6, <2>1, <2>2, Zenon DEF Retry_After
  <2>4. Max({1, y}) \in Int /\ Max({1, y}) >= 1 /\ Max({1, y}) >= y
    BY AtLeastOne
  <2>5. PICK RA \in Int : RA = Retry_After(b, o) /\ RA >= y
    BY <2>3, <2>4
  <2>6. RA * Second >= y * Second
    BY <1>3, <2>5
  <2>7. y * Second > ra
    BY <2>1, <2>2
  <2>8. RA * Second \in Int /\ y * Second \in Int
    BY <1>3
  <2> QED BY <2>5, <2>6, <2>7, <2>8
<1> DEFINE U == {e \in L : e.age + o + RA * Second < Window}
<1>8. U \subseteq K \ {old}
  <2> SUFFICES ASSUME NEW e \in L, e.age + o + RA * Second < Window PROVE e \in K /\ e # old
    OBVIOUS
  <2>1. PICK g \in Int, z \in Int : g = e.age /\ z = RA * Second /\ z > ra /\ g + o + z < Window
    BY <1>4, <1>7, <2>1
  <2>2. g + o < Window
    BY <1>3, <1>6, <2>1
  <2>3. g # m
    BY <1>3, <1>6, <2>1
  <2> QED BY <1>5, <2>1, <2>2, <2>3 DEF Current
<1> HIDE DEF U, K
<1>9. /\ IsFiniteSet(K \ {old}) /\ Cardinality(K \ {old}) = Cardinality(K) - 1
    BY <1>2, <1>5, FS_RemoveElement
<1>10. Cardinality(U) <= Cardinality(K \ {old}) /\ Cardinality(U) \in Nat
    BY <1>8, <1>9, Part, Zenon
<1>11. Cardinality(U) < limit
    BY <1>1, <1>2, <1>9, <1>10
<1> QED BY <1>7, <1>11 DEF U

\* A bucket has its limit, a key that was never issued an empty window; a request that is
\* about to be counted has the limit of its key.
BucketsOK ==
    /\ window \in [Buckets -> SUBSET Entry] /\ passed \in [Buckets -> SUBSET Entry]
    /\ \A b \in Buckets : WindowOK(passed[b], window[b], Limit(b))

UnusedOK == \A k \in ApiKeys : apiKey[k].state = "none" => window[k] = {} /\ passed[k] = {}

LimitsOK == \A r \in Requests : request[r].at = "key" =>
    /\ apiKey[request[r].key].state # "none"
    /\ request[r].limit = apiKey[request[r].key].limit

RateInv ==
    /\ operator \in {"enabled", "disabled"} /\ token \in 0..TokenTtl
    /\ BucketsOK
    /\ UnusedOK
    /\ LimitsOK

\* Every limit is positive: rate_limit_per_minute and tenant_rate_limit_per_minute.
LEMMA Limits ==
    ASSUME AccessInv, NEW b \in Buckets
    PROVE  Limit(b) \in Nat /\ Limit(b) > 0
<1>1. /\ \A k \in ApiKeys : apiKey[k] \in KeyRow
      /\ KeyLimits \subseteq Nat \ {0} /\ TenantLimit \in Nat \ {0}
    BY AccessAssumption DEF AccessInv
<1>2. ASSUME NEW k \in ApiKeys PROVE apiKey[k].limit \in Nat \ {0}
  <2>1. PICK n \in KeyLimits \cup {1} : n = apiKey[k].limit
    BY <1>1 DEF KeyRow
  <2>2. n \in Nat \ {0}
    BY <1>1
  <2> QED BY <2>1, <2>2, Zenon
<1> QED BY <1>1, <1>2 DEF Limit, Buckets

\* An empty window is within any limit.
LEMMA Nothing ==
    ASSUME NEW limit \in Nat
    PROVE  WindowOK({}, {}, limit)
<1>1. \A t : Younger({}, t) = {}
    BY DEF Younger
<1>2. IsFiniteSet({}) /\ Cardinality({}) = 0
    BY FS_EmptySet
<1>3. \A t : Cardinality(Younger({}, t)) = 0
    BY <1>1, <1>2
<1> QED BY <1>2, <1>3 DEF WindowOK

\* A step that enters nothing: the limits of keys that are in use stay.
LEMMA QuietBuckets ==
    ASSUME AccessInv, AccessInv', RateInv, UNCHANGED <<window, passed>>,
           \A k \in ApiKeys :
              \/ apiKey[k].state = "none"
              \/ apiKey'[k].limit = apiKey[k].limit /\ apiKey'[k].state # "none"
    PROVE  BucketsOK' /\ UnusedOK'
<1>1. UnusedOK'
    BY DEF RateInv, UnusedOK
<1>2. ASSUME NEW b \in Buckets PROVE WindowOK(passed[b], window[b], Limit(b)')
  <2>1. Limit(b)' \in Nat
    <3>1. Limit(b)' = IF b = Tenant THEN TenantLimit ELSE apiKey'[b].limit
      BY DEF Limit
    <3>2. /\ \A k \in ApiKeys : apiKey'[k] \in KeyRow
          /\ KeyLimits \subseteq Nat \ {0} /\ TenantLimit \in Nat \ {0}
      BY AccessAssumption DEF AccessInv
    <3>3. ASSUME NEW k \in ApiKeys PROVE apiKey'[k].limit \in Nat
      <4>1. PICK n \in KeyLimits \cup {1} : n = apiKey'[k].limit
        BY <3>2 DEF KeyRow
      <4>2. n \in Nat
        BY <3>2
      <4> QED BY <4>1, <4>2, Zenon
    <3> QED BY <3>1, <3>2, <3>3 DEF Buckets
  <2>2. CASE Limit(b)' = Limit(b)
    BY <2>2 DEF RateInv, BucketsOK
  <2>3. CASE Limit(b)' # Limit(b)
    <3>1. b \in ApiKeys /\ apiKey[b].state = "none"
      BY <2>3 DEF Limit, Buckets
    <3>2. window[b] = {} /\ passed[b] = {}
      BY <3>1 DEF RateInv, UnusedOK
    <3> QED BY <2>1, <3>2, Nothing
  <2> QED BY <2>2, <2>3
<1> QED BY <1>1, <1>2 DEF RateInv, BucketsOK

\* SLIDING_WINDOW_LUA.
LEMMA EnterBuckets ==
    ASSUME AccessInv, RateInv, NEW b \in Buckets, NEW o \in Offsets, Enter(b, Limit(b), o),
           UNCHANGED apiKey, b \in ApiKeys => apiKey[b].state # "none"
    PROVE  BucketsOK' /\ UnusedOK'
<1>1. Limit(b) \in Nat /\ Limit(b) > 0
    BY Limits
<1>2. /\ window \in [Buckets -> SUBSET Entry] /\ passed \in [Buckets -> SUBSET Entry]
      /\ WindowOK(passed[b], window[b], Limit(b))
    BY DEF RateInv, BucketsOK
<1>3. Current(b, o) = Younger(window[b], Window - o)
  <2>1. \A e \in window[b] : e.age \in Int
    BY <1>2, Clocks DEF Entry
  <2>2. o \in Int /\ Window \in Int
    BY Clocks
  <2> QED BY <2>1, <2>2 DEF Current, Younger
<1>4. PICK P, L : /\ passed' = [passed EXCEPT ![b] = P] /\ window' = [window EXCEPT ![b] = L]
                  /\ WindowOK(P, L, Limit(b))
  <2>1. CASE Refuses(b, Limit(b), o)
    <3>1. passed' = [passed EXCEPT ![b] = passed[b]]
      BY <1>2, <2>1 DEF Enter
    <3>2. window' = [window EXCEPT ![b] = Current(b, o)]
      BY <2>1 DEF Enter
    <3>3. WindowOK(passed[b], Younger(window[b], Window - o), Limit(b))
      BY <1>1, <1>2, KeptOut, Zenon
    <3> QED BY <1>3, <3>1, <3>2, <3>3, Zenon
  <2>2. CASE ~Refuses(b, Limit(b), o)
    <3>1. passed' = [passed EXCEPT ![b] = With(passed[b], 0)]
      BY <2>2, Zenon DEF Enter
    <3>2. window' = [window EXCEPT ![b] = With(Current(b, o), -o)]
      BY <2>2, Zenon DEF Enter
    <3>3. Cardinality(Younger(window[b], Window - o)) < Limit(b)
      <4>1. Cardinality(Younger(window[b], Window - o)) \in Nat
        BY <1>2, YoungerPart, Zenon DEF WindowOK
      <4> QED BY <1>1, <1>3, <2>2, <4>1 DEF Refuses
    <3>4. WindowOK(With(passed[b], 0), With(Younger(window[b], Window - o), -o), Limit(b))
      BY <1>1, <1>2, <3>3, LetIn, Zenon
    <3> QED BY <1>3, <3>1, <3>2, <3>4, Zenon
  <2> QED BY <2>1, <2>2
<1>5. P \in SUBSET Entry /\ L \in SUBSET Entry
    BY <1>4 DEF WindowOK
<1>6. /\ window' \in [Buckets -> SUBSET Entry] /\ passed' \in [Buckets -> SUBSET Entry]
      /\ passed'[b] = P /\ window'[b] = L
      /\ \A c \in Buckets \ {b} : passed'[c] = passed[c] /\ window'[c] = window[c]
    BY <1>2, <1>4, <1>5
<1>7. \A c \in Buckets : Limit(c)' = Limit(c)
    BY DEF Limit
<1>8. \A c \in Buckets : WindowOK(passed'[c], window'[c], Limit(c))
    BY <1>4, <1>6 DEF RateInv, BucketsOK
<1>9. BucketsOK'
    BY <1>6, <1>7, <1>8 DEF BucketsOK
<1>10. UnusedOK'
    BY <1>6 DEF RateInv, UnusedOK, Buckets
<1> QED BY <1>9, <1>10

\* In the beginning nothing was let through.
LEMMA RateInit == AccessInit => RateInv
<1> SUFFICES ASSUME AccessInit PROVE RateInv
    OBVIOUS
<1>1. AccessInv
    BY AccessInductive
<1>2. \A b \in Buckets : WindowOK({}, {}, Limit(b))
    BY <1>1, Limits, Nothing
<1>3. BucketsOK /\ UnusedOK
    BY <1>2 DEF AccessInit, BucketsOK, UnusedOK, Buckets
<1>4. LimitsOK
    BY DEF AccessInit, LimitsOK, NoRequest
<1>5. token \in 0..TokenTtl
    BY AccessAssumption DEF AccessInit
<1> QED BY <1>3, <1>4, <1>5 DEF AccessInit, RateInv

\* A request that is not at the script keeps the limits right.
LEMMA OtherRequest ==
    ASSUME AccessInv, LimitsOK, UNCHANGED apiKey, NEW r \in Requests,
           request'[r].at = "key" => /\ apiKey[request'[r].key].state # "none"
                                     /\ request'[r].limit = apiKey[request'[r].key].limit,
           \A q \in Requests \ {r} : request'[q] = request[q]
    PROVE  LimitsOK'
BY DEF LimitsOK

\* authenticate_bearer.
LEMMA RateRequest ==
    ASSUME AccessInv, RateInv, NEW r \in Requests,
           RequestArrives(r) \/ Lookup(r) \/ CheckKey(r) \/ CheckTenant(r)
    PROVE  RateInv'
<1>0. /\ request[r] \in ApiRequest /\ request[r].key \in ApiKeys
      /\ request \in [Requests -> ApiRequest] /\ LimitsOK
      /\ ClockOf[r] \in Offsets /\ Tenant \notin ApiKeys
    BY AccessAssumption DEF AccessInv, RateInv, ApiRequest, Offsets
<1>1. /\ UNCHANGED <<apiKey, operator, token>>
      /\ operator' \in {"enabled", "disabled"} /\ token' \in 0..TokenTtl
  <2>1. UNCHANGED <<apiKey, operator, token>>
    BY Zenon DEF RequestArrives, Lookup, CheckKey, CheckTenant
  <2> QED BY <2>1 DEF RateInv
<1>2. ASSUME NEW a, Reply(r, a) PROVE LimitsOK'
  <2>1. request'[r].at = "idle" /\ \A q \in Requests \ {r} : request'[q] = request[q]
    BY <1>0, <1>2 DEF Reply, ApiRequest
  <2> QED BY <1>0, <1>1, <2>1, OtherRequest
<1>3. ASSUME UNCHANGED <<window, passed>> PROVE BucketsOK' /\ UnusedOK'
  <2>1. \A b \in Buckets : Limit(b)' = Limit(b)
    BY <1>1 DEF Limit
  <2> QED BY <1>1, <1>3, <2>1 DEF RateInv, BucketsOK, UnusedOK
<1>4. CASE RequestArrives(r)
  <2>1. PICK q : request' = [request EXCEPT ![r] = q] /\ q.at = "lookup"
    <3>1. PICK k \in ApiKeys :
            request' = [request EXCEPT ![r] = [NoRequest EXCEPT !.at = "lookup", !.key = k,
                                                   !.entitled = EntitledNow(k)]]
      BY <1>4, Zenon DEF RequestArrives
    <3>2. [NoRequest EXCEPT !.at = "lookup", !.key = k, !.entitled = EntitledNow(k)].at = "lookup"
      BY DEF NoRequest
    <3> QED BY <3>1, <3>2, Zenon
  <2>2. request'[r].at = "lookup" /\ \A p \in Requests \ {r} : request'[p] = request[p]
    BY <1>0, <2>1
  <2>3. LimitsOK'
    BY <1>0, <1>1, <2>2, OtherRequest
  <2>4. UNCHANGED <<window, passed>>
    BY <1>4, Zenon DEF RequestArrives
  <2> QED BY <1>1, <1>3, <2>3, <2>4 DEF RateInv
<1>5. CASE Lookup(r)
  <2>1. LimitsOK'
    <3>1. CASE Reply(r, "refused")
      BY <1>2, <3>1
    <3>2. CASE ~Reply(r, "refused")
      <4>1. /\ Active(request[r].key)
            /\ request' = [request EXCEPT ![r].at = "key",
                                          ![r].limit = apiKey[request[r].key].limit]
        BY <1>5, <3>2 DEF Lookup
      <4>2. /\ request'[r].key = request[r].key
            /\ request'[r].limit = apiKey[request[r].key].limit
            /\ \A q \in Requests \ {r} : request'[q] = request[q]
        BY <1>0, <4>1 DEF ApiRequest
      <4>3. apiKey[request[r].key].state # "none"
        BY <4>1 DEF Active
      <4> QED BY <1>0, <1>1, <4>2, <4>3, OtherRequest
    <3> QED BY <3>1, <3>2
  <2>2. UNCHANGED <<window, passed>>
    BY <1>5, Zenon DEF Lookup
  <2> QED BY <1>1, <1>3, <2>1, <2>2 DEF RateInv
<1>6. CASE CheckKey(r)
  <2>1. PICK k, o : k = request[r].key /\ o = ClockOf[r]
    OBVIOUS
  <2>2. /\ request[r].at = "key" /\ Enter(k, request[r].limit, o)
        /\ IF Refuses(k, request[r].limit, o) THEN Reply(r, "refused")
           ELSE request' = [request EXCEPT ![r].at = "tenant"]
    BY <1>6, <2>1, Zenon DEF CheckKey
  <2>3. /\ k \in Buckets /\ o \in Offsets /\ request[r].limit = Limit(k)
        /\ apiKey[k].state # "none"
    BY <1>0, <2>1, <2>2 DEF LimitsOK, Limit, Buckets
  <2>4. BucketsOK' /\ UnusedOK'
    BY <1>1, <2>2, <2>3, EnterBuckets
  <2>5. LimitsOK'
    <3>1. CASE Reply(r, "refused")
      BY <1>2, <3>1
    <3>2. CASE ~Reply(r, "refused")
      <4>1. request'[r].at = "tenant" /\ \A q \in Requests \ {r} : request'[q] = request[q]
        BY <1>0, <2>2, <3>2 DEF ApiRequest
      <4> QED BY <1>0, <1>1, <4>1, OtherRequest
    <3> QED BY <3>1, <3>2
  <2> QED BY <1>1, <2>4, <2>5 DEF RateInv
<1>7. CASE CheckTenant(r)
  <2>1. PICK o : o = ClockOf[r]
    OBVIOUS
  <2>2. /\ Enter(Tenant, TenantLimit, o)
        /\ Reply(r, IF Refuses(Tenant, TenantLimit, o) THEN "refused" ELSE "ok")
    BY <1>7, <2>1, Zenon DEF CheckTenant
  <2>3. Tenant \in Buckets /\ o \in Offsets /\ TenantLimit = Limit(Tenant) /\ Tenant \notin ApiKeys
    BY <1>0, <2>1 DEF Limit, Buckets
  <2>4. BucketsOK' /\ UnusedOK'
    BY <1>1, <2>2, <2>3, EnterBuckets
  <2>5. LimitsOK'
    BY <1>2, <2>2
  <2> QED BY <1>1, <2>4, <2>5 DEF RateInv
<1> QED BY <1>4, <1>5, <1>6, <1>7

\* A tick makes the token older, up to its end.
LEMMA TokenAges ==
    ASSUME NEW t \in 0..TokenTtl
    PROVE  Min({t + 1, TokenTtl}) \in 0..TokenTtl
<1>1. TokenTtl \in Nat \ {0}
    BY AccessAssumption
<1> DEFINE S == {t + 1, TokenTtl}
<1>2. /\ S \in SUBSET Int /\ S # {} /\ 0 \in Int /\ TokenTtl + 1 \in Int /\ TokenTtl \in S
      /\ \A x \in S : 0 <= x /\ x <= TokenTtl + 1
    BY <1>1
<1> HIDE DEF S
<1>3. Min(S) \in S /\ \A x \in S : Min(S) <= x
    BY <1>2, Bounds, Zenon
<1>4. Min(S) \in Int /\ 0 <= Min(S) /\ Min(S) <= TokenTtl
    BY <1>2, <1>3
<1> QED BY <1>1, <1>4 DEF S

\* A tick.
LEMMA RateTick ==
    ASSUME AccessInv, RateInv, TimePasses
    PROVE  RateInv'
<1>1. /\ passed' = [b \in Buckets |-> Aging(passed[b])]
      /\ window' = [b \in Buckets |-> IF passed'[b] = {} THEN {} ELSE Aging(window[b])]
      /\ token' = Min({token + 1, TokenTtl})
      /\ UNCHANGED <<apiKey, request, operator>>
    BY Zenon DEF TimePasses
<1>2. \A b \in Buckets :
         /\ passed'[b] = Aging(passed[b])
         /\ window'[b] = IF Aging(passed[b]) = {} THEN {} ELSE Aging(window[b])
    BY <1>1
<1>3. \A b \in Buckets : WindowOK(passed'[b], window'[b], Limit(b))
  <2> SUFFICES ASSUME NEW b \in Buckets PROVE WindowOK(passed'[b], window'[b], Limit(b))
    OBVIOUS
  <2>1. Limit(b) \in Nat
    BY Limits
  <2>2. WindowOK(passed[b], window[b], Limit(b))
    BY DEF RateInv, BucketsOK
  <2>3. WindowOK(Aging(passed[b]),
                 IF Aging(passed[b]) = {} THEN {} ELSE Aging(window[b]), Limit(b))
    BY <2>1, <2>2, Aged, Zenon
  <2> QED BY <1>2, <2>3, Zenon
<1>4. BucketsOK'
  <2>1. \A b \in Buckets : passed'[b] \in SUBSET Entry /\ window'[b] \in SUBSET Entry
    BY <1>3 DEF WindowOK
  <2>2. passed' \in [Buckets -> SUBSET Entry] /\ window' \in [Buckets -> SUBSET Entry]
    BY <1>1, <2>1
  <2>3. \A b \in Buckets : Limit(b)' = Limit(b)
    BY <1>1 DEF Limit
  <2> QED BY <1>3, <2>2, <2>3 DEF BucketsOK
<1>5. UnusedOK'
  <2>1. Aging({}) = {}
    BY DEF Aging
  <2> QED BY <1>1, <1>2, <2>1 DEF RateInv, UnusedOK, Buckets
<1>6. LimitsOK'
    BY <1>1 DEF RateInv, LimitsOK
<1>7. token' \in 0..TokenTtl /\ operator' \in {"enabled", "disabled"}
    BY <1>1, TokenAges DEF RateInv
<1> QED BY <1>4, <1>5, <1>6, <1>7 DEF RateInv

\* What the operators do enters nothing, and a key that is in use keeps its limit.
LEMMA RateOperator ==
    ASSUME AccessInv, AccessInv', RateInv,
           \/ Login \/ CreateTenant \/ CreateKey \/ RevokeKey \/ SetTenantStatus \/ DisableOperator
    PROVE  RateInv'
<1>0. /\ apiKey \in [ApiKeys -> KeyRow] /\ request \in [Requests -> ApiRequest]
      /\ UNCHANGED <<window, passed>>
      /\ \A r \in Requests : request[r] \in ApiRequest /\ request[r].key \in ApiKeys
    BY DEF AccessInv, ApiRequest, Login, CreateTenant, CreateKey, RevokeKey, SetTenantStatus,
         DisableOperator
<1>1. \A k \in ApiKeys :
         \/ apiKey[k].state = "none"
         \/ apiKey'[k].limit = apiKey[k].limit /\ apiKey'[k].state # "none"
  <2>1. CASE Login \/ CreateTenant \/ SetTenantStatus \/ DisableOperator
    BY <2>1 DEF Login, CreateTenant, SetTenantStatus, DisableOperator
  <2>2. CASE CreateKey
    <3>1. PICK j \in ApiKeys, n \in KeyLimits : NewKey(j, n)
      BY <2>2, Zenon DEF CreateKey
    <3> QED BY <1>0, <3>1 DEF NewKey
  <2>3. CASE RevokeKey
    <3>1. PICK j \in ApiKeys : Revoked(j)
      BY <2>3, Zenon DEF RevokeKey
    <3> QED BY <1>0, <3>1 DEF Revoked, KeyRow
  <2> QED BY <2>1, <2>2, <2>3
<1>2. \A r \in Requests : /\ request'[r].at = request[r].at /\ request'[r].key = request[r].key
                          /\ request'[r].limit = request[r].limit
  <2>1. CASE Login \/ CreateTenant \/ RevokeKey \/ DisableOperator
    BY <2>1, Zenon DEF Login, CreateTenant, RevokeKey, DisableOperator
  <2>2. CASE CreateKey \/ SetTenantStatus
    <3>1. PICK e : request' = [r \in Requests |-> [request[r] EXCEPT !.entitled = e[r]]]
      <4>1. CASE CreateKey
        <5>1. PICK k \in ApiKeys, n \in KeyLimits :
                request' = [r \in Requests |-> [request[r] EXCEPT !.entitled =
                  @ \/ (request[r].at # "idle" /\ request[r].key = k /\ tenant = "active")]]
          BY <4>1, Zenon DEF CreateKey
        <5> DEFINE e == [r \in Requests |-> \/ request[r].entitled
                                            \/ /\ request[r].at # "idle" /\ request[r].key = k
                                               /\ tenant = "active"]
        <5>2. request' = [r \in Requests |-> [request[r] EXCEPT !.entitled = e[r]]]
          BY <5>1
        <5> HIDE DEF e
        <5> QED BY <5>2, Zenon
      <4>2. CASE SetTenantStatus
        <5>1. request' = [r \in Requests |-> [request[r] EXCEPT !.entitled =
                @ \/ (request[r].at # "idle" /\ tenant' = "active"
                      /\ apiKey[request[r].key].state = "active")]]
          BY <4>2, Zenon DEF SetTenantStatus
        <5> DEFINE e == [r \in Requests |-> \/ request[r].entitled
                                            \/ /\ request[r].at # "idle" /\ tenant' = "active"
                                               /\ apiKey[request[r].key].state = "active"]
        <5>2. request' = [r \in Requests |-> [request[r] EXCEPT !.entitled = e[r]]]
          BY <5>1
        <5> HIDE DEF e
        <5> QED BY <5>2, Zenon
      <4> QED BY <2>2, <4>1, <4>2
    <3> QED BY <1>0, <3>1 DEF ApiRequest
  <2> QED BY <2>1, <2>2
<1>3. BucketsOK' /\ UnusedOK'
    BY <1>0, <1>1, QuietBuckets
<1>4. LimitsOK'
    BY <1>0, <1>1, <1>2 DEF RateInv, LimitsOK
<1>5. operator' \in {"enabled", "disabled"} /\ token' \in 0..TokenTtl
  <2>1. 0 \in 0..TokenTtl
    BY AccessAssumption
  <2> QED
    BY <2>1 DEF RateInv, Login, IssueToken, CreateTenant, CreateKey, RevokeKey, SetTenantStatus,
                DisableOperator
<1> QED BY <1>3, <1>4, <1>5 DEF RateInv

\* The invariant is inductive, beside that of the requests.
LEMMA RateInductive ==
    AccessInv /\ AccessInv' /\ RateInv /\ [AccessNext]_accessVars => RateInv'
<1> SUFFICES ASSUME AccessInv, AccessInv', RateInv, [AccessNext]_accessVars PROVE RateInv'
    OBVIOUS
<1>1. CASE UNCHANGED accessVars
    BY <1>1 DEF accessVars, RateInv, BucketsOK, UnusedOK, LimitsOK, Limit
<1>2. CASE \E r \in Requests : RequestArrives(r) \/ Lookup(r) \/ CheckKey(r) \/ CheckTenant(r)
    BY <1>2, RateRequest
<1> QED BY <1>1, <1>2, RateTick, RateOperator DEF AccessNext

\* The windows of the rate limiter (RateLimiter, rate_limit.py), for any number of gateways,
\* keys, requests and ticks: in a stretch of real time that is a drift shorter than the window
\* no bucket lets through more than its limit, and a client that waits for Retry-After finds
\* room if nobody else took it.
THEOREM RatesHold == AccessSpec => []RatesSound
<1>1. AccessInv /\ RateInv => RatesSound
  <2> SUFFICES ASSUME AccessInv, RateInv PROVE RatesSound
    OBVIOUS
  <2>1. AccessTypeOK
    BY DEF AccessInv, RateInv, BucketsOK, AccessTypeOK
  <2>2. RateBounded
    BY DEF RateInv, BucketsOK, WindowOK, Younger, RateBounded
  <2>3. RetryAfterSuffices
    <3> SUFFICES ASSUME NEW b \in Buckets, NEW o \in Offsets, Refuses(b, Limit(b), o)
                 PROVE  Cardinality({e \in window[b] :
                            e.age + o + Retry_After(b, o) * Second < Window}) < Limit(b)
      BY Zenon DEF RetryAfterSuffices
    <3>1. Limit(b) \in Nat /\ Limit(b) > 0
      BY Limits
    <3>2. WindowOK(passed[b], window[b], Limit(b))
      BY DEF RateInv, BucketsOK
    <3> QED BY <3>1, <3>2, Waited, Zenon
  <2> QED BY <2>1, <2>2, <2>3 DEF RatesSound
<1> QED BY <1>1, AccessInductive, RateInit, RateInductive, PTL DEF AccessSpec

=============================================================================
