----------------------------- MODULE Watermarks -----------------------------
(***************************************************************************)
(* The chain of the audio watermark: payloads that operators allocate to   *)
(* keys and bind to a voice (src/repos/watermark.py and the routes of      *)
(* src/server/admin/router.py), workers that embed the payload of the      *)
(* voice's key in every chunk (src/worker/pipeline.py, WatermarkApplier),  *)
(* and the detection that leads from a clip back to a key.                 *)
(*                                                                         *)
(* There is one voice, whose licence requires the mark or not.  A payload  *)
(* has PayloadBits bits instead of 16; AudioSeal returns what it embedded. *)
(***************************************************************************)
EXTENDS Integers, Sequences, SequencesExt, FiniteSetsExt

CONSTANTS
    PayloadBits,
    Payloads,     \* those that are ever allocated
    MaxKeys,      \* bound: allocations
    MarkOperators,
    MarkWorkers

\* 1 << i
Weight[i \in 0..PayloadBits] == IF i = 0 THEN 1 ELSE 2 * Weight[i - 1]

ASSUME WatermarksAssumption ==
    /\ PayloadBits \in Nat \ {0}
    /\ Payloads \subseteq 0 .. Weight[PayloadBits] - 1
    /\ MaxKeys \in Nat

VARIABLES
    keys,        \* the rows of watermark_keys, in the order of allocated_at
    marked,      \* the voice: watermark_enabled, watermark_key_id, the licence
    edit,        \* the request each operator has in flight
    applier,     \* the AudioSeal generator of each worker process
    speaking,    \* the job of each worker
    clip         \* history: the chunk that was published last

markVars == <<keys, marked, edit, applier, speaking, clip>>

NoPayload == -1
NoKey == 0

WatermarkKey == [message_bits : Payloads, retired : BOOLEAN]
MarkedVoice == [enabled : BOOLEAN, key : 0..MaxKeys, required : BOOLEAN]
Edit == [at : {"idle", "insert", "bind"}, bits : Payloads \cup {NoPayload},
         enables : BOOLEAN, key : 0..MaxKeys]   \* the columns an UPDATE will have
Speaking == [at : {"idle", "key", "probe", "chunks"},
             key : 0..MaxKeys,                   \* of voice_row, if it is enabled
             bits : Payloads \cup {NoPayload},   \* watermark_message_bits
             vintage : 0..MaxKeys]               \* history: allocations when they were read
Clip == [out : BOOLEAN, tensor : [0..PayloadBits - 1 -> {0, 1}] \cup {<<>>},
         key : 0..MaxKeys, vintage : 0..MaxKeys]

MarkTypeOK ==
    /\ keys \in BoundedSeq(WatermarkKey, MaxKeys)
    /\ marked \in MarkedVoice
    /\ edit \in [MarkOperators -> Edit]
    /\ applier \in [MarkWorkers -> {"fresh", "loaded", "broken"}]
    /\ speaking \in [MarkWorkers -> Speaking]
    /\ clip \in Clip

NoEdit == [at |-> "idle", bits |-> NoPayload, enables |-> FALSE, key |-> NoKey]
NotSpeaking == [at |-> "idle", key |-> NoKey, bits |-> NoPayload, vintage |-> 0]

NoClip == [out |-> FALSE, tensor |-> <<>>, key |-> NoKey, vintage |-> 0]

MarkInit ==
    /\ keys = <<>>
    /\ marked \in [enabled : {FALSE}, key : {NoKey}, required : BOOLEAN]
    /\ edit = [o \in MarkOperators |-> NoEdit]
    /\ applier = [w \in MarkWorkers |-> "fresh"]
    /\ speaking = [w \in MarkWorkers |-> NotSpeaking]
    /\ clip = NoClip

-----------------------------------------------------------------------------
(* The rows and the payload.                                               *)

\* get_active.
IsActive(k) == k \in DOMAIN keys /\ ~keys[k].retired

\* get_active_by_bits, not None.
Held(bits) == \E k \in DOMAIN keys : keys[k].message_bits = bits /\ ~keys[k].retired

\* Every allocation that ever carried the payload; their numbers are in the order
\* of allocated_at.
list_by_bits(bits) == {k \in DOMAIN keys : keys[k].message_bits = bits}

\* Least significant bit first.
Embed(bits) == [i \in 0..PayloadBits - 1 |-> (bits \div Weight[i]) % 2]

\* The message after each bit of the tensor.
Decode(tensor) ==
    LET message[i \in 0..PayloadBits] ==
            IF i = 0 THEN 0 ELSE message[i - 1] + tensor[i - 1] * Weight[i - 1]
    IN message[PayloadBits]

\* What an operator learns of a clip: the allocations that ever carried its
\* payload, the newest of them as the match, and whether the voice is bound to
\* one of them now.
admin_detect_watermark(tensor) ==
    LET history == list_by_bits(Decode(tensor)) IN
    [history |-> history,
     match |-> IF history = {} THEN NoKey ELSE Max(history),
     voice |-> marked.key \in history]

-----------------------------------------------------------------------------
(* The operators.                                                          *)

\* allocate looks for an active key with the payload, which the operator gave or
\* a random probe proposed; the probe gives up after 128 candidates.
AllocateCheck(o) ==
    /\ edit[o].at = "idle"
    /\ Len(keys) < MaxKeys
    /\ \E bits \in Payloads :
          /\ ~Held(bits)
          /\ edit' = [edit EXCEPT ![o] = [NoEdit EXCEPT !.at = "insert", !.bits = bits]]
    /\ UNCHANGED <<keys, marked, applier, speaking, clip>>

\* Mutant of Allocate: without the partial unique index.
AllocateBlindly(o) ==
    /\ edit[o].at = "insert"
    /\ keys' = IF Len(keys) = MaxKeys THEN keys
               ELSE Append(keys, [message_bits |-> edit[o].bits, retired |-> FALSE])
    /\ edit' = [edit EXCEPT ![o] = NoEdit]
    /\ UNCHANGED <<marked, applier, speaking, clip>>

\* The INSERT; two racing requests meet in the index on the active payloads, and
\* the second one ends in an IntegrityError.
Allocate(o) ==
    /\ edit[o].at = "insert"
    /\ keys' = IF Held(edit[o].bits) \/ Len(keys) = MaxKeys THEN keys
               ELSE Append(keys, [message_bits |-> edit[o].bits, retired |-> FALSE])
    /\ edit' = [edit EXCEPT ![o] = NoEdit]
    /\ UNCHANGED <<marked, applier, speaking, clip>>

\* The row stays, and so does every voice that is bound to it.
Retire(o) ==
    /\ edit[o].at = "idle"
    /\ \E k \in DOMAIN keys :
          ~keys[k].retired /\ keys' = [keys EXCEPT ![k].retired = TRUE]
    /\ UNCHANGED <<marked, edit, applier, speaking, clip>>

\* admin_enable_voice_watermark, with a key that is active now or without one.
\* The UPDATE will have the columns that differ from the row that is read.
EnableCheck(o) ==
    /\ edit[o].at = "idle"
    /\ \E k \in DOMAIN keys \cup {NoKey} :
          /\ k # NoKey => IsActive(k)
          /\ edit' = [edit EXCEPT ![o] = [NoEdit EXCEPT !.at = "bind",
                          !.enables = ~marked.enabled,
                          !.key = IF k = marked.key THEN NoKey ELSE k]]
    /\ UNCHANGED <<keys, marked, applier, speaking, clip>>

Enable(o) ==
    LET e == edit[o] IN
    /\ e.at = "bind"
    /\ marked' = [marked EXCEPT
           !.enabled = @ \/ e.enables,
           !.key = IF e.key = NoKey THEN @ ELSE e.key]
    /\ edit' = [edit EXCEPT ![o] = NoEdit]
    /\ UNCHANGED <<keys, applier, speaking, clip>>

\* admin_disable_voice_watermark is refused where the licence requires the mark.
Disable(o) ==
    /\ edit[o].at = "idle"
    /\ ~marked.required
    /\ marked' = [marked EXCEPT !.enabled = FALSE]
    /\ UNCHANGED <<keys, edit, applier, speaking, clip>>

-----------------------------------------------------------------------------
(* The worker.                                                             *)

\* A job, also one that is delivered again: the row of the voice ...
ReadVoice(w) ==
    /\ speaking[w].at = "idle"
    /\ speaking' = [speaking EXCEPT ![w] = [NotSpeaking EXCEPT !.at = "key",
                       !.key = IF marked.enabled THEN marked.key ELSE NoKey]]
    /\ UNCHANGED <<keys, marked, edit, applier, clip>>

\* ... and, if it asks for a mark, the payload of its key if that is active.
ReadKey(w) ==
    LET k == speaking[w].key IN
    /\ speaking[w].at = "key"
    /\ speaking' = [speaking EXCEPT ![w].at = "probe", ![w].vintage = Len(keys),
           ![w].bits = IF IsActive(k) THEN keys[k].message_bits ELSE NoPayload]
    /\ UNCHANGED <<keys, marked, edit, applier, clip>>

\* WatermarkApplier._load: the first call settles it for the process.
_load(w) ==
    applier' \in {[applier EXCEPT ![w] = a] :
                     a \in IF applier[w] = "fresh" THEN {"loaded", "broken"} ELSE {applier[w]}}

\* A job that raises, terminally or to be retried, leaves the worker idle.
GivesUp(w) == speaking' = [speaking EXCEPT ![w] = NotSpeaking]

\* Mutant of Probe: is_available(), which is true of a model nobody has tried.
ProbeAvailable(w) ==
    /\ speaking[w].at = "probe"
    /\ \/ /\ marked.required
          /\ \/ speaking[w].bits = NoPayload /\ GivesUp(w)
             \/ /\ speaking[w].bits # NoPayload
                /\ IF applier[w] = "broken" THEN GivesUp(w)
                   ELSE speaking' = [speaking EXCEPT ![w].at = "chunks"]
       \/ /\ ~marked.required
          /\ speaking' = [speaking EXCEPT ![w].at = "chunks"]
    /\ UNCHANGED <<keys, marked, edit, applier, clip>>

\* A licence that requires the mark: a terminal failure without a payload, a
\* retry (on another worker, perhaps) without the model.
Probe(w) ==
    /\ speaking[w].at = "probe"
    /\ \/ /\ marked.required /\ speaking[w].bits = NoPayload
          /\ GivesUp(w)
          /\ UNCHANGED applier
       \/ /\ marked.required /\ speaking[w].bits # NoPayload
          /\ _load(w)
          /\ IF applier'[w] = "broken" THEN GivesUp(w)
             ELSE speaking' = [speaking EXCEPT ![w].at = "chunks"]
       \/ /\ ~marked.required
          /\ speaking' = [speaking EXCEPT ![w].at = "chunks"]
          /\ UNCHANGED applier
    /\ UNCHANGED <<keys, marked, edit, clip>>

Publish(w, tensor) ==
    clip' = [out |-> TRUE, tensor |-> tensor,
             key |-> speaking[w].key, vintage |-> speaking[w].vintage]

\* A chunk: marked, as it was where there is no payload or no model, or not at
\* all when embedding raises, which is a retry.
Speak(w) ==
    /\ speaking[w].at = "chunks"
    /\ IF speaking[w].bits = NoPayload \/ applier[w] = "broken"
       THEN Publish(w, <<>>) /\ UNCHANGED <<applier, speaking>>
       ELSE /\ _load(w)
            /\ \/ /\ Publish(w, IF applier'[w] = "broken" THEN <<>>
                                ELSE Embed(speaking[w].bits))
                  /\ UNCHANGED speaking
               \/ applier'[w] = "loaded" /\ GivesUp(w) /\ UNCHANGED clip
    /\ UNCHANGED <<keys, marked, edit>>

\* The last chunk was published.
SpokenAll(w) ==
    /\ speaking[w].at = "chunks"
    /\ GivesUp(w)
    /\ UNCHANGED <<keys, marked, edit, applier, clip>>

\* The process restarts.
WorkerRestarts(w) ==
    /\ applier' = [applier EXCEPT ![w] = "fresh"]
    /\ GivesUp(w)
    /\ UNCHANGED <<keys, marked, edit, clip>>

-----------------------------------------------------------------------------

MarkNext ==
    \/ \E o \in MarkOperators : AllocateCheck(o) \/ Allocate(o) \/ Retire(o)
                                \/ EnableCheck(o) \/ Enable(o) \/ Disable(o)
    \/ \E w \in MarkWorkers : ReadVoice(w) \/ ReadKey(w) \/ Probe(w) \/ Speak(w)
                              \/ SpokenAll(w) \/ WorkerRestarts(w)

MarkSpec == MarkInit /\ [][MarkNext]_markVars

-----------------------------------------------------------------------------
(* Properties.                                                             *)

\* "Legally watermarked": no chunk of a voice whose licence requires the mark
\* goes out without one, whatever operators do to the voice and its key during
\* the job, and whichever worker process has no model.
RequiredIsMarked == marked.required /\ clip.out => clip.tensor # <<>>

\* The history that is detected in a clip holds the key the voice had, though it
\* was retired and its payload given to others since; and of the allocations that
\* existed when the job read the payload it is the newest: the clip's vintage
\* tells which one is meant.  The match itself is right as long as the payload
\* was not allocated anew, and the voice is named while it keeps the key.
ClipsAreTraceable ==
    clip.tensor # <<>> =>
        LET found == admin_detect_watermark(clip.tensor)
            vintage == {k \in found.history : k <= clip.vintage}
        IN /\ vintage # {} /\ Max(vintage) = clip.key
           /\ vintage = found.history => found.match = clip.key
           /\ marked.key = clip.key => found.voice

\* Payloads, keys and clips, in every state: a mark leads back to its key.
MarksSound == MarkTypeOK /\ ClipsAreTraceable
=============================================================================
