------------------------------- MODULE Tuning -------------------------------
(***************************************************************************)
(* How a job is spoken: the knobs of the engine out of the preset, the     *)
(* voice's defaults and the request (src/server/models.py and              *)
(* process_one_job, src/worker/pipeline.py), and what becomes of each      *)
(* chunk of PCM (src/audio/postprocess.py) and of the times of its         *)
(* sentence.                                                               *)
(*                                                                         *)
(* Settings and cfg values are in tenths.  A sample is an integer, the     *)
(* audio of a job the sequence of its samples; floating-point numbers are  *)
(* taken as exact.                                                         *)
(***************************************************************************)
EXTENDS Integers, Sequences, SequencesExt, FiniteSetsExt

CONSTANTS
    Orders,      \* jobs: model, settings of the voice and the request, chunks of the engine
    FullScale,   \* the largest sample; the lowest one is one below its negative
    Ceiling,     \* apply_peak_limit's
    SampleRate   \* samples in a second

ASSUME TuningAssumption ==
    /\ FullScale \in Nat
    /\ Ceiling \in 0..FullScale
    /\ SampleRate \in Nat \ {0}

VARIABLES
    order,      \* the job
    knobs,      \* engine_overrides
    pcm,        \* pcm_buffer
    alignment   \* start_ms and end_ms of each chunk

tuningVars == <<order, knobs, pcm, alignment>>

Sample == (-FullScale - 1)..FullScale
NoKnobs == [cfg_value |-> 0, inference_timesteps |-> 0]
NoOrder == [model |-> "unset", defaults |-> <<>>, settings |-> <<>>, params |-> <<>>,
            chunks |-> <<>>]

TuningInit ==
    /\ order = NoOrder
    /\ knobs = NoKnobs
    /\ pcm = <<>>
    /\ alignment = <<>>

-----------------------------------------------------------------------------
(* The knobs.  A dictionary is a function from the keys it has.            *)

Preset(cfg, steps) == [cfg_value |-> cfg, inference_timesteps |-> steps]

models == {"voxcpm2-tr-turbo", "voxcpm2-tr-hd", "voxcpm2-tr-character",
           "voxcpm2-fast", "voxcpm2-standard", "voxcpm2-studio"}

_BY_ID == [id \in models |->
    CASE id = "voxcpm2-tr-turbo" -> Preset(15, 8)
      [] id = "voxcpm2-tr-hd" -> Preset(20, 16)
      [] id = "voxcpm2-tr-character" -> Preset(25, 24)
      [] id = "voxcpm2-fast" -> Preset(20, 7)
      [] id = "voxcpm2-standard" -> Preset(20, 10)
      [] id = "voxcpm2-studio" -> Preset(25, 16)]

DEFAULT_MODEL_ID == "voxcpm2-tr-hd"

has(dict, key) == key \in DOMAIN dict

IsDict(dict, keys) == DOMAIN dict \subseteq keys /\ dict \in [DOMAIN dict -> Int]

\* What passed VoiceSettings and TTSJobParams (src/server/schemas.py): of the settings
\* only that a speed is above zero matters here, of the parameters their envelope.
ASSUME OrdersAssumption == \A o \in Orders :
    /\ o.model \in models \cup {"unset"}
    /\ \A vs \in {o.defaults, o.settings} :
          /\ IsDict(vs, {"stability", "similarity_boost", "speed"})
          /\ has(vs, "speed") => vs["speed"] > 0
    /\ IsDict(o.params, {"cfg_value", "inference_timesteps"})
    /\ has(o.params, "cfg_value") => o.params["cfg_value"] \in 10..35
    /\ has(o.params, "inference_timesteps") => o.params["inference_timesteps"] \in 4..40
    /\ o.chunks \in Seq(Seq(Sample))

\* An id that is not there ends the job before this point.
resolve_model(id) == _BY_ID[IF id = "unset" THEN DEFAULT_MODEL_ID ELSE id]

\* {**defaults, **settings}: the request wins, field by field.
layered(defaults, settings) ==
    [k \in DOMAIN defaults \cup DOMAIN settings |->
        IF has(settings, k) THEN settings[k] ELSE defaults[k]]

clamp(x, lo, hi) == Max({lo, Min({x, hi})})

\* Mutant of tuned: the envelope of the number of steps is left to the request's schema.
tuned_unclamped(preset, vs) ==
    [cfg_value |-> clamp(preset.cfg_value + (IF has(vs, "similarity_boost")
                             THEN vs["similarity_boost"] - 5 ELSE 0), 10, 35),
     inference_timesteps |-> IF has(vs, "stability")
         THEN (10 * preset.inference_timesteps + 16 * (vs["stability"] - 5)) \div 10
         ELSE preset.inference_timesteps]

\* The offsets of similarity_boost and stability, clamped.  (int() rounds towards
\* zero, \div down: they differ below zero, and the clamp is above.)
tuned(preset, vs) ==
    [cfg_value |-> clamp(preset.cfg_value + (IF has(vs, "similarity_boost")
                             THEN vs["similarity_boost"] - 5 ELSE 0), 10, 35),
     inference_timesteps |-> clamp(IF has(vs, "stability")
         THEN (10 * preset.inference_timesteps + 16 * (vs["stability"] - 5)) \div 10
         ELSE preset.inference_timesteps, 4, 40)]

\* Explicit parameters win.
engine_overrides(o) ==
    layered(tuned(resolve_model(o.model), layered(o.defaults, o.settings)), o.params)

\* A job comes.
Tune ==
    /\ knobs = NoKnobs
    /\ \E o \in Orders : order' = o /\ knobs' = engine_overrides(o)
    /\ UNCHANGED <<pcm, alignment>>

-----------------------------------------------------------------------------
(* A chunk of PCM.                                                         *)

\* a / b towards zero (astype(int16)), and to the nearest, halves to even (round).
trunc(a, b) == IF a >= 0 THEN a \div b ELSE -((-a) \div b)
round(a, b) ==
    LET q == a \div b
        twice == 2 * (a % b)
    IN  IF twice < b \/ (twice = b /\ q % 2 = 0) THEN q ELSE q + 1

absolute(x) == IF x < 0 THEN -x ELSE x
sum(s) ==
    LET upto[i \in 0..Len(s)] == IF i = 0 THEN 0 ELSE upto[i - 1] + s[i] IN upto[Len(s)]

apply_dc_offset_removal(s) ==
    LET n == Len(s) IN
    IF 2 * absolute(sum(s)) < n THEN s   \* less than half a step
    ELSE [i \in 1..n |-> clamp(trunc(n * s[i] - sum(s), n), -FullScale - 1, FullScale)]

\* numpy's abs of the lowest int16 is that number itself.
np_abs(x) == IF x = -FullScale - 1 THEN x ELSE absolute(x)

apply_peak_limit(s) ==
    IF \A i \in DOMAIN s : np_abs(s[i]) <= Ceiling THEN s
    ELSE [i \in DOMAIN s |-> clamp(s[i], -Ceiling, Ceiling)]

\* Linear interpolation at evenly spaced points, the first and the last included.
resampled(s, len) ==
    LET den == Max({1, len - 1})
        at(k) == (k - 1) * (Len(s) - 1)
        value(k) == LET i == at(k) \div den
                        f == at(k) % den
                    IN  s[i + 1] * (den - f) + (IF f = 0 THEN 0 ELSE s[i + 2] * f)
    IN  [k \in 1..len |-> trunc(value(k), den)]

apply_speed(s, speed) ==
    IF speed = 10 \/ s = <<>> THEN s ELSE resampled(s, Max({1, round(10 * Len(s), speed)}))

\* Mutant of apply_voice_settings: the peaks are limited before the offset is removed.
limited_first(s, vs) ==
    LET level == apply_dc_offset_removal(apply_peak_limit(s)) IN
    IF s = <<>> THEN s ELSE IF has(vs, "speed") THEN apply_speed(level, vs["speed"]) ELSE level

apply_voice_settings(s, vs) ==
    LET level == apply_peak_limit(apply_dc_offset_removal(s)) IN
    IF s = <<>> THEN s ELSE IF has(vs, "speed") THEN apply_speed(level, vs["speed"]) ELSE level

ms(samples) == (samples * 1000) \div SampleRate

\* The time of a sentence is that of the samples so far.
Aligned(out) ==
    alignment' = Append(alignment, [start_ms |-> ms(Len(pcm)),
                                    end_ms |-> ms(Len(pcm) + Len(out))])

\* The next chunk of the engine.
SpeakChunk ==
    /\ knobs # NoKnobs
    /\ Len(alignment) < Len(order.chunks)
    /\ LET out == apply_voice_settings(order.chunks[Len(alignment) + 1],
                                       layered(order.defaults, order.settings))
       IN  pcm' = pcm \o out /\ Aligned(out)
    /\ UNCHANGED <<order, knobs>>

TuningNext == Tune \/ SpeakChunk

TuningSpec == TuningInit /\ [][TuningNext]_tuningVars

-----------------------------------------------------------------------------
(* Properties.                                                             *)

TuningTypeOK ==
    /\ pcm \in Seq(Sample)
    /\ alignment \in Seq([start_ms : Nat, end_ms : Nat])
    /\ Len(alignment) <= Len(order.chunks)

\* "Clamp to engine-safe envelopes": whatever a preset, the defaults of a voice and
\* a request ask for together, the engine gets values it can use; and settings of
\* one half, on top of any defaults, are the preset.
KnobsSafe ==
    knobs # NoKnobs =>
        /\ knobs.cfg_value \in 10..35
        /\ knobs.inference_timesteps \in 4..40
        /\ \A k \in DOMAIN order.settings \ {"speed"} : order.settings[k] = 5 =>
               LET knob == IF k = "stability" THEN "inference_timesteps" ELSE "cfg_value"
               IN  has(order.params, knob) \/ knobs[knob] = resolve_model(order.model)[knob]

\* Neither the removal of an offset nor a change of speed brings back what the
\* limiter took away: what is published is below its ceiling, except for the one
\* sample the limiter is blind to, the lowest of all.
NeverSaturates ==
    \A i \in DOMAIN pcm : absolute(pcm[i]) > Ceiling =>
        /\ pcm[i] < 0
        /\ \E c \in ToSet(order.chunks) : -FullScale - 1 \in ToSet(apply_dc_offset_removal(c))

\* The times that go with the sentences cover the audio: each begins where the one
\* before ends, and the last one ends with the duration that is billed.
AlignmentCoversAudio ==
    /\ \A i \in DOMAIN alignment :
          alignment[i].start_ms = IF i = 1 THEN 0 ELSE alignment[i - 1].end_ms
    /\ alignment # <<>> => Last(alignment).end_ms = ms(Len(pcm))

\* The audio of a job and its times, in every state: peaks stay limited through the
\* chain of filters, and the times cover what is published.
AudioSound == TuningTypeOK /\ NeverSaturates /\ AlignmentCoversAudio
=============================================================================
