----------------------------- MODULE MCGateway -----------------------------
(***************************************************************************)
(* What a gateway does with a request: the idempotency row and the job     *)
(* (Admission), the text of a WebSocket (StreamInput), the body of the     *)
(* answer (Delivery), and what the worker makes of the text                *)
(* (TextFrontend) and of the settings and the audio (Tuning).  Each keeps  *)
(* state of its own, so a behaviour follows one of them (part) while the   *)
(* others stay in their initial states.                                    *)
(***************************************************************************)
EXTENDS Admission, StreamInput, Delivery, TextFrontend, Tuning

VARIABLE part

gatewayVars ==
    <<admissionVars, streamVars, deliveryVars, frontendVars, tuningVars, part>>

CONSTANTS c1, c2, c3

\* c3 sends another body, to the other endpoint.
Mixed == [c \in Callers |-> IF c = c3 THEN "jobs" ELSE "sync"]
Bodies == [c \in Callers |-> IF c = c3 THEN "b2" ELSE "b1"]

\* Every text of one or two characters, and longer ones that meet the ceiling
\* with and without a blank or a stop, one of them above the limit of the buffer.
SomeTexts ==
    LET a == "letter"
        b == "blank"
        s == "stop"
    IN {<<x>> : x \in Char} \cup {<<x, y>> : x, y \in Char}
       \cup {<<a, a, a, a, a, a>>, <<a, a, b, a, a, a>>, <<a, s, b, a, s, a, a>>,
             <<b, a, a, a, a, a>>, <<a, s, a, a, b, a>>, [i \in 1..16 |-> a]}

\* Texts to be segmented: up to three sentences with abbreviations, and texts without
\* sentences, up to two characters longer than the longest segment.
SomeSpokenTexts ==
    BoundedSeq({"upper", "stop", "abbr", "blank"}, MaxSegment)
    \cup BoundedSeq({"letter", "upper", "stop", "abbr", "blank"}, MaxSegment - 1)
    \cup BoundedSeq({"letter", "blank", "newline"}, MaxSegment - 1)
    \cup {<<"letter">> \o s \o <<"letter">> :
             s \in BoundedSeq({"letter", "comma", "blank"}, MaxSegment)}

\* Every number up to a little over three hundred, numbers on both sides of each
\* scale, the largest one TLC has, and decimals with zeros at either end.
SomeNumbers ==
    [negative : BOOLEAN, decimals : {<<>>},
     whole : 0..320 \cup 990..1020 \cup
         {1099, 1100, 1101, 1999, 2000, 2001, 10000, 100100, 999999, 1000000, 1000001,
          2001000, 1000000000, 2147483647}]
    \cup [negative : BOOLEAN, decimals : {<<0>>, <<5>>, <<0, 7>>, <<1, 0>>},
          whole : {0, 7, 1000}]

\* Dictionaries with some of the keys.
Dicts(keys, values) == UNION {[ks -> values] : ks \in SUBSET keys}
Knobs == {"stability", "similarity_boost"}

\* Every preset under settings at and inside both ends, with explicit parameters at an
\* end; and up to three chunks with offsets, peaks and the lowest sample, at the speeds
\* of both ends, the neutral one and none.
SomeOrders ==
    [model : models \cup {"unset"}, defaults : Dicts(Knobs, {0, 10}),
     settings : Dicts(Knobs, {0, 3, 5, 10}),
     params : {<<>>, "cfg_value" :> 35, "inference_timesteps" :> 4}, chunks : {<<>>}]
    \cup
    {[NoOrder EXCEPT !.chunks = cs, !.settings = vs] :
        vs \in {<<>>} \cup {"speed" :> x : x \in {7, 10, 12}},
        cs \in {<<a, b, c>> : a \in BoundedSeq({-4, 0, 2, 3}, 3) \cup {<<-4, -3, 3, 1, 3>>},
                            b \in {<<>>, <<3>>, <<3, 3>>, <<-4, 3, 2>>, <<2, -4, 2>>},
                            c \in {<<>>, <<0, 0>>}}}

GatewayInit ==
    /\ part \in {"admission", "stream", "delivery", "text", "tuning"}
    /\ AdmissionInit
    /\ StreamInit
    /\ DeliveryInit
    /\ part # "delivery" => route = "sync" /\ format = "wav"
    /\ FrontendInit
    /\ TuningInit

AdmissionOnly(A) ==
    part = "admission" /\ A /\ UNCHANGED <<streamVars, deliveryVars, frontendVars, tuningVars, part>>
StreamOnly(A) ==
    part = "stream" /\ A /\ UNCHANGED <<admissionVars, deliveryVars, frontendVars, tuningVars, part>>
DeliveryOnly(A) ==
    part = "delivery" /\ A /\ UNCHANGED <<admissionVars, streamVars, frontendVars, tuningVars, part>>
TextOnly(A) ==
    part = "text" /\ A /\ UNCHANGED <<admissionVars, streamVars, deliveryVars, tuningVars, part>>
TuningOnly(A) ==
    part = "tuning" /\ A
    /\ UNCHANGED <<admissionVars, streamVars, deliveryVars, frontendVars, part>>

GatewayNext ==
    \/ AdmissionOnly(AdmissionNext)
    \/ StreamOnly(StreamNext)
    \/ DeliveryOnly(DeliveryNext)
    \/ TextOnly(Prepare)
    \/ TuningOnly(TuningNext)

\* The fairness of the parts.
GatewaySpec ==
    /\ GatewayInit
    /\ [][GatewayNext]_gatewayVars
    /\ \A c \in Callers : SF_gatewayVars(AdmissionOnly(HandlerStep(c)))
    /\ WF_gatewayVars(StreamOnly(StreamHandler))
    /\ WF_gatewayVars(DeliveryOnly(Deliver))
    /\ WF_gatewayVars(DeliveryOnly(Ffmpeg))
    /\ WF_gatewayVars(DeliveryOnly(_read_stdout))
=============================================================================
