------------------------------ MODULE Delivery ------------------------------
(***************************************************************************)
(* The body of a synthesis response: POST /v1/tts and POST /v1/tts/stream  *)
(* (src/server/main.py) turn the chunks of the result stream into WAV, raw *)
(* PCM or, through an ffmpeg process per request (src/audio/encoders.py),  *)
(* into mp3 or opus, and record the time of the first byte.                *)
(*                                                                         *)
(* ffmpeg is external: it encodes what it is given in order and, at the    *)
(* end of its input, writes a trailer and exits, all within the five       *)
(* seconds close() grants it, unless it dies or gets stuck at the end.     *)
(***************************************************************************)
EXTENDS Integers, Sequences

CONSTANT Chunks   \* sentences of the text

ASSUME DeliveryAssumption == Chunks \in Nat

VARIABLES
    route,    \* "sync" or "stream", and
    format,   \* "wav", "pcm16" or "ffmpeg" (mp3, opus)
    at,       \* what the handler does
    stream,   \* entries of the result stream that were not read
    made,     \* chunks the worker has published; usageRow: and committed
    usageRow,
    ended,    \* how reading ended
    hand,     \* the PCM in hand
    ffmpeg,   \* the encoder: the process and its pipes
    body,     \* what the client was sent; of /v1/tts, what was encoded
    left,     \* has the client left?
    stitch    \* what became of gateway_first_byte_ms

deliveryVars ==
    <<route, format, at, stream, made, usageRow, ended, hand, ffmpeg, body, left, stitch>>

\* Chunks are numbered; the header and the trailer of a container come before and
\* after them, the markers of the result stream are negative.
Header == 0
Trailer == Chunks + 1
Final == -1
Failed == -2
Item == Header..Trailer
Encoder == [proc : {"none", "running", "gone"},
            fate : {"well", "dead", "stuck"},   \* what befell the process
            stdin : Seq(Item), eof : BOOLEAN,
            pipe : Seq(Item),                    \* stdout
            buffer : Seq(Item),                  \* _out_buffer
            reader : {"off", "on"},              \* _reader_task
            closed : BOOLEAN]

DeliveryTypeOK ==
    /\ route \in {"sync", "stream"}
    /\ format \in {"wav", "pcm16", "ffmpeg"}
    /\ at \in {"start", "read", "write", "drain", "close", "wait", "join", "stitch", "over"}
    /\ stream \in Seq(Item \cup {Final, Failed})
    /\ made \in 0..Chunks
    /\ usageRow \in BOOLEAN
    /\ ended \in {"no", "final", "error", "timeout"}
    /\ hand \in Seq(Item)
    /\ ffmpeg \in Encoder
    /\ body \in Seq(Item)
    /\ left \in BOOLEAN
    /\ stitch \in {"none", "done", "missed", "lost"}

NoEncoder == [proc |-> "none", fate |-> "well", stdin |-> <<>>, eof |-> FALSE, pipe |-> <<>>,
              buffer |-> <<>>, reader |-> "off", closed |-> FALSE]

\* The streaming route starts its encoder first, the other one has the PCM first.
DeliveryInit ==
    /\ route \in {"sync", "stream"}
    /\ format \in {"wav", "pcm16", "ffmpeg"}
    /\ at = IF route = "stream" THEN "start" ELSE "read"
    /\ stream = <<>>
    /\ made = 0
    /\ usageRow = FALSE
    /\ ended = "no"
    /\ hand = <<>>
    /\ ffmpeg = NoEncoder
    /\ body = <<>>
    /\ left = FALSE
    /\ stitch = "none"

-----------------------------------------------------------------------------
(* The worker, as far as the gateway sees it.                              *)

workerVars == <<stream, made, usageRow>>

Published == {stream[i] : i \in DOMAIN stream}

\* No marker has gone out.
Publishing == ended \notin {"final", "error"} /\ {Final, Failed} \cap Published = {}

PublishChunk ==
    /\ Publishing
    /\ made < Chunks /\ ~usageRow
    /\ made' = made + 1
    /\ stream' = Append(stream, made')
    /\ UNCHANGED usageRow

\* The transaction with the usage record, and only then the final marker; a job
\* that fails for good has its error published first.
CommitUsage ==
    /\ ~usageRow
    /\ IF Publishing THEN made = Chunks ELSE Failed \in Published \/ ended = "error"
    /\ usageRow' = TRUE
    /\ UNCHANGED <<stream, made>>

PublishFinal ==
    /\ usageRow /\ Publishing
    /\ stream' = Append(stream, Final)
    /\ UNCHANGED <<made, usageRow>>

\* The job fails for good.
PublishError ==
    /\ ~usageRow /\ Publishing
    /\ stream' = Append(stream, Failed)
    /\ UNCHANGED <<made, usageRow>>

WorkerPublishes ==
    /\ PublishChunk \/ CommitUsage \/ PublishFinal \/ PublishError
    /\ UNCHANGED <<route, format, at, ended, hand, ffmpeg, body, left, stitch>>

-----------------------------------------------------------------------------
(* ffmpeg and the reader task.                                             *)

\* A piece of its input is encoded.
Encodes ==
    /\ ffmpeg.proc = "running" /\ ffmpeg.stdin # <<>>
    /\ ffmpeg' = [ffmpeg EXCEPT !.stdin = Tail(@), !.pipe = Append(@, Head(ffmpeg.stdin))]

Exits ==
    /\ ffmpeg.proc = "running" /\ ffmpeg.fate = "well"
    /\ ffmpeg.stdin = <<>> /\ ffmpeg.eof
    /\ ffmpeg' = [ffmpeg EXCEPT !.proc = "gone", !.pipe = Append(@, Trailer)]

Ffmpeg ==
    /\ Encodes \/ Exits
    /\ UNCHANGED <<route, format, at, workerVars, ended, hand, body, left, stitch>>

FfmpegFails ==
    /\ ffmpeg.proc = "running" /\ ffmpeg.fate = "well"
    /\ \/ ffmpeg' = [ffmpeg EXCEPT !.proc = "gone", !.fate = "dead", !.stdin = <<>>]
       \/ ffmpeg' = [ffmpeg EXCEPT !.fate = "stuck"]
    /\ UNCHANGED <<route, format, at, workerVars, ended, hand, body, left, stitch>>

\* _read_stdout: what is in the pipe goes to the buffer; at its end the task does.
_read_stdout ==
    /\ ffmpeg.reader = "on"
    /\ \/ /\ ffmpeg.pipe # <<>>
          /\ ffmpeg' = [ffmpeg EXCEPT !.buffer = @ \o ffmpeg.pipe, !.pipe = <<>>]
       \/ /\ ffmpeg.pipe = <<>> /\ ffmpeg.proc = "gone"
          /\ ffmpeg' = [ffmpeg EXCEPT !.reader = "off"]
    /\ UNCHANGED <<route, format, at, workerVars, ended, hand, body, left, stitch>>

-----------------------------------------------------------------------------
(* The handler.                                                            *)

Plain == format # "ffmpeg"

\* The streaming route records the first byte when its body is over.
Over == IF route = "stream" THEN "stitch" ELSE "over"

\* /v1/tts makes a WAV of the PCM it has when it cannot encode.
FallBackToWav ==
    /\ at' = "over"
    /\ body' = <<Header>> \o hand
    /\ hand' = <<>>

\* get_stream_encoder and start().  Without ffmpeg the streaming route sends the
\* PCM as it is.
Start ==
    /\ at = "start"
    /\ \/ /\ Plain
          /\ at' = "read"
          /\ body' = IF format = "wav" THEN <<Header>> ELSE <<>>
          /\ UNCHANGED <<format, hand, ffmpeg>>
       \/ /\ ~Plain
          /\ ffmpeg' = [ffmpeg EXCEPT !.proc = "running", !.reader = "on"]
          /\ at' = IF route = "stream" THEN "read" ELSE "write"
          /\ UNCHANGED <<format, hand, body>>
       \/ /\ ~Plain /\ route = "stream"
          /\ format' = "pcm16"
          /\ at' = "read"
          /\ UNCHANGED <<hand, ffmpeg, body>>
       \/ /\ ~Plain /\ route = "sync"
          /\ FallBackToWav
          /\ UNCHANGED <<format, ffmpeg>>
    /\ UNCHANGED <<route, workerVars, ended, left, stitch>>

\* A chunk: streamed as it is, to be encoded, or kept until all are there.
TakeChunk(c) ==
    /\ UNCHANGED ended
    /\ IF route = "sync" THEN hand' = Append(hand, c) /\ UNCHANGED <<at, body>>
       ELSE IF Plain THEN body' = Append(body, c) /\ UNCHANGED <<at, hand>>
       ELSE hand' = <<c>> /\ at' = "write" /\ UNCHANGED body

\* The end, the worker's error, or the deadline.  /v1/tts answers 502 or 504 to
\* the last two; a streamed body just ends.
StopReading(how) ==
    /\ ended' = how
    /\ IF route = "stream" THEN at' = (IF Plain THEN Over ELSE "close") /\ UNCHANGED <<hand, body>>
       ELSE IF how # "final" THEN at' = "over" /\ UNCHANGED <<hand, body>>
       ELSE IF ~Plain THEN at' = "start" /\ UNCHANGED <<hand, body>>
       ELSE /\ at' = "over"
            /\ hand' = <<>>
            /\ body' = (IF format = "wav" THEN <<Header>> ELSE <<>>) \o hand

Read ==
    /\ at = "read"
    /\ \/ /\ stream # <<>>
          /\ stream' = Tail(stream)
          /\ \/ Head(stream) = Final /\ StopReading("final")
             \/ Head(stream) = Failed /\ StopReading("error")
             \/ Head(stream) > 0 /\ TakeChunk(Head(stream))
       \/ StopReading("timeout") /\ UNCHANGED stream
    /\ UNCHANGED <<route, format, made, usageRow, ffmpeg, left, stitch>>

\* encode_chunk: into stdin.  A broken pipe is an EncoderError, which a write
\* need not meet at once.
Write ==
    /\ at = "write"
    /\ \/ /\ ffmpeg' = [ffmpeg EXCEPT !.stdin = IF ffmpeg.proc = "running" THEN @ \o hand ELSE @]
          /\ hand' = <<>>
          /\ at' = "drain"
          /\ UNCHANGED body
       \/ /\ ffmpeg.proc = "gone"
          /\ IF route = "sync" THEN FallBackToWav
             ELSE at' = "close" /\ hand' = <<>> /\ UNCHANGED body
          /\ UNCHANGED ffmpeg
    /\ UNCHANGED <<route, format, workerVars, ended, left, stitch>>

_drain ==
    /\ body' = body \o ffmpeg.buffer
    /\ ffmpeg' = [ffmpeg EXCEPT !.buffer = <<>>]

\* What was encoded meanwhile goes out.
Drain ==
    /\ at = "drain"
    /\ _drain
    /\ at' = IF route = "stream" THEN "read" ELSE "close"
    /\ UNCHANGED <<route, format, workerVars, ended, hand, left, stitch>>

\* close(): the end of stdin, ...
Close ==
    /\ at = "close"
    /\ ffmpeg' = [ffmpeg EXCEPT !.eof = TRUE, !.closed = TRUE]
    /\ at' = "wait"
    /\ UNCHANGED <<route, format, workerVars, ended, hand, body, left, stitch>>

\* Mutant of Wait: no deadline.
WaitForEver ==
    /\ at = "wait"
    /\ ffmpeg.proc = "gone"
    /\ at' = "join"
    /\ UNCHANGED <<route, format, workerVars, ended, hand, ffmpeg, body, left, stitch>>

\* ... the end of the process, which is killed when it takes too long, ...
Wait ==
    /\ at = "wait"
    /\ ffmpeg.proc = "gone" \/ ffmpeg.fate = "stuck"
    /\ ffmpeg' = [ffmpeg EXCEPT !.proc = "gone"]
    /\ at' = "join"
    /\ UNCHANGED <<route, format, workerVars, ended, hand, body, left, stitch>>

\* The tail is sent, unless close() was called by the finally of the generator.
SendTail == IF left \/ ended = "no" THEN UNCHANGED <<body, ffmpeg>> ELSE _drain

\* Mutant of Join: the reader is not waited for.
JoinAtOnce ==
    /\ at = "join"
    /\ SendTail
    /\ at' = Over
    /\ UNCHANGED <<route, format, workerVars, ended, hand, left, stitch>>

\* ... and that of the reader; what is left is the tail.
Join ==
    /\ at = "join"
    /\ ffmpeg.reader = "off"
    /\ SendTail
    /\ at' = Over
    /\ UNCHANGED <<route, format, workerVars, ended, hand, left, stitch>>

\* The finally of _yield_encoded closes an encoder that is not closed yet.  Run
\* by a task that is cancelled it gets as far as the end of stdin, run by the
\* event loop for a generator that was dropped it completes.
CleanUp ==
    IF ffmpeg.proc = "none" \/ ffmpeg.closed THEN at' = "stitch" /\ UNCHANGED ffmpeg
    ELSE /\ ffmpeg' = [ffmpeg EXCEPT !.eof = TRUE, !.closed = TRUE]
         /\ at' \in {"stitch", "wait"}

\* The client of the streaming route leaves.
ClientLeaves ==
    /\ route = "stream" /\ ~left
    /\ at \notin {"stitch", "over"}
    /\ left' = TRUE
    /\ hand' = <<>>
    /\ ended' = IF ended = "no" THEN "timeout" ELSE ended
    /\ CleanUp
    /\ UNCHANGED <<route, format, workerVars, body, stitch>>

\* update_gateway_first_byte_ms: the number of rows it finds.
UpdateUsage == IF usageRow THEN 1 ELSE 0

\* The finally of _instrumented: if a byte went out, the usage row is updated,
\* if there is one; a cancelled task may not get to it.
Stitch ==
    /\ at = "stitch"
    /\ at' = "over"
    /\ stitch' \in IF body = <<>> THEN {"none"}
                   ELSE {IF UpdateUsage = 1 THEN "done" ELSE "missed"} \cup (IF left THEN {"lost"} ELSE {})
    /\ UNCHANGED <<route, format, workerVars, ended, hand, ffmpeg, body, left>>

-----------------------------------------------------------------------------

Deliver == Start \/ Read \/ Write \/ Drain \/ Close \/ Wait \/ Join \/ Stitch

DeliveryNext ==
    WorkerPublishes \/ Ffmpeg \/ FfmpegFails \/ _read_stdout \/ Deliver \/ ClientLeaves

DeliverySpec ==
    /\ DeliveryInit
    /\ [][DeliveryNext]_deliveryVars
    /\ WF_deliveryVars(Deliver)
    /\ WF_deliveryVars(Ffmpeg)
    /\ WF_deliveryVars(_read_stdout)

-----------------------------------------------------------------------------
(* Properties.                                                             *)

\* Whatever becomes of the process, the pipes and the client, the body is a header or
\* none, the audio from its beginning with no gap, no repetition and no exchange, and
\* nothing after a trailer.
BodyInOrder ==
    \E lead \in {0, 1} : \A i \in DOMAIN body :
        body[i] = i - lead \/ (body[i] = Trailer /\ i = Len(body))

\* A response that ends after the worker's final marker, to a client that stays,
\* holds every sentence and, if it is encoded, the trailer of the container: the
\* last bytes are waited for though they come from another process by way of
\* another task.  A missing ffmpeg, or one that is found dead, costs no audio.
BodyWhole ==
    at = "over" /\ ended = "final" /\ ~left /\ ffmpeg.fate = "well" =>
        /\ \A c \in 1..Chunks : \E i \in DOMAIN body : body[i] = c
        /\ ffmpeg.proc # "none" => body # <<>> /\ body[Len(body)] = Trailer

\* "Happens only on an abrupt client disconnect before the worker has done its
\* DB commit": the usage row of a stream that was read to its end is there to take
\* the time of the first byte.
StitchFindsRow == ended = "final" => stitch # "missed"

\* A response that has begun, by a first chunk, an encoder or the end of the
\* result stream, comes to its end, with a stuck ffmpeg too.
ResponseEnds == (made > 0 \/ ffmpeg.proc # "none" \/ ended # "no") ~> (at = "over")

\* No process survives its response, however that ends; only one that is stuck
\* when its client leaves may.
FfmpegEnds ==
    (ffmpeg.proc = "running") ~> (ffmpeg.proc = "gone" \/ (left /\ ffmpeg.fate = "stuck"))

\* What the client is sent and the usage row is told, in every state: the audio in
\* order, whole when the response ends well, and a row for the first byte.
DeliverySound == DeliveryTypeOK /\ BodyInOrder /\ BodyWhole /\ StitchFindsRow

\* A response and its process come to an end (the streaming generator, its finally
\* and FfmpegStreamEncoder.close).
DeliveryEnds == ResponseEnds /\ FfmpegEnds
=============================================================================
