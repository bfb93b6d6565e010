---------------------------- MODULE GatewayProofs ----------------------------
(***************************************************************************)
(* Proofs about four modules of the gateway: Delivery (what the client of  *)
(* a synthesis response is sent, for a text of any number of sentences),   *)
(* StreamInput (a WebSocket client's text, for texts of any length),       *)
(* Tuning (the knobs and the audio of a job, for any orders within their   *)
(* schemas) and Admission (any callers, bodies and endpoints, and any      *)
(* number of failures and deaths).                                         *)
(***************************************************************************)
EXTENDS Admission, Delivery, StreamInput, Tuning, SequenceTheorems, FiniteSetTheorems, TLAPS

-----------------------------------------------------------------------------
(* The inductive invariant.                                                *)

\* ffmpeg has written its trailer.
Trailed(e) == e.proc = "gone" /\ e.fate = "well"

\* s has the sentences from a + 1 on.
Run(s, a) == \A i \in 1..Len(s) : s[i] = a + i

\* All of them up to some sentence, and the trailer.
Ended(s) ==
    /\ s # <<>> /\ s[Len(s)] = Trailer
    /\ \A i \in 1..(Len(s) - 1) : s[i] = i

\* The body, what the reader has, what is in the pipe and what is still to be encoded are
\* one sequence.
Flow(b, e) == b \o e.buffer \o e.pipe \o e.stdin
Chain(b, e) ==
    IF Trailed(e) THEN Ended(Flow(b, e)) /\ e.stdin = <<>> /\ e.eof ELSE Run(Flow(b, e), 0)

\* Sentences in it.
Fed(b, e) == IF Trailed(e) THEN Len(Flow(b, e)) - 1 ELSE Len(Flow(b, e))

\* The process, the reader and the steps of the handler.
ControlOK ==
    /\ ffmpeg.proc = "none" \/ format # "ffmpeg" => ffmpeg = NoEncoder
    /\ ffmpeg.reader = "off" /\ ffmpeg.proc # "none" => ffmpeg.pipe = <<>> /\ ffmpeg.proc = "gone"
    /\ ~ffmpeg.eof => ~Trailed(ffmpeg)
    /\ at \in {"start", "read", "write", "drain", "close"} =>
          ~left /\ ~ffmpeg.eof /\ ~ffmpeg.closed
    /\ at \in {"write", "drain", "close", "wait", "join"} => ffmpeg.proc # "none"
    /\ at = "join" => ffmpeg.proc = "gone"
    /\ stitch # "none" => at = "over"
    /\ ended = "final" => usageRow /\ stitch # "missed"

StreamRouteOK ==
    route = "stream" =>
        /\ at \in {"start", "read", "write", "drain"} => ended = "no"
        /\ at \in {"start", "read", "drain"} => hand = <<>>
        /\ at = "start" => body = <<>> /\ ffmpeg = NoEncoder
        /\ ~Plain /\ at # "start" /\ ~left => ffmpeg.proc # "none"

SyncRouteOK ==
    route = "sync" =>
        /\ ~left /\ at # "stitch"
        /\ at = "read" => ended = "no"
        /\ at = "start" => ~Plain
        /\ at \in {"start", "write", "drain", "close", "wait", "join"} => ended = "final"
        /\ at \in {"read", "start"} => body = <<>> /\ ffmpeg = NoEncoder
        /\ at = "write" => /\ body = <<>> /\ ffmpeg.buffer = <<>> /\ ffmpeg.pipe = <<>>
                           /\ ffmpeg.stdin = <<>>

\* A streamed body that is not encoded begins with its header.
Lead == IF format = "wav" /\ at # "start" THEN 1 ELSE 0

\* All of the text, after a header or without.
AllPlain == \E lead \in {0, 1} : /\ Run(body, 0 - lead)
                                 /\ ended = "final" => Len(body) = Chunks + lead

BodyOK ==
    /\ route = "stream" /\ Plain => Run(body, 0 - Lead) /\ (at = "read" => Len(body) >= Lead)
    /\ route = "stream" /\ ~Plain => Chain(body, ffmpeg)
    /\ route = "sync" /\ at # "over" => Chain(body, ffmpeg)
    /\ route = "sync" /\ at = "over" =>
          \/ Chain(body, ffmpeg) /\ (ffmpeg.proc # "none" \/ ended # "final")
          \/ AllPlain /\ (ffmpeg.proc = "none" \/ ffmpeg.fate # "well")

\* Sentences the handler has taken off the stream.
Taken ==
    IF route = "sync" THEN Len(hand)
    ELSE IF Plain THEN Len(body) - Lead
    ELSE Fed(body, ffmpeg) + Len(hand)

\* While it is reading and what it writes is not lost.
Taking == at \in {"start", "read", "write", "drain"} /\ ended = "no" /\ ffmpeg.proc # "gone"

\* x is on the stream s.
Has(s, x) == \E i \in 1..Len(s) : s[i] = x

\* After its first k sentences a text of which m sentences are published goes on with s.
Follows(s, k, m) ==
    /\ \A i \in 1..Len(s) :
          \/ s[i] = k + i /\ k + i <= m
          \/ i = Len(s) /\ s[i] \in {Final, Failed} /\ k + i = m + 1
    /\ Has(s, Final) \/ Has(s, Failed) \/ k + Len(s) = m

InputOK ==
    /\ Taking => Taken >= 0 /\ Follows(stream, Taken, made)
    /\ Taking /\ route = "stream" /\ ~Plain => Run(hand, Fed(body, ffmpeg))
    /\ route = "sync" /\ at \in {"read", "start", "write"} => Run(hand, 0)
    /\ usageRow => made = Chunks \/ Has(stream, Failed) \/ ended = "error"
    /\ Has(stream, Final) => usageRow /\ made = Chunks

\* What was read to the end is in hand, in the encoder or in the body, all of it.
FinalOK ==
    ended = "final" /\ ~left =>
        /\ route = "sync" /\ at \in {"start", "write"} => Len(hand) = Chunks
        /\ at \in {"drain", "close", "wait", "join"} /\ ffmpeg.fate = "well" =>
              Fed(body, ffmpeg) = Chunks
        /\ route = "stream" /\ Plain /\ at \in {"stitch", "over"} => Len(body) = Chunks + Lead
        /\ at \in {"stitch", "over"} /\ ffmpeg.proc # "none" /\ ffmpeg.fate = "well" =>
              Trailed(ffmpeg) /\ Len(body) = Chunks + 1 /\ Flow(body, ffmpeg) = body

DeliveryInv ==
    /\ DeliveryTypeOK
    /\ ControlOK /\ StreamRouteOK /\ SyncRouteOK
    /\ BodyOK /\ InputOK /\ FinalOK

-----------------------------------------------------------------------------
(* Sequences of consecutive sentences.                                     *)

\* The three shapes a sequence takes in an action, as functions.
LEMMA Appended ==
    ASSUME NEW S, NEW s \in Seq(S), NEW x \in S
    PROVE  /\ Append(s, x) \in Seq(S)
           /\ Len(Append(s, x)) = Len(s) + 1
           /\ \A i \in 1..Len(s) : Append(s, x)[i] = s[i]
           /\ Append(s, x)[Len(s) + 1] = x
  BY AppendProperties

\* What is sent goes behind what was sent.
LEMMA RunAppend ==
    ASSUME NEW s \in Seq(Item), NEW a \in Int, Run(s, a),
           NEW x \in Item, x = a + Len(s) + 1
    PROVE  Run(Append(s, x), a)
<1>1. PICK n \in Nat : n = Len(s)
  BY LenProperties
<1>2. /\ Len(Append(s, x)) = n + 1
      /\ \A i \in 1..n : Append(s, x)[i] = s[i]
      /\ Append(s, x)[n + 1] = x
  BY <1>1, Appended
<1> HIDE DEF Item
<1>3. \A i \in 1..n : s[i] = a + i
  BY <1>1 DEF Run
<1> QED
  BY <1>1, <1>2, <1>3 DEF Run

\* Two that follow each other are one.
LEMMA RunCat ==
    ASSUME NEW s \in Seq(Item), NEW u \in Seq(Item), NEW a \in Int,
           Run(s, a), Run(u, a + Len(s))
    PROVE  Run(s \o u, a)
<1>1. PICK n \in Nat : n = Len(s)
  BY LenProperties
<1>2. PICK m \in Nat : m = Len(u)
  BY LenProperties
<1>3. /\ Len(s \o u) = n + m
      /\ \A i \in 1..(n + m) : (s \o u)[i] = IF i <= n THEN s[i] ELSE u[i - n]
  BY <1>1, <1>2, ConcatProperties
<1>4. \A i \in 1..n : s[i] = a + i
  BY <1>1 DEF Run
<1>5. \A i \in 1..m : u[i] = a + n + i
  BY <1>1, <1>2 DEF Run
<1> QED
  BY <1>1, <1>2, <1>3, <1>4, <1>5 DEF Run

\* Nothing is a run from anywhere.
LEMMA RunNone == ASSUME NEW a \in Int PROVE Run(<<>>, a)
  BY EmptySeq DEF Run

\* A part of it from its beginning.
LEMMA RunPart ==
    ASSUME NEW s \in Seq(Item), NEW u \in Seq(Item), NEW a \in Int, Run(s \o u, a)
    PROVE  Run(s, a)
<1>1. PICK n \in Nat : n = Len(s)
  BY LenProperties
<1>2. PICK m \in Nat : m = Len(u)
  BY LenProperties
<1>3. /\ Len(s \o u) = n + m
      /\ \A i \in 1..(n + m) : (s \o u)[i] = IF i <= n THEN s[i] ELSE u[i - n]
  BY <1>1, <1>2, ConcatProperties
<1>4. \A i \in 1..(n + m) : (s \o u)[i] = a + i
  BY <1>3 DEF Run
<1> QED
  BY <1>1, <1>3, <1>4 DEF Run

\* The trailer goes behind the last sentence.
LEMMA EndedAppend ==
    ASSUME NEW s \in Seq(Item), Run(s, 0), Trailer \in Item
    PROVE  /\ Ended(Append(s, Trailer))
           /\ Len(Append(s, Trailer)) - 1 = Len(s)
<1>1. PICK n \in Nat : n = Len(s)
  BY LenProperties
<1>2. /\ Len(Append(s, Trailer)) = n + 1
      /\ \A i \in 1..n : Append(s, Trailer)[i] = s[i]
      /\ Append(s, Trailer)[n + 1] = Trailer
      /\ Append(s, Trailer) # <<>>
  BY <1>1, Appended, AppendProperties
<1>3. \A i \in 1..n : s[i] = i
  BY <1>1 DEF Run
<1> HIDE DEF Trailer
<1> QED
  BY <1>1, <1>2, <1>3 DEF Ended

-----------------------------------------------------------------------------
(* What each step does to the sequence of body, buffer, pipe and input.    *)

\* Header, sentences and trailer are the numbers from 0 to Chunks + 1.
LEMMA ItemFacts ==
    /\ Header \in Item /\ Trailer \in Item /\ Header = 0 /\ Trailer = Chunks + 1
    /\ Item \subseteq Int
    /\ \A c \in 1..Chunks : c \in Item
    /\ Chunks \in Nat
  BY DeliveryAssumption DEF Item, Header, Trailer

\* What is on its way is a sequence of items.
LEMMA FlowFacts ==
    ASSUME NEW b \in Seq(Item), NEW e \in Encoder
    PROVE  /\ e.stdin \in Seq(Item) /\ e.pipe \in Seq(Item) /\ e.buffer \in Seq(Item)
           /\ Flow(b, e) \in Seq(Item)
           /\ Fed(b, e) \in Int
<1>1. e.stdin \in Seq(Item) /\ e.pipe \in Seq(Item) /\ e.buffer \in Seq(Item)
  BY DEF Encoder
<1>2. Flow(b, e) \in Seq(Item)
  BY <1>1, ConcatProperties, Zenon DEF Flow
<1>3. PICK n \in Nat : n = Len(Flow(b, e))
  BY <1>2, LenProperties
<1>4. Fed(b, e) = n - 1 \/ Fed(b, e) = n
  BY <1>3 DEF Fed
<1> QED
  BY <1>1, <1>2, <1>4

\* Where a queue is cut does not matter.
LEMMA Associative ==
    ASSUME NEW s \in Seq(Item), NEW u \in Seq(Item), NEW v \in Seq(Item)
    PROVE  s \o (u \o v) = (s \o u) \o v
  BY ConcatAssociative

\* Items move on, and none is lost or made.
LEMMA ChainSame ==
    ASSUME NEW b, NEW c, NEW e, NEW f, Chain(b, e),
           Flow(c, f) = Flow(b, e), Trailed(f) <=> Trailed(e),
           e.eof => f.eof, e.stdin = <<>> => f.stdin = <<>>
    PROVE  Chain(c, f) /\ Fed(c, f) = Fed(b, e)
<1> HIDE DEF Flow, Trailed
<1> QED
  BY DEF Chain, Fed

\* Encodes: the first of the input becomes the last in the pipe.
LEMMA FlowEncodes ==
    ASSUME NEW b \in Seq(Item), NEW e \in Encoder, NEW f, e.stdin # <<>>,
           f.stdin = Tail(e.stdin), f.pipe = Append(e.pipe, Head(e.stdin)), f.buffer = e.buffer
    PROVE  Flow(b, f) = Flow(b, e)
<1>1. e.stdin \in Seq(Item) /\ e.pipe \in Seq(Item) /\ e.buffer \in Seq(Item)
  BY FlowFacts
<1> DEFINE x == Head(e.stdin)
           v == b \o e.buffer
<1>2. v \in Seq(Item) /\ x \in Item /\ Tail(e.stdin) \in Seq(Item) /\ <<x>> \in Seq(Item)
  BY <1>1, ConcatProperties, HeadTailProperties
<1>3. e.stdin = <<x>> \o Tail(e.stdin)
  BY <1>1, HeadTailProperties
<1>4. f.pipe = e.pipe \o <<x>>
  BY <1>1, <1>2, AppendIsConcat
<1> HIDE DEF x, v
<1>5. v \o (e.pipe \o <<x>>) = (v \o e.pipe) \o <<x>>
  <2>1. e.pipe \in Seq(Item) /\ v \in Seq(Item) /\ <<x>> \in Seq(Item)
    BY <1>1, <1>2
  <2> QED
    BY <2>1, Associative, ZenonT(40)
<1>6. v \o e.pipe \in Seq(Item)
  BY <1>1, <1>2, ConcatProperties, Zenon
<1>7. ((v \o e.pipe) \o <<x>>) \o Tail(e.stdin) = (v \o e.pipe) \o (<<x>> \o Tail(e.stdin))
  BY <1>2, <1>6, Associative, ZenonT(40)
<1> QED
  BY <1>3, <1>4, <1>5, <1>7, Zenon DEF Flow, v

\* _read_stdout: from the pipe to the buffer.
LEMMA FlowReads ==
    ASSUME NEW b \in Seq(Item), NEW e \in Encoder, NEW f,
           f.stdin = e.stdin, f.pipe = <<>>, f.buffer = e.buffer \o e.pipe
    PROVE  Flow(b, f) = Flow(b, e)
<1>1. e.pipe \in Seq(Item) /\ e.buffer \in Seq(Item)
  BY FlowFacts
<1>2. b \o (e.buffer \o e.pipe) = (b \o e.buffer) \o e.pipe
  BY <1>1, Associative, Zenon
<1>3. b \o (e.buffer \o e.pipe) \in Seq(Item)
  BY <1>1, ConcatProperties, Zenon
<1>4. (b \o (e.buffer \o e.pipe)) \o <<>> = b \o (e.buffer \o e.pipe)
  BY <1>3, ConcatEmptySeq, Zenon
<1> QED
  BY <1>2, <1>4, Zenon DEF Flow

\* _drain: from the buffer to the body.
LEMMA FlowDrain ==
    ASSUME NEW b \in Seq(Item), NEW e \in Encoder, NEW f,
           f.stdin = e.stdin, f.pipe = e.pipe, f.buffer = <<>>
    PROVE  Flow(b \o e.buffer, f) = Flow(b, e)
<1>1. e.buffer \in Seq(Item)
  BY FlowFacts
<1>2. (b \o e.buffer) \o <<>> = b \o e.buffer
  BY <1>1, ConcatProperties, ConcatEmptySeq, Zenon
<1> QED
  BY <1>2, Zenon DEF Flow

\* Exits.
LEMMA ChainExits ==
    ASSUME NEW b \in Seq(Item), NEW e \in Encoder, NEW f, Chain(b, e),
           ~Trailed(e), Trailed(f), e.stdin = <<>>, f.stdin = <<>>, f.eof,
           f.pipe = Append(e.pipe, Trailer), f.buffer = e.buffer
    PROVE  Chain(b, f) /\ Fed(b, f) = Fed(b, e)
<1>1. e.stdin \in Seq(Item) /\ e.pipe \in Seq(Item) /\ e.buffer \in Seq(Item)
  BY FlowFacts
<1> DEFINE v == (b \o e.buffer) \o e.pipe
           x == Trailer
<1>2. b \o e.buffer \in Seq(Item) /\ v \in Seq(Item) /\ x \in Item /\ <<x>> \in Seq(Item)
  BY <1>1, ConcatProperties, ItemFacts
<1>3. Flow(b, e) = v
  BY <1>2, ConcatEmptySeq, Zenon DEF Flow
<1>4. Append(e.pipe, x) = e.pipe \o <<x>> /\ Append(v, x) = v \o <<x>> /\ Append(v, x) \in Seq(Item)
  BY <1>1, <1>2, AppendIsConcat, AppendProperties, ZenonT(40)
<1>5. (b \o e.buffer) \o (e.pipe \o <<x>>) = v \o <<x>>
  <2> DEFINE w == b \o e.buffer
  <2>1. e.pipe \in Seq(Item) /\ w \in Seq(Item) /\ <<x>> \in Seq(Item)
    BY <1>1, <1>2
  <2> HIDE DEF w, x
  <2>2. w \o (e.pipe \o <<x>>) = (w \o e.pipe) \o <<x>>
    BY <2>1, Associative, ZenonT(40)
  <2> QED
    BY <2>2 DEF w
<1>6. Append(v, x) \o <<>> = Append(v, x)
  BY <1>4, ConcatEmptySeq, Zenon
<1>7. Flow(b, f) = Append(v, x)
  BY <1>4, <1>5, <1>6, Zenon DEF Flow
<1> HIDE DEF v, Trailed
<1>8. Run(v, 0)
  BY <1>3 DEF Chain
<1>9. Ended(Append(v, x)) /\ Len(Append(v, x)) - 1 = Len(v)
  BY <1>2, <1>8, EndedAppend
<1> HIDE DEF x
<1> QED
  BY <1>3, <1>7, <1>9, Zenon DEF Chain, Fed

\* FfmpegFails, by the death of the process: what it had not encoded is lost.
LEMMA ChainDies ==
    ASSUME NEW b \in Seq(Item), NEW e \in Encoder, NEW f, Chain(b, e),
           ~Trailed(e), ~Trailed(f), f.stdin = <<>>, f.pipe = e.pipe, f.buffer = e.buffer
    PROVE  Chain(b, f)
<1>1. e.stdin \in Seq(Item) /\ e.pipe \in Seq(Item) /\ e.buffer \in Seq(Item)
  BY FlowFacts
<1> DEFINE v == (b \o e.buffer) \o e.pipe
<1>2. v \in Seq(Item)
  BY <1>1, ConcatProperties, Zenon
<1>3. Flow(b, e) = v \o e.stdin /\ Flow(b, f) = v
  BY <1>2, ConcatEmptySeq, Zenon DEF Flow
<1> HIDE DEF v, Trailed
<1>4. Run(v \o e.stdin, 0)
  BY <1>3 DEF Chain
<1>5. Run(v, 0)
  BY <1>1, <1>2, <1>4, RunPart
<1> QED
  BY <1>3, <1>5 DEF Chain

\* Write: behind what was fed before.
LEMMA ChainWrite ==
    ASSUME NEW b \in Seq(Item), NEW e \in Encoder, NEW f, Chain(b, e), ~Trailed(e), ~Trailed(f),
           NEW h \in Seq(Item), Run(h, Fed(b, e)),
           f.stdin = e.stdin \o h, f.pipe = e.pipe, f.buffer = e.buffer
    PROVE  Chain(b, f) /\ Fed(b, f) = Fed(b, e) + Len(h)
<1>1. e.stdin \in Seq(Item) /\ e.pipe \in Seq(Item) /\ e.buffer \in Seq(Item)
  BY FlowFacts
<1> DEFINE v == (b \o e.buffer) \o e.pipe
           w == Flow(b, e)
<1>2. v \in Seq(Item) /\ w \in Seq(Item)
  BY <1>1, FlowFacts, ConcatProperties, Zenon
<1>3. v \o (e.stdin \o h) = (v \o e.stdin) \o h
  <2>1. e.stdin \in Seq(Item) /\ v \in Seq(Item)
    BY <1>1, <1>2
  <2> HIDE DEF v
  <2> QED
    BY <2>1, Associative, Zenon
<1>4. Flow(b, f) = w \o h
  BY <1>3, Zenon DEF Flow
<1> HIDE DEF v, w, Trailed
<1>5. Fed(b, e) = Len(w)
  BY DEF Fed, w
<1>6. Run(w, 0)
  BY DEF Chain, w
<1>7. Fed(b, f) = Len(w \o h)
  BY <1>4, Zenon DEF Fed
<1>8. Run(w \o h, 0) /\ Len(w \o h) = Len(w) + Len(h)
  <2>1. Run(h, 0 + Len(w))
    BY <1>2, <1>5, LenProperties
  <2> QED
    BY <1>2, <1>6, <2>1, RunCat, ConcatProperties
<1>9. Chain(b, f)
  BY <1>4, <1>8, Zenon DEF Chain
<1> QED
  BY <1>5, <1>7, <1>8, <1>9, Zenon

-----------------------------------------------------------------------------
(* The encoder after each of its changes, field by field.                  *)

\* start() has a process and its reader.
LEMMA EncoderStarts ==
    ASSUME NEW e \in Encoder
    PROVE  LET f == [e EXCEPT !.proc = "running", !.reader = "on"]
           IN  /\ f \in Encoder
               /\ f.proc = "running" /\ f.fate = e.fate /\ f.stdin = e.stdin
               /\ f.eof = e.eof /\ f.pipe = e.pipe /\ f.buffer = e.buffer /\ f.reader = "on"
               /\ f.closed = e.closed
  BY DEF Encoder

\* Encodes.
LEMMA EncoderEncodes ==
    ASSUME NEW e \in Encoder, e.stdin # <<>>
    PROVE  LET f == [e EXCEPT !.stdin = Tail(@), !.pipe = Append(@, Head(e.stdin))]
           IN  /\ f \in Encoder
               /\ f.proc = e.proc /\ f.fate = e.fate /\ f.stdin = Tail(e.stdin)
               /\ f.eof = e.eof /\ f.pipe = Append(e.pipe, Head(e.stdin))
               /\ f.buffer = e.buffer /\ f.reader = e.reader /\ f.closed = e.closed
  BY HeadTailProperties, AppendProperties DEF Encoder

\* Exits.
LEMMA EncoderExits ==
    ASSUME NEW e \in Encoder
    PROVE  LET f == [e EXCEPT !.proc = "gone", !.pipe = Append(@, Trailer)]
           IN  /\ f \in Encoder
               /\ f.proc = "gone" /\ f.fate = e.fate /\ f.stdin = e.stdin /\ f.eof = e.eof
               /\ f.pipe = Append(e.pipe, Trailer) /\ f.buffer = e.buffer
               /\ f.reader = e.reader /\ f.closed = e.closed
  BY ItemFacts, AppendProperties DEF Encoder

\* FfmpegFails.
LEMMA EncoderDies ==
    ASSUME NEW e \in Encoder
    PROVE  LET f == [e EXCEPT !.proc = "gone", !.fate = "dead", !.stdin = <<>>]
           IN  /\ f \in Encoder
               /\ f.proc = "gone" /\ f.fate = "dead" /\ f.stdin = <<>> /\ f.eof = e.eof
               /\ f.pipe = e.pipe /\ f.buffer = e.buffer /\ f.reader = e.reader
               /\ f.closed = e.closed
  BY EmptySeq DEF Encoder

\* FfmpegFails.
LEMMA EncoderSticks ==
    ASSUME NEW e \in Encoder
    PROVE  LET f == [e EXCEPT !.fate = "stuck"]
           IN  /\ f \in Encoder
               /\ f.proc = e.proc /\ f.fate = "stuck" /\ f.stdin = e.stdin /\ f.eof = e.eof
               /\ f.pipe = e.pipe /\ f.buffer = e.buffer /\ f.reader = e.reader
               /\ f.closed = e.closed
  BY DEF Encoder

\* _read_stdout.
LEMMA EncoderReads ==
    ASSUME NEW e \in Encoder
    PROVE  LET f == [e EXCEPT !.buffer = @ \o e.pipe, !.pipe = <<>>]
           IN  /\ f \in Encoder
               /\ f.proc = e.proc /\ f.fate = e.fate /\ f.stdin = e.stdin /\ f.eof = e.eof
               /\ f.pipe = <<>> /\ f.buffer = e.buffer \o e.pipe /\ f.reader = e.reader
               /\ f.closed = e.closed
  BY ConcatProperties, EmptySeq DEF Encoder

\* _read_stdout at the end of the pipe.
LEMMA EncoderReaderEnds ==
    ASSUME NEW e \in Encoder
    PROVE  LET f == [e EXCEPT !.reader = "off"]
           IN  /\ f \in Encoder
               /\ f.proc = e.proc /\ f.fate = e.fate /\ f.stdin = e.stdin /\ f.eof = e.eof
               /\ f.pipe = e.pipe /\ f.buffer = e.buffer /\ f.reader = "off"
               /\ f.closed = e.closed
  BY DEF Encoder

\* Write.
LEMMA EncoderWrites ==
    ASSUME NEW e \in Encoder, NEW h \in Seq(Item)
    PROVE  LET f == [e EXCEPT !.stdin = IF e.proc = "running" THEN @ \o h ELSE @]
           IN  /\ f \in Encoder
               /\ f.proc = e.proc /\ f.fate = e.fate
               /\ f.stdin = (IF e.proc = "running" THEN e.stdin \o h ELSE e.stdin)
               /\ f.eof = e.eof /\ f.pipe = e.pipe /\ f.buffer = e.buffer
               /\ f.reader = e.reader /\ f.closed = e.closed
  BY ConcatProperties, EmptySeq DEF Encoder

\* _drain.
LEMMA EncoderDrains ==
    ASSUME NEW e \in Encoder
    PROVE  LET f == [e EXCEPT !.buffer = <<>>]
           IN  /\ f \in Encoder
               /\ f.proc = e.proc /\ f.fate = e.fate /\ f.stdin = e.stdin /\ f.eof = e.eof
               /\ f.pipe = e.pipe /\ f.buffer = <<>> /\ f.reader = e.reader
               /\ f.closed = e.closed
  BY EmptySeq DEF Encoder

\* Close and CleanUp.
LEMMA EncoderCloses ==
    ASSUME NEW e \in Encoder
    PROVE  LET f == [e EXCEPT !.eof = TRUE, !.closed = TRUE]
           IN  /\ f \in Encoder
               /\ f.proc = e.proc /\ f.fate = e.fate /\ f.stdin = e.stdin /\ f.eof = TRUE
               /\ f.pipe = e.pipe /\ f.buffer = e.buffer /\ f.reader = e.reader
               /\ f.closed = TRUE
  BY DEF Encoder

\* Wait.
LEMMA EncoderWaits ==
    ASSUME NEW e \in Encoder
    PROVE  LET f == [e EXCEPT !.proc = "gone"]
           IN  /\ f \in Encoder
               /\ f.proc = "gone" /\ f.fate = e.fate /\ f.stdin = e.stdin /\ f.eof = e.eof
               /\ f.pipe = e.pipe /\ f.buffer = e.buffer /\ f.reader = e.reader
               /\ f.closed = e.closed
  BY DEF Encoder

-----------------------------------------------------------------------------
(* The result stream.                                                      *)

Entry == Item \cup {Final, Failed}

\* What Delivery says of the stream, by positions.
LEMMA PublishedIsHas ==
    ASSUME DeliveryTypeOK, NEW x
    PROVE  x \in Published <=> Has(stream, x)
<1>1. DOMAIN stream = 1..Len(stream)
  BY LenProperties DEF DeliveryTypeOK
<1> QED
  BY <1>1 DEF Published, Has

\* What is on a stream after the worker adds to it,
LEMMA HasAppend ==
    ASSUME NEW s \in Seq(Entry), NEW x \in Entry, NEW y
    PROVE  Has(Append(s, x), y) <=> Has(s, y) \/ y = x
<1>1. PICK n \in Nat : n = Len(s)
  BY LenProperties
<1>2. /\ Len(Append(s, x)) = n + 1
      /\ \A i \in 1..n : Append(s, x)[i] = s[i]
      /\ Append(s, x)[n + 1] = x
  BY <1>1, Appended
<1> QED
  BY <1>1, <1>2 DEF Has

\* and after the handler takes its first entry.
LEMMA HasTail ==
    ASSUME NEW s \in Seq(Entry), s # <<>>, NEW y
    PROVE  Has(s, y) <=> Head(s) = y \/ Has(Tail(s), y)
<1>1. PICK n \in Nat : n = Len(s)
  BY LenProperties
<1>2. /\ n > 0 /\ Len(Tail(s)) = n - 1 /\ Head(s) = s[1]
      /\ \A i \in 1..(n - 1) : Tail(s)[i] = s[i + 1]
  BY <1>1, HeadTailProperties, EmptySeq
<1>3. ASSUME NEW i \in 1..n, s[i] = y, i # 1
      PROVE  \E j \in 1..(n - 1) : Tail(s)[j] = y
  <2>1. i - 1 \in 1..(n - 1) /\ (i - 1) + 1 = i
    BY <1>3
  <2> QED
    BY <1>2, <1>3, <2>1
<1>4. ASSUME NEW j \in 1..(n - 1), Tail(s)[j] = y
      PROVE  \E i \in 1..n : s[i] = y
  <2>1. j + 1 \in 1..n
    BY <1>4
  <2> QED
    BY <1>2, <1>4, <2>1
<1> QED
  BY <1>1, <1>2, <1>3, <1>4 DEF Has

\* The worker publishes the next sentence ...
LEMMA FollowsChunk ==
    ASSUME NEW s \in Seq(Entry), NEW k \in Int, NEW m \in Nat, m + 1 \in Item,
           Follows(s, k, m), ~Has(s, Final), ~Has(s, Failed)
    PROVE  Follows(Append(s, m + 1), k, m + 1)
<1>1. PICK n \in Nat : n = Len(s)
  BY LenProperties
<1>2. m + 1 \in Entry
  BY DEF Entry
<1>3. /\ Len(Append(s, m + 1)) = n + 1
      /\ \A i \in 1..n : Append(s, m + 1)[i] = s[i]
      /\ Append(s, m + 1)[n + 1] = m + 1
  BY <1>1, <1>2, Appended
<1>4. k + n = m
  BY <1>1 DEF Follows
<1>5. \A i \in 1..n : s[i] = k + i /\ k + i <= m
  BY <1>1, <1>4 DEF Follows, Has
<1>6. \A i \in 1..(n + 1) : Append(s, m + 1)[i] = k + i /\ k + i <= m + 1
  BY <1>3, <1>4, <1>5
<1> QED
  BY <1>3, <1>4, <1>6 DEF Follows

\* ... or the marker that ends it.
LEMMA FollowsMarker ==
    ASSUME NEW s \in Seq(Entry), NEW k \in Int, NEW m \in Nat, NEW x \in {Final, Failed},
           Follows(s, k, m), ~Has(s, Final), ~Has(s, Failed)
    PROVE  Follows(Append(s, x), k, m)
<1>1. PICK n \in Nat : n = Len(s)
  BY LenProperties
<1>2. x \in Entry
  BY DEF Entry
<1>3. /\ Len(Append(s, x)) = n + 1
      /\ \A i \in 1..n : Append(s, x)[i] = s[i]
      /\ Append(s, x)[n + 1] = x
  BY <1>1, <1>2, Appended
<1>4. k + n = m
  BY <1>1 DEF Follows
<1>5. \A i \in 1..n : s[i] = k + i /\ k + i <= m
  BY <1>1, <1>4 DEF Follows, Has
<1>6. Has(Append(s, x), Final) \/ Has(Append(s, x), Failed)
  BY <1>2, HasAppend
<1>7. \A i \in 1..(n + 1) :
         \/ Append(s, x)[i] = k + i /\ k + i <= m
         \/ i = n + 1 /\ Append(s, x)[i] \in {Final, Failed} /\ k + i = m + 1
  BY <1>3, <1>4, <1>5
<1> QED
  BY <1>3, <1>6, <1>7 DEF Follows

\* The handler takes a sentence: it is the next one.
LEMMA FollowsTail ==
    ASSUME NEW s \in Seq(Entry), NEW k \in Nat, NEW m \in Nat, s # <<>>, Follows(s, k, m)
    PROVE  /\ Head(s) \in Entry
           /\ Head(s) > 0 => Head(s) = k + 1 /\ Follows(Tail(s), k + 1, m)
           /\ Head(s) = Final => k = m
<1>1. PICK n \in Nat : n = Len(s)
  BY LenProperties
<1>2. /\ n > 0 /\ Len(Tail(s)) = n - 1 /\ Head(s) = s[1] /\ Head(s) \in Entry
      /\ \A i \in 1..(n - 1) : Tail(s)[i] = s[i + 1]
  BY <1>1, HeadTailProperties, EmptySeq
<1>3. \A i \in 1..n : \/ s[i] = k + i /\ k + i <= m
                      \/ i = n /\ s[i] \in {Final, Failed} /\ k + i = m + 1
  BY <1>1 DEF Follows
<1>4. Has(s, Final) \/ Has(s, Failed) \/ k + n = m
  BY <1>1 DEF Follows
<1>5. Final = -1 /\ Failed = -2
  BY DEF Final, Failed
<1>6. 1 \in 1..n
  BY <1>2
<1>7. Head(s) = Final => k = m
  BY <1>2, <1>3, <1>5, <1>6
<1>8. ASSUME Head(s) > 0
      PROVE  Head(s) = k + 1 /\ Follows(Tail(s), k + 1, m)
  <2>1. Head(s) = k + 1 /\ Head(s) # Final /\ Head(s) # Failed
    BY <1>2, <1>3, <1>5, <1>6, <1>8
  <2>2. Has(Tail(s), Final) \/ Has(Tail(s), Failed) \/ k + n = m
    BY <1>4, <2>1, HasTail
  <2>3. \A i \in 1..(n - 1) :
           \/ Tail(s)[i] = (k + 1) + i /\ (k + 1) + i <= m
           \/ i = n - 1 /\ Tail(s)[i] \in {Final, Failed} /\ (k + 1) + i = m + 1
    <3> TAKE i \in 1..(n - 1)
    <3>1. i + 1 \in 1..n /\ k + (i + 1) = (k + 1) + i /\ (i + 1 = n => i = n - 1)
      OBVIOUS
    <3>2. Tail(s)[i] = s[i + 1]
      BY <1>2
    <3> HIDE DEF Final, Failed
    <3>3. \/ s[i + 1] = k + (i + 1) /\ k + (i + 1) <= m
          \/ i + 1 = n /\ s[i + 1] \in {Final, Failed} /\ k + (i + 1) = m + 1
      BY <1>3, <3>1
    <3> QED
      BY <3>1, <3>2, <3>3, Zenon
  <2>4. (k + 1) + (n - 1) = k + n
    OBVIOUS
  <2> QED
    BY <1>2, <2>1, <2>2, <2>3, <2>4 DEF Follows
<1> QED
  BY <1>2, <1>7, <1>8

-----------------------------------------------------------------------------
(* Each action keeps the invariant.                                        *)

\* The count of sentences taken is a number.
LEMMA TakenType ==
    ASSUME DeliveryTypeOK
    PROVE  Taken \in Int
<1>1. Len(hand) \in Nat /\ Len(body) \in Nat /\ Lead \in {0, 1}
  BY LenProperties DEF DeliveryTypeOK, Lead
<1>2. Fed(body, ffmpeg) \in Int
  BY FlowFacts DEF DeliveryTypeOK
<1>3. Fed(body, ffmpeg) + Len(hand) \in Int /\ Len(body) - Lead \in Int
  BY <1>1, <1>2
<1> QED
  BY <1>1, <1>3 DEF Taken

\* What does not depend on the result stream and on the usage row stays.
LEMMA OnlyInput ==
    ASSUME DeliveryInv, DeliveryTypeOK', InputOK', usageRow => usageRow',
           UNCHANGED <<route, format, at, ended, hand, ffmpeg, body, left, stitch>>
    PROVE  DeliveryInv'
<1>1. ControlOK'
  BY DEF DeliveryInv, ControlOK, Trailed
<1>2. StreamRouteOK' /\ SyncRouteOK'
  BY DEF DeliveryInv, StreamRouteOK, SyncRouteOK, Plain
<1>3. BodyOK'
  BY DEF DeliveryInv, BodyOK, AllPlain, Plain, Lead
<1>4. FinalOK'
  BY DEF DeliveryInv, FinalOK, Plain, Lead
<1> QED
  BY <1>1, <1>2, <1>3, <1>4 DEF DeliveryInv

\* The worker's part of the input: the handler's is as it was.
LEMMA InputStep ==
    ASSUME DeliveryInv,
           UNCHANGED <<route, format, at, ended, hand, ffmpeg, body>>,
           Follows(stream, Taken, made) => Follows(stream', Taken, made'),
           usageRow' => made' = Chunks \/ Has(stream', Failed) \/ ended = "error",
           Has(stream', Final) => usageRow' /\ made' = Chunks
    PROVE  InputOK'
<1>1. Taken' = Taken
  BY DEF Taken, Plain, Lead
<1>2. Taking' <=> Taking
  BY DEF Taking
<1> HIDE DEF Taken, Taking
<1> QED
  BY <1>1, <1>2 DEF InputOK, DeliveryInv, Plain

\* The worker puts the next sentence, the final marker or the error on the stream.
LEMMA StepWorker ==
    ASSUME DeliveryInv, WorkerPublishes
    PROVE  DeliveryInv'
<1>1. /\ DeliveryTypeOK
      /\ stream \in Seq(Entry) /\ made \in Nat /\ made \in 0..Chunks /\ Taken \in Int
      /\ UNCHANGED <<route, format, at, ended, hand, ffmpeg, body, left, stitch>>
      /\ usageRow => made = Chunks \/ Has(stream, Failed) \/ ended = "error"
      /\ Has(stream, Final) => usageRow /\ made = Chunks
  BY TakenType DEF DeliveryInv, DeliveryTypeOK, Entry, WorkerPublishes, InputOK
<1>2. Publishing => /\ ~Has(stream, Final) /\ ~Has(stream, Failed)
                    /\ ended # "final" /\ ended # "error"
  BY <1>1, PublishedIsHas DEF Publishing
<1>3. Final \in Entry /\ Failed \in Entry /\ Final # Failed
  BY DEF Entry, Final, Failed
<1>4. CASE PublishChunk
  <2>1. /\ ~Has(stream, Final) /\ ~Has(stream, Failed) /\ ~usageRow /\ ~usageRow'
        /\ made < Chunks /\ made' = made + 1 /\ stream' = Append(stream, made + 1)
    BY <1>2, <1>4 DEF PublishChunk
  <2>2. made + 1 \in Item /\ made + 1 \in Entry /\ made + 1 \in 0..Chunks
        /\ made + 1 # Final /\ made + 1 # Failed
    BY <1>1, <2>1, ItemFacts DEF Entry, Final, Failed
  <2>3. ~Has(stream', Final)
    BY <1>1, <1>3, <2>1, <2>2, HasAppend
  <2>4. Follows(stream, Taken, made) => Follows(stream', Taken, made')
    BY <1>1, <2>1, <2>2, FollowsChunk
  <2>5. DeliveryTypeOK'
    <3>1. stream' \in Seq(Entry) /\ made' \in 0..Chunks
      BY <1>1, <2>1, <2>2, Appended
    <3> QED
      BY <1>1, <1>4, <3>1 DEF DeliveryTypeOK, Entry, PublishChunk
  <2>6. InputOK'
    BY <1>1, <2>1, <2>3, <2>4, InputStep
  <2> QED
    BY <1>1, <2>1, <2>5, <2>6, OnlyInput
<1>5. CASE CommitUsage
  <2>1. /\ usageRow' = TRUE /\ UNCHANGED <<stream, made>> /\ ~usageRow
        /\ made = Chunks \/ Has(stream, Failed) \/ ended = "error"
    BY <1>1, <1>5, PublishedIsHas DEF CommitUsage
  <2>2. DeliveryTypeOK'
    BY <1>1, <2>1 DEF DeliveryTypeOK
  <2>3. InputOK'
    BY <1>1, <2>1, InputStep
  <2> QED
    BY <1>1, <2>1, <2>2, <2>3, OnlyInput
<1>6. CASE PublishFinal
  <2>1. /\ ~Has(stream, Final) /\ ~Has(stream, Failed) /\ usageRow /\ usageRow'
        /\ made = Chunks /\ made' = made /\ stream' = Append(stream, Final)
    BY <1>1, <1>2, <1>6 DEF PublishFinal
  <2>2. Follows(stream, Taken, made) => Follows(stream', Taken, made')
    BY <1>1, <2>1, FollowsMarker
  <2>3. DeliveryTypeOK'
    BY <1>1, <1>3, <1>6, <2>1, Appended DEF DeliveryTypeOK, Entry, PublishFinal
  <2>4. InputOK'
    BY <1>1, <2>1, <2>2, InputStep
  <2> QED
    BY <1>1, <2>1, <2>3, <2>4, OnlyInput
<1>7. CASE PublishError
  <2>1. /\ ~Has(stream, Final) /\ ~Has(stream, Failed) /\ ~usageRow /\ ~usageRow'
        /\ made' = made /\ stream' = Append(stream, Failed)
    BY <1>1, <1>2, <1>7 DEF PublishError
  <2>2. Follows(stream, Taken, made) => Follows(stream', Taken, made')
    BY <1>1, <2>1, FollowsMarker
  <2>3. ~Has(stream', Final)
    BY <1>1, <1>3, <2>1, HasAppend
  <2>4. DeliveryTypeOK'
    BY <1>1, <1>3, <1>7, <2>1, Appended DEF DeliveryTypeOK, Entry, PublishError
  <2>5. InputOK'
    BY <1>1, <2>1, <2>2, <2>3, InputStep
  <2> QED
    BY <1>1, <2>1, <2>4, <2>5, OnlyInput
<1> QED
  BY <1>4, <1>5, <1>6, <1>7 DEF WorkerPublishes

\* What ffmpeg and its reader do to the encoder: no more than pass items on, or lose what is
\* not encoded by a failure.
Emptied(e) == e.buffer = <<>> /\ e.pipe = <<>> /\ e.stdin = <<>>

Moves(e, f) ==
    /\ f \in Encoder
    /\ e.proc # "none" /\ f.proc # "none"
    /\ e.proc = "gone" => f.proc = "gone"
    /\ f.eof = e.eof /\ f.closed = e.closed
    /\ f.fate = "well" => e.fate = "well"
    /\ f.reader = "off" => f.pipe = <<>> /\ f.proc = "gone"
    /\ ~f.eof => ~Trailed(f)
    /\ Trailed(e) => Trailed(f) /\ Flow(body, f) = Flow(body, e)
    /\ Chain(body, e) => Chain(body, f)
    /\ Chain(body, e) /\ (f.proc # "gone" \/ f.fate = "well") => Fed(body, f) = Fed(body, e)
    /\ Emptied(e) /\ ~e.eof => Emptied(f)

\* What holds of an encoder that has a process or a reader.
LEMMA EncoderAtWork ==
    ASSUME DeliveryInv, ffmpeg.proc = "running" \/ ffmpeg.reader = "on"
    PROVE  /\ ffmpeg \in Encoder /\ body \in Seq(Item)
           /\ ffmpeg.proc # "none" /\ format = "ffmpeg"
           /\ ffmpeg.reader = "off" => ffmpeg.pipe = <<>> /\ ffmpeg.proc = "gone"
           /\ ~ffmpeg.eof => ~Trailed(ffmpeg)
  BY DEF DeliveryInv, DeliveryTypeOK, ControlOK, NoEncoder, Trailed

\* ffmpeg encodes an item, or exits with its trailer: nothing is lost on the way.
LEMMA FfmpegMoves ==
    ASSUME DeliveryInv, Ffmpeg
    PROVE  Moves(ffmpeg, ffmpeg')
<1>1. /\ ffmpeg \in Encoder /\ body \in Seq(Item) /\ ffmpeg.proc = "running"
      /\ ffmpeg.reader = "on" /\ ~Trailed(ffmpeg)
  BY EncoderAtWork DEF Ffmpeg, Encodes, Exits, Encoder, Trailed
<1>2. CASE Encodes
  <2> DEFINE e == ffmpeg
             f == ffmpeg'
  <2>1. /\ f = [e EXCEPT !.stdin = Tail(@), !.pipe = Append(@, Head(e.stdin))]
        /\ e.stdin # <<>> /\ e \in Encoder /\ e.proc = "running" /\ e.reader = "on"
    BY <1>1, <1>2 DEF Encodes
  <2> HIDE DEF e, f
  <2>2. /\ f \in Encoder
        /\ f.proc = e.proc /\ f.fate = e.fate /\ f.stdin = Tail(e.stdin)
        /\ f.eof = e.eof /\ f.pipe = Append(e.pipe, Head(e.stdin))
        /\ f.buffer = e.buffer /\ f.reader = e.reader /\ f.closed = e.closed
    BY <2>1, EncoderEncodes
  <2>3. Flow(body, f) = Flow(body, e)
    BY <1>1, <2>1, <2>2, FlowEncodes
  <2>4. ~Trailed(e) /\ ~Trailed(f)
    BY <2>1, <2>2 DEF Trailed
  <2>5. Chain(body, e) => Chain(body, f)
    BY <2>3, <2>4, Zenon DEF Chain
  <2>6. Fed(body, f) = Fed(body, e)
    BY <2>3, <2>4, Zenon DEF Fed
  <2>7. Moves(e, f)
    BY <2>1, <2>2, <2>3, <2>4, <2>5, <2>6 DEF Moves, Emptied
  <2> QED
    BY <2>7 DEF e, f
<1>3. CASE Exits
  <2> DEFINE e == ffmpeg
             f == ffmpeg'
  <2>1. /\ f = [e EXCEPT !.proc = "gone", !.pipe = Append(@, Trailer)]
        /\ e.stdin = <<>> /\ e.eof /\ e.fate = "well"
        /\ e \in Encoder /\ e.proc = "running" /\ e.reader = "on"
    BY <1>1, <1>3 DEF Exits
  <2> HIDE DEF e, f
  <2>2. /\ f \in Encoder
        /\ f.proc = "gone" /\ f.fate = e.fate /\ f.stdin = e.stdin /\ f.eof = e.eof
        /\ f.pipe = Append(e.pipe, Trailer) /\ f.buffer = e.buffer
        /\ f.reader = e.reader /\ f.closed = e.closed
    BY <2>1, EncoderExits
  <2>3. ~Trailed(e) /\ Trailed(f)
    BY <2>1, <2>2 DEF Trailed
  <2>4. ASSUME Chain(body, e)
        PROVE  Chain(body, f) /\ Fed(body, f) = Fed(body, e)
    <3>1. f.stdin = <<>> /\ f.eof
      BY <2>1, <2>2
    <3> QED
      BY <1>1, <2>1, <2>2, <2>3, <2>4, <3>1, ChainExits
  <2>5. Moves(e, f)
    BY <2>1, <2>2, <2>3, <2>4 DEF Moves
  <2> QED
    BY <2>5 DEF e, f
<1> QED
  BY <1>2, <1>3 DEF Ffmpeg

\* ffmpeg fails: what it had is lost from the end.
LEMMA FailureMoves ==
    ASSUME DeliveryInv, FfmpegFails
    PROVE  Moves(ffmpeg, ffmpeg')
<1> DEFINE e == ffmpeg
           f == ffmpeg'
<1>1. /\ e \in Encoder /\ body \in Seq(Item) /\ e.proc = "running" /\ e.fate = "well"
      /\ e.reader = "on" /\ ~Trailed(e)
  BY EncoderAtWork DEF FfmpegFails, Encoder, Trailed
<1>2. \/ f = [e EXCEPT !.proc = "gone", !.fate = "dead", !.stdin = <<>>]
      \/ f = [e EXCEPT !.fate = "stuck"]
  BY DEF FfmpegFails
<1> HIDE DEF e, f
<1>3. CASE f = [e EXCEPT !.proc = "gone", !.fate = "dead", !.stdin = <<>>]
  <2>1. /\ f \in Encoder
        /\ f.proc = "gone" /\ f.fate = "dead" /\ f.stdin = <<>> /\ f.eof = e.eof
        /\ f.pipe = e.pipe /\ f.buffer = e.buffer /\ f.reader = e.reader
        /\ f.closed = e.closed
    BY <1>1, <1>3, EncoderDies
  <2>2. ~Trailed(f)
    BY <2>1 DEF Trailed
  <2>3. Chain(body, e) => Chain(body, f)
    BY <1>1, <2>1, <2>2, ChainDies
  <2>4. Moves(e, f)
    BY <1>1, <2>1, <2>2, <2>3 DEF Moves, Emptied
  <2> QED
    BY <2>4 DEF e, f
<1>4. CASE f = [e EXCEPT !.fate = "stuck"]
  <2>1. /\ f \in Encoder
        /\ f.proc = e.proc /\ f.fate = "stuck" /\ f.stdin = e.stdin /\ f.eof = e.eof
        /\ f.pipe = e.pipe /\ f.buffer = e.buffer /\ f.reader = e.reader
        /\ f.closed = e.closed
    BY <1>1, <1>4, EncoderSticks
  <2>2. ~Trailed(f) /\ Flow(body, f) = Flow(body, e)
    BY <2>1 DEF Trailed, Flow
  <2>3. Chain(body, e) => Chain(body, f) /\ Fed(body, f) = Fed(body, e)
    BY <1>1, <2>1, <2>2, ChainSame
  <2>4. Moves(e, f)
    BY <1>1, <2>1, <2>2, <2>3 DEF Moves, Emptied
  <2> QED
    BY <2>4 DEF e, f
<1> QED
  BY <1>2, <1>3, <1>4

\* The reader takes a block from the pipe, or finds the end of it.
LEMMA ReaderMoves ==
    ASSUME DeliveryInv, _read_stdout
    PROVE  Moves(ffmpeg, ffmpeg')
<1> DEFINE e == ffmpeg
           f == ffmpeg'
<1>1. /\ e \in Encoder /\ body \in Seq(Item) /\ e.proc # "none" /\ e.reader = "on"
      /\ ~e.eof => ~Trailed(e)
  BY EncoderAtWork DEF _read_stdout
<1>2. \/ e.pipe # <<>> /\ f = [e EXCEPT !.buffer = @ \o e.pipe, !.pipe = <<>>]
      \/ e.pipe = <<>> /\ e.proc = "gone" /\ f = [e EXCEPT !.reader = "off"]
  BY DEF _read_stdout
<1> HIDE DEF e, f
<1>3. CASE e.pipe # <<>> /\ f = [e EXCEPT !.buffer = @ \o e.pipe, !.pipe = <<>>]
  <2>1. /\ f \in Encoder
        /\ f.proc = e.proc /\ f.fate = e.fate /\ f.stdin = e.stdin /\ f.eof = e.eof
        /\ f.pipe = <<>> /\ f.buffer = e.buffer \o e.pipe /\ f.reader = e.reader
        /\ f.closed = e.closed
    BY <1>1, <1>3, EncoderReads
  <2>2. Trailed(f) <=> Trailed(e)
    BY <2>1 DEF Trailed
  <2>3. Flow(body, f) = Flow(body, e)
    BY <1>1, <2>1, FlowReads
  <2>4. Chain(body, e) => Chain(body, f) /\ Fed(body, f) = Fed(body, e)
    BY <2>1, <2>2, <2>3, ChainSame
  <2>5. Moves(e, f)
    BY <1>1, <1>3, <2>1, <2>2, <2>3, <2>4 DEF Moves, Emptied
  <2> QED
    BY <2>5 DEF e, f
<1>4. CASE e.pipe = <<>> /\ e.proc = "gone" /\ f = [e EXCEPT !.reader = "off"]
  <2>1. /\ f \in Encoder
        /\ f.proc = e.proc /\ f.fate = e.fate /\ f.stdin = e.stdin /\ f.eof = e.eof
        /\ f.pipe = e.pipe /\ f.buffer = e.buffer /\ f.reader = "off"
        /\ f.closed = e.closed
    BY <1>1, <1>4, EncoderReaderEnds
  <2>2. (Trailed(f) <=> Trailed(e)) /\ Flow(body, f) = Flow(body, e)
    BY <2>1 DEF Trailed, Flow
  <2>3. Chain(body, e) => Chain(body, f) /\ Fed(body, f) = Fed(body, e)
    BY <2>1, <2>2, ChainSame
  <2>4. Moves(e, f)
    BY <1>1, <1>4, <2>1, <2>2, <2>3 DEF Moves, Emptied
  <2> QED
    BY <2>4 DEF e, f
<1> QED
  BY <1>2, <1>3, <1>4

\* Neither of them does harm.
LEMMA StepEncoder ==
    ASSUME DeliveryInv, Ffmpeg \/ FfmpegFails \/ _read_stdout
    PROVE  DeliveryInv'
<1>1. /\ Moves(ffmpeg, ffmpeg')
      /\ UNCHANGED <<route, format, at, workerVars, ended, hand, body, left, stitch>>
  BY FfmpegMoves, FailureMoves, ReaderMoves, Zenon DEF Ffmpeg, FfmpegFails, _read_stdout
<1>2. UNCHANGED <<route, format, at, stream, made, usageRow, ended, hand, body, left, stitch>>
  BY <1>1 DEF workerVars
<1>3. ffmpeg \in Encoder /\ ffmpeg' \in Encoder /\ body \in Seq(Item) /\ format = "ffmpeg"
  BY <1>1 DEF Moves, DeliveryInv, DeliveryTypeOK, ControlOK, NoEncoder
<1>4. ffmpeg # NoEncoder
  BY <1>1 DEF Moves, NoEncoder
<1>5. DeliveryTypeOK'
  BY <1>2, <1>3 DEF DeliveryInv, DeliveryTypeOK
<1>6. ControlOK'
  BY <1>1, <1>2, <1>3 DEF DeliveryInv, ControlOK, Moves
<1>7. StreamRouteOK'
  BY <1>1, <1>2, <1>4 DEF DeliveryInv, StreamRouteOK, Plain, Moves
<1>8. SyncRouteOK'
  <2>1. route = "sync" /\ at = "write" => Emptied(ffmpeg')
    BY <1>1 DEF DeliveryInv, SyncRouteOK, ControlOK, Moves, Emptied
  <2> QED
    BY <1>2, <1>4, <2>1 DEF DeliveryInv, SyncRouteOK, Plain, Emptied
<1>9. BodyOK'
  BY <1>1, <1>2, <1>3 DEF DeliveryInv, BodyOK, AllPlain, Plain, Moves
<1>10. route = "stream" \/ at # "over" => Chain(body, ffmpeg)
  BY <1>3 DEF DeliveryInv, DeliveryTypeOK, BodyOK, Plain
<1>11. InputOK'
  <2>1. Taking' => Taking
    BY <1>1, <1>2 DEF Taking, Moves
  <2>2. Taking' => Fed(body, ffmpeg') = Fed(body, ffmpeg)
    BY <1>1, <1>2, <1>10 DEF Taking, Moves
  <2>3. Taking' => Taken' = Taken
    BY <1>2, <2>2, Zenon DEF Taken, Plain, Lead
  <2> HIDE DEF Taken, Taking
  <2> QED
    BY <1>2, <2>1, <2>2, <2>3 DEF DeliveryInv, InputOK, Plain
<1>12. FinalOK'
  <2>1. ffmpeg'.fate = "well" => ffmpeg.fate = "well"
    BY <1>1 DEF Moves
  <2>2. ffmpeg'.fate = "well" /\ at \in {"drain", "close", "wait", "join"} =>
           Fed(body, ffmpeg') = Fed(body, ffmpeg)
    BY <1>1, <1>10 DEF Moves
  <2>3. Trailed(ffmpeg) => Trailed(ffmpeg') /\ Flow(body, ffmpeg') = Flow(body, ffmpeg)
    BY <1>1 DEF Moves
  <2>4. ffmpeg.proc # "none"
    BY <1>1 DEF Moves
  <2> QED
    BY <1>2, <1>3, <2>1, <2>2, <2>3, <2>4 DEF DeliveryInv, FinalOK, Plain, Lead
<1> QED
  BY <1>5, <1>6, <1>7, <1>8, <1>9, <1>11, <1>12 DEF DeliveryInv

\* While the handler has an encoder the body is part of its chain.
LEMMA HandlerAtWork ==
    ASSUME DeliveryInv, at \in {"write", "drain", "close", "wait", "join"}
    PROVE  /\ ffmpeg \in Encoder /\ body \in Seq(Item) /\ hand \in Seq(Item)
           /\ ffmpeg.proc # "none" /\ format = "ffmpeg" /\ ~Plain /\ route \in {"sync", "stream"}
           /\ ffmpeg # NoEncoder
           /\ Chain(body, ffmpeg)
           /\ ffmpeg.reader = "off" => ffmpeg.pipe = <<>> /\ ffmpeg.proc = "gone"
           /\ ~ffmpeg.eof => ~Trailed(ffmpeg)
           /\ stitch = "none"
  BY DEF DeliveryInv, DeliveryTypeOK, ControlOK, BodyOK, NoEncoder, Plain

\* Close.
LEMMA StepClose ==
    ASSUME DeliveryInv, Close
    PROVE  DeliveryInv'
<1> DEFINE e == ffmpeg
           f == ffmpeg'
<1>1. /\ at = "close" /\ at' = "wait" /\ e \in Encoder
      /\ f = [e EXCEPT !.eof = TRUE, !.closed = TRUE]
      /\ UNCHANGED <<route, format, stream, made, usageRow, ended, hand, body, left, stitch>>
  BY HandlerAtWork DEF Close, workerVars
<1>2. /\ body \in Seq(Item) /\ e.proc # "none" /\ format = "ffmpeg" /\ Chain(body, e)
      /\ e.reader = "off" => e.pipe = <<>> /\ e.proc = "gone"
      /\ stitch = "none" /\ ~Plain
  BY <1>1, HandlerAtWork
<1> HIDE DEF e, f
<1>3. /\ f \in Encoder
      /\ f.proc = e.proc /\ f.fate = e.fate /\ f.stdin = e.stdin /\ f.eof = TRUE
      /\ f.pipe = e.pipe /\ f.buffer = e.buffer /\ f.reader = e.reader
  BY <1>1, EncoderCloses
<1>4. Trailed(f) = Trailed(e) /\ Flow(body, f) = Flow(body, e)
  BY <1>3 DEF Trailed, Flow
<1>5. Chain(body, f) /\ Fed(body, f) = Fed(body, e)
  BY <1>2, <1>3, <1>4, ChainSame
<1>6. DeliveryTypeOK'
  BY <1>1, <1>3 DEF DeliveryInv, DeliveryTypeOK, f
<1>7. ControlOK'
  BY <1>1, <1>2, <1>3 DEF DeliveryInv, ControlOK, e, f
<1>8. StreamRouteOK' /\ SyncRouteOK'
  BY <1>1, <1>2, <1>3 DEF DeliveryInv, StreamRouteOK, SyncRouteOK, Plain, e, f
<1>9. BodyOK'
  BY <1>1, <1>2, <1>5 DEF BodyOK, Plain, f
<1>10. InputOK'
  BY <1>1 DEF DeliveryInv, InputOK, Taking
<1>11. FinalOK'
  BY <1>1, <1>3, <1>5 DEF DeliveryInv, FinalOK, e, f
<1> QED
  BY <1>6, <1>7, <1>8, <1>9, <1>10, <1>11 DEF DeliveryInv

\* Wait: the process has gone or is stuck, so nothing more can come.
LEMMA StepWait ==
    ASSUME DeliveryInv, Wait
    PROVE  DeliveryInv'
<1> DEFINE e == ffmpeg
           f == ffmpeg'
<1>1. /\ at = "wait" /\ at' = "join" /\ e \in Encoder
      /\ f = [e EXCEPT !.proc = "gone"]
      /\ e.proc = "gone" \/ e.fate = "stuck"
      /\ UNCHANGED <<route, format, stream, made, usageRow, ended, hand, body, left, stitch>>
  BY HandlerAtWork DEF Wait, workerVars
<1>2. /\ body \in Seq(Item) /\ e.proc # "none" /\ format = "ffmpeg" /\ Chain(body, e)
      /\ e.reader = "off" => e.pipe = <<>> /\ e.proc = "gone"
      /\ ~e.eof => ~Trailed(e)
      /\ stitch = "none" /\ ~Plain
  BY <1>1, HandlerAtWork
<1> HIDE DEF e, f
<1>3. /\ f \in Encoder
      /\ f.proc = "gone" /\ f.fate = e.fate /\ f.stdin = e.stdin /\ f.eof = e.eof
      /\ f.pipe = e.pipe /\ f.buffer = e.buffer /\ f.reader = e.reader
  BY <1>1, EncoderWaits
<1>4. Trailed(f) = Trailed(e) /\ Flow(body, f) = Flow(body, e)
  BY <1>1, <1>3 DEF Trailed, Flow
<1>5. Chain(body, f) /\ Fed(body, f) = Fed(body, e)
  BY <1>2, <1>3, <1>4, ChainSame
<1>6. DeliveryTypeOK'
  BY <1>1, <1>3 DEF DeliveryInv, DeliveryTypeOK, f
<1>7. ControlOK'
  <2>1. ~f.eof => ~Trailed(f)
    BY <1>2, <1>3, <1>4
  <2> QED
    BY <1>1, <1>2, <1>3, <2>1 DEF DeliveryInv, ControlOK, e, f
<1>8. StreamRouteOK' /\ SyncRouteOK'
  BY <1>1, <1>2, <1>3 DEF DeliveryInv, StreamRouteOK, SyncRouteOK, Plain, e, f
<1>9. BodyOK'
  BY <1>1, <1>2, <1>5 DEF BodyOK, Plain, f
<1>10. InputOK'
  BY <1>1 DEF DeliveryInv, InputOK, Taking
<1>11. FinalOK'
  BY <1>1, <1>3, <1>5 DEF DeliveryInv, FinalOK, e, f
<1> QED
  BY <1>6, <1>7, <1>8, <1>9, <1>10, <1>11 DEF DeliveryInv

\* _drain moves the buffer to the body.
LEMMA DrainMoves ==
    ASSUME DeliveryInv, at \in {"drain", "join"}, _drain
    PROVE  /\ ffmpeg' \in Encoder /\ body' \in Seq(Item)
           /\ Chain(body', ffmpeg') /\ Fed(body', ffmpeg') = Fed(body, ffmpeg)
           /\ Trailed(ffmpeg') = Trailed(ffmpeg)
           /\ ffmpeg'.proc = ffmpeg.proc /\ ffmpeg'.fate = ffmpeg.fate
           /\ ffmpeg'.stdin = ffmpeg.stdin /\ ffmpeg'.eof = ffmpeg.eof
           /\ ffmpeg'.pipe = ffmpeg.pipe /\ ffmpeg'.buffer = <<>>
           /\ ffmpeg'.reader = ffmpeg.reader /\ ffmpeg'.closed = ffmpeg.closed
<1> DEFINE e == ffmpeg
           f == ffmpeg'
<1>1. /\ e \in Encoder /\ body \in Seq(Item) /\ Chain(body, e)
      /\ f = [e EXCEPT !.buffer = <<>>] /\ body' = body \o e.buffer
  BY HandlerAtWork DEF _drain
<1> HIDE DEF e, f
<1>2. /\ f \in Encoder
      /\ f.proc = e.proc /\ f.fate = e.fate /\ f.stdin = e.stdin /\ f.eof = e.eof
      /\ f.pipe = e.pipe /\ f.buffer = <<>> /\ f.reader = e.reader
      /\ f.closed = e.closed
  BY <1>1, EncoderDrains
<1>3. Trailed(f) = Trailed(e)
  BY <1>2 DEF Trailed
<1>4. body' \in Seq(Item)
  BY <1>1, FlowFacts, ConcatProperties
<1>5. Flow(body', f) = Flow(body, e)
  BY <1>1, <1>2, FlowDrain
<1>6. Chain(body', f) /\ Fed(body', f) = Fed(body, e)
  <2> DEFINE c == body'
  <2>1. /\ Chain(body, e) /\ Flow(c, f) = Flow(body, e) /\ (Trailed(f) <=> Trailed(e))
        /\ e.eof => f.eof
        /\ e.stdin = <<>> => f.stdin = <<>>
    BY <1>1, <1>2, <1>3, <1>5
  <2> HIDE DEF c
  <2>2. Chain(c, f) /\ Fed(c, f) = Fed(body, e)
    BY <2>1, ChainSame
  <2> QED
    BY <2>2 DEF c
<1> QED
  BY <1>2, <1>3, <1>4, <1>6 DEF e, f

\* Drain.
LEMMA StepDrain ==
    ASSUME DeliveryInv, Drain
    PROVE  DeliveryInv'
<1>1. /\ at = "drain" /\ at' = IF route = "stream" THEN "read" ELSE "close"
      /\ UNCHANGED <<route, format, stream, made, usageRow, ended, hand, left, stitch>>
      /\ _drain
  BY DEF Drain, workerVars
<1>2. /\ ffmpeg' \in Encoder /\ body' \in Seq(Item)
      /\ Chain(body', ffmpeg') /\ Fed(body', ffmpeg') = Fed(body, ffmpeg)
      /\ Trailed(ffmpeg') = Trailed(ffmpeg)
      /\ ffmpeg'.proc = ffmpeg.proc /\ ffmpeg'.fate = ffmpeg.fate
      /\ ffmpeg'.eof = ffmpeg.eof /\ ffmpeg'.pipe = ffmpeg.pipe
      /\ ffmpeg'.reader = ffmpeg.reader /\ ffmpeg'.closed = ffmpeg.closed
  BY <1>1, DrainMoves
<1>3. /\ ffmpeg.proc # "none" /\ format = "ffmpeg" /\ ~Plain /\ route \in {"sync", "stream"}
      /\ ffmpeg.reader = "off" => ffmpeg.pipe = <<>> /\ ffmpeg.proc = "gone"
      /\ ~ffmpeg.eof => ~Trailed(ffmpeg)
      /\ stitch = "none"
  BY <1>1, HandlerAtWork
<1>4. at' \in {"read", "close"} /\ (at' = "read" <=> route = "stream")
  BY <1>1
<1>5. DeliveryTypeOK'
  BY <1>1, <1>2, <1>4 DEF DeliveryInv, DeliveryTypeOK
<1>6. ControlOK'
  BY <1>1, <1>2, <1>3, <1>4 DEF DeliveryInv, ControlOK
<1>7. StreamRouteOK' /\ SyncRouteOK'
  BY <1>1, <1>2, <1>3, <1>4 DEF DeliveryInv, StreamRouteOK, SyncRouteOK, Plain
<1>8. BodyOK'
  BY <1>1, <1>2, <1>3, <1>4 DEF BodyOK, Plain
<1>9. InputOK'
  <2>1. Taking' => Taking /\ route = "stream"
    BY <1>1, <1>2, <1>4 DEF Taking, DeliveryInv, StreamRouteOK
  <2>2. route = "stream" => Taken' = Taken
    BY <1>1, <1>2, <1>3 DEF Taken, Plain
  <2>3. route = "sync" => at' = "close"
    BY <1>1
  <2> HIDE DEF Taken, Taking
  <2> QED
    BY <1>1, <1>2, <1>3, <2>1, <2>2, <2>3 DEF DeliveryInv, InputOK, Plain
<1>10. FinalOK'
  BY <1>1, <1>2, <1>3, <1>4 DEF DeliveryInv, FinalOK, StreamRouteOK
<1> QED
  BY <1>5, <1>6, <1>7, <1>8, <1>9, <1>10 DEF DeliveryInv

\* When nothing is under way the body is all there is.
LEMMA FlowAll ==
    ASSUME NEW b \in Seq(Item), NEW e, e.buffer = <<>>, e.pipe = <<>>, e.stdin = <<>>
    PROVE  Flow(b, e) = b
<1>1. b \o <<>> = b
  BY ConcatEmptySeq, Zenon
<1> QED
  BY <1>1, Zenon DEF Flow

\* Join: the reader is done, so the drain takes all.
LEMMA StepJoin ==
    ASSUME DeliveryInv, Join
    PROVE  DeliveryInv'
<1>1. /\ at = "join" /\ at' = Over /\ ffmpeg.reader = "off"
      /\ UNCHANGED <<route, format, stream, made, usageRow, ended, hand, left, stitch>>
  BY DEF Join, workerVars
<1>2. /\ ffmpeg \in Encoder /\ body \in Seq(Item)
      /\ ffmpeg.proc # "none" /\ format = "ffmpeg" /\ ~Plain /\ route \in {"sync", "stream"}
      /\ Chain(body, ffmpeg) /\ ffmpeg # NoEncoder
      /\ ffmpeg.pipe = <<>> /\ ffmpeg.proc = "gone"
      /\ ~ffmpeg.eof => ~Trailed(ffmpeg)
      /\ stitch = "none"
  BY <1>1, HandlerAtWork
<1>3. /\ at' \in {"stitch", "over"} /\ (at' = "stitch" <=> route = "stream")
  BY <1>1 DEF Over
<1>4. \/ (left \/ ended = "no") /\ UNCHANGED <<body, ffmpeg>>
      \/ ~left /\ ended # "no" /\ _drain
  BY DEF Join, SendTail
<1>5. /\ ffmpeg' \in Encoder /\ body' \in Seq(Item)
      /\ Chain(body', ffmpeg')
      /\ Trailed(ffmpeg') = Trailed(ffmpeg)
      /\ ffmpeg'.proc = ffmpeg.proc /\ ffmpeg'.fate = ffmpeg.fate
      /\ ffmpeg'.stdin = ffmpeg.stdin /\ ffmpeg'.eof = ffmpeg.eof
      /\ ffmpeg'.pipe = ffmpeg.pipe
      /\ ffmpeg'.reader = ffmpeg.reader /\ ffmpeg'.closed = ffmpeg.closed
      /\ ffmpeg' # NoEncoder
  <2>1. CASE (left \/ ended = "no") /\ UNCHANGED <<body, ffmpeg>>
    BY <1>2, <2>1
  <2>2. CASE ~left /\ ended # "no" /\ _drain
    BY <1>1, <1>2, <2>2, DrainMoves DEF NoEncoder
  <2> QED
    BY <1>4, <2>1, <2>2
<1>6. DeliveryTypeOK'
  BY <1>1, <1>3, <1>5 DEF DeliveryInv, DeliveryTypeOK
<1>7. ControlOK'
  BY <1>1, <1>2, <1>3, <1>5 DEF DeliveryInv, ControlOK
<1>8. StreamRouteOK' /\ SyncRouteOK'
  BY <1>1, <1>2, <1>3, <1>5 DEF DeliveryInv, StreamRouteOK, SyncRouteOK, Plain
<1>9. BodyOK'
  BY <1>1, <1>2, <1>3, <1>5 DEF BodyOK, Plain
<1>10. InputOK'
  BY <1>1, <1>3 DEF DeliveryInv, InputOK, Taking
<1>11. ASSUME ended = "final", ~left, ffmpeg.fate = "well"
       PROVE  Trailed(ffmpeg') /\ Len(body') = Chunks + 1 /\ Flow(body', ffmpeg') = body'
  <2>1. _drain /\ Trailed(ffmpeg) /\ Fed(body, ffmpeg) = Chunks
    BY <1>1, <1>2, <1>4, <1>11 DEF DeliveryInv, FinalOK, Trailed
  <2>2. Fed(body', ffmpeg') = Chunks /\ ffmpeg'.buffer = <<>> /\ Trailed(ffmpeg')
    BY <1>1, <1>5, <2>1, DrainMoves
  <2>3. ffmpeg'.stdin = <<>> /\ ffmpeg'.pipe = <<>>
    BY <1>2, <1>5, <2>2 DEF Chain
  <2>4. Flow(body', ffmpeg') = body'
    BY <1>5, <2>2, <2>3, FlowAll
  <2>5. Len(body') - 1 = Chunks /\ Len(body') \in Nat
    BY <1>5, <2>2, <2>4, LenProperties DEF Fed
  <2>6. Len(body') = Chunks + 1
    BY <2>5, ItemFacts
  <2> QED
    BY <2>2, <2>4, <2>6
<1>12. FinalOK'
  BY <1>1, <1>2, <1>3, <1>5, <1>11 DEF FinalOK, Plain
<1> QED
  BY <1>6, <1>7, <1>8, <1>9, <1>10, <1>12 DEF DeliveryInv

\* Stitch.
LEMMA StepStitch ==
    ASSUME DeliveryInv, Stitch
    PROVE  DeliveryInv'
<1>1. /\ at = "stitch" /\ at' = "over"
      /\ UNCHANGED <<route, format, stream, made, usageRow, ended, hand, ffmpeg, body, left>>
      /\ stitch' \in {"none", "done", "missed", "lost"}
      /\ usageRow => stitch' # "missed"
  BY DEF Stitch, workerVars, UpdateUsage
<1>2. route = "stream"
  BY <1>1 DEF DeliveryInv, DeliveryTypeOK, SyncRouteOK
<1>3. DeliveryTypeOK'
  BY <1>1 DEF DeliveryInv, DeliveryTypeOK
<1>4. ControlOK'
  BY <1>1 DEF DeliveryInv, ControlOK
<1>5. StreamRouteOK' /\ SyncRouteOK'
  BY <1>1, <1>2 DEF DeliveryInv, StreamRouteOK, SyncRouteOK, Plain
<1>6. BodyOK'
  BY <1>1, <1>2 DEF DeliveryInv, BodyOK, Plain, Lead
<1>7. InputOK'
  BY <1>1, <1>2 DEF DeliveryInv, InputOK, Taking
<1>8. FinalOK'
  BY <1>1 DEF DeliveryInv, FinalOK, Plain, Lead
<1> QED
  BY <1>3, <1>4, <1>5, <1>6, <1>7, <1>8 DEF DeliveryInv

\* ClientLeaves: what it was sent stays in order.
LEMMA StepLeaves ==
    ASSUME DeliveryInv, ClientLeaves
    PROVE  DeliveryInv'
<1> DEFINE e == ffmpeg
           f == ffmpeg'
<1>1. /\ route = "stream" /\ ~left /\ at \notin {"stitch", "over"} /\ left' = TRUE
      /\ hand' = <<>> /\ ended' = IF ended = "no" THEN "timeout" ELSE ended
      /\ UNCHANGED <<route, format, stream, made, usageRow, body, stitch>>
      /\ e \in Encoder /\ body \in Seq(Item)
      /\ stitch = "none"
  BY DEF ClientLeaves, workerVars, DeliveryInv, DeliveryTypeOK, ControlOK
<1>2. \/ (e.proc = "none" \/ e.closed) /\ at' = "stitch" /\ f = e
      \/ /\ e.proc # "none" /\ at' \in {"stitch", "wait"}
         /\ f = [e EXCEPT !.eof = TRUE, !.closed = TRUE]
  BY DEF ClientLeaves, CleanUp
<1>3. /\ e.proc = "none" \/ Plain => e = NoEncoder
      /\ e.reader = "off" /\ e.proc # "none" => e.pipe = <<>> /\ e.proc = "gone"
      /\ ~e.eof => ~Trailed(e)
      /\ Plain => Run(body, 0 - Lead)
      /\ ~Plain => Chain(body, e)
  BY <1>1 DEF DeliveryInv, ControlOK, BodyOK, Plain
<1> HIDE DEF e, f
<1>4. /\ f \in Encoder
      /\ f.proc = e.proc /\ f.pipe = e.pipe /\ f.reader = e.reader
      /\ at' \in {"stitch", "wait"} /\ (at' = "wait" => f.proc # "none")
      /\ e = NoEncoder => f = NoEncoder
      /\ ~f.eof => ~Trailed(f)
      /\ Chain(body, e) => Chain(body, f)
  <2>1. CASE (e.proc = "none" \/ e.closed) /\ at' = "stitch" /\ f = e
    BY <1>1, <1>3, <2>1
  <2>2. CASE /\ e.proc # "none" /\ at' \in {"stitch", "wait"}
             /\ f = [e EXCEPT !.eof = TRUE, !.closed = TRUE]
    <3>1. /\ f \in Encoder
          /\ f.proc = e.proc /\ f.fate = e.fate /\ f.stdin = e.stdin /\ f.eof = TRUE
          /\ f.pipe = e.pipe /\ f.buffer = e.buffer /\ f.reader = e.reader
      BY <1>1, <2>2, EncoderCloses
    <3>2. (Trailed(f) <=> Trailed(e)) /\ Flow(body, f) = Flow(body, e)
      BY <3>1 DEF Trailed, Flow
    <3>3. Chain(body, e) => Chain(body, f)
      BY <3>1, <3>2, ChainSame
    <3>4. e # NoEncoder
      BY <2>2 DEF NoEncoder
    <3> QED
      BY <2>2, <3>1, <3>3, <3>4
  <2> QED
    BY <1>2, <2>1, <2>2
<1>5. DeliveryTypeOK'
  BY <1>1, <1>4, EmptySeq DEF DeliveryInv, DeliveryTypeOK, f
<1>6. ControlOK'
  BY <1>1, <1>3, <1>4 DEF DeliveryInv, ControlOK, Plain, f
<1>7. StreamRouteOK' /\ SyncRouteOK'
  BY <1>1, <1>4 DEF StreamRouteOK, SyncRouteOK
<1>8. BodyOK'
  <2>1. Plain => Run(body, 0 - Lead')
    <3>1. CASE at = "start"
      <4>1. body = <<>> /\ 0 - Lead' \in Int
        BY <1>1, <3>1 DEF DeliveryInv, StreamRouteOK, Lead
      <4> QED
        BY <4>1, RunNone
    <3>2. CASE at # "start"
      <4>1. Lead' = Lead
        BY <1>1, <1>4, <3>2 DEF Lead
      <4> QED
        BY <1>3, <4>1
    <3> QED
      BY <3>1, <3>2
  <2> HIDE DEF Lead
  <2> QED
    BY <1>1, <1>3, <1>4, <2>1 DEF BodyOK, Plain, f
<1>9. InputOK'
  BY <1>1, <1>4 DEF DeliveryInv, InputOK, Taking
<1>10. FinalOK'
  BY <1>1 DEF FinalOK
<1> QED
  BY <1>5, <1>6, <1>7, <1>8, <1>9, <1>10 DEF DeliveryInv

\* A header, and the text behind it.
LEMMA WavInOrder ==
    ASSUME NEW h \in Seq(Item), Run(h, 0)
    PROVE  /\ <<Header>> \o h \in Seq(Item)
           /\ Run(<<Header>> \o h, 0 - 1)
           /\ Len(<<Header>> \o h) = Len(h) + 1
<1>1. <<Header>> \in Seq(Item) /\ Len(<<Header>>) = 1 /\ <<Header>>[1] = 0
  BY ItemFacts
<1>2. Run(<<Header>>, 0 - 1)
  BY <1>1 DEF Run
<1>3. Run(h, (0 - 1) + Len(<<Header>>))
  <2>1. (0 - 1) + Len(<<Header>>) = 0
    BY <1>1
  <2> QED
    BY <2>1
<1> DEFINE s == <<Header>>
           a == 0 - 1
<1>4. s \in Seq(Item) /\ Run(s, a) /\ Run(h, a + Len(s)) /\ Len(s) = 1 /\ a \in Int
  BY <1>1, <1>2, <1>3
<1> HIDE DEF s, a
<1>5. Run(s \o h, a)
  BY <1>4, RunCat, ZenonT(60)
<1>6. s \o h \in Seq(Item) /\ Len(s \o h) = Len(s) + Len(h)
  BY <1>4, ConcatProperties, ZenonT(40)
<1>7. Len(h) \in Nat
  BY LenProperties
<1> QED
  BY <1>5, <1>6, <1>7 DEF s, a

\* The fall-back of /v1/tts: all of the PCM in hand behind a header.
LEMMA FallBackSound ==
    ASSUME DeliveryInv, FallBackToWav, route = "sync", at \in {"start", "write"},
           ffmpeg.proc = "none" \/ ffmpeg.fate # "well",
           UNCHANGED <<route, format, stream, made, usageRow, ended, ffmpeg, left, stitch>>
    PROVE  DeliveryInv'
<1>1. /\ at' = "over" /\ body' = <<Header>> \o hand /\ hand' = <<>>
      /\ hand \in Seq(Item) /\ Run(hand, 0)
      /\ ended = "final" /\ ~left /\ Len(hand) = Chunks /\ ~Plain
  BY DEF FallBackToWav, DeliveryInv, DeliveryTypeOK, InputOK, FinalOK, SyncRouteOK, Plain,
         ControlOK, NoEncoder
<1>2. body' \in Seq(Item) /\ Run(body', 0 - 1) /\ Len(body') = Chunks + 1 /\ <<>> \in Seq(Item)
  BY <1>1, WavInOrder, EmptySeq
<1>3. DeliveryTypeOK'
  BY <1>1, <1>2 DEF DeliveryInv, DeliveryTypeOK
<1>4. ControlOK'
  BY <1>1 DEF DeliveryInv, ControlOK
<1>5. StreamRouteOK' /\ SyncRouteOK'
  BY <1>1 DEF DeliveryInv, StreamRouteOK, SyncRouteOK
<1>6. AllPlain'
  BY <1>2 DEF AllPlain
<1>7. BodyOK'
  BY <1>1, <1>6 DEF BodyOK
<1>8. InputOK'
  BY <1>1 DEF DeliveryInv, InputOK, Taking
<1>9. FinalOK'
  BY <1>1 DEF FinalOK
<1> QED
  BY <1>3, <1>4, <1>5, <1>7, <1>8, <1>9 DEF DeliveryInv

\* A new encoder is empty.
LEMMA NothingYet ==
    /\ Flow(<<>>, NoEncoder) = <<>> /\ ~Trailed(NoEncoder)
    /\ Chain(<<>>, NoEncoder) /\ Fed(<<>>, NoEncoder) = 0
<1>1. ~Trailed(NoEncoder) /\ <<>> \in Seq(Item) /\ Len(<<>>) = 0
  BY EmptySeq DEF Trailed, NoEncoder
<1>2. NoEncoder.buffer = <<>> /\ NoEncoder.pipe = <<>> /\ NoEncoder.stdin = <<>>
  BY DEF NoEncoder
<1>3. Flow(<<>>, NoEncoder) = <<>>
  BY <1>1, <1>2, FlowAll
<1>4. Run(<<>>, 0)
  BY RunNone
<1> HIDE DEF Flow, Trailed, NoEncoder
<1> QED
  BY <1>1, <1>3, <1>4 DEF Chain, Fed

\* Start.
LEMMA StepStart ==
    ASSUME DeliveryInv, Start
    PROVE  DeliveryInv'
<1>1. /\ at = "start" /\ route \in {"sync", "stream"}
      /\ UNCHANGED <<route, stream, made, usageRow, ended, left, stitch>>
      /\ body = <<>> /\ ffmpeg = NoEncoder /\ stitch = "none" /\ ~left
      /\ ffmpeg \in Encoder /\ hand \in Seq(Item) /\ body \in Seq(Item)
      /\ route = "stream" => ended = "no" /\ hand = <<>>
      /\ route = "sync" => ended = "final" /\ ~Plain /\ Run(hand, 0)
  BY DEF Start, workerVars, DeliveryInv, DeliveryTypeOK, ControlOK, StreamRouteOK, SyncRouteOK,
         InputOK
<1>2. /\ ffmpeg.proc = "none" /\ ffmpeg.fate = "well" /\ ~ffmpeg.eof /\ ~ffmpeg.closed
      /\ ffmpeg.buffer = <<>> /\ ffmpeg.pipe = <<>> /\ ffmpeg.stdin = <<>>
      /\ ~Trailed(ffmpeg) /\ Fed(body, ffmpeg) = 0 /\ Chain(body, ffmpeg)
      /\ Len(body) = 0
  BY <1>1, NothingYet, EmptySeq DEF NoEncoder
<1>3. route = "stream" => Taking /\ Taken = 0 /\ Follows(stream, 0, made)
  <2>1. route = "stream" => Taking
    BY <1>1, <1>2 DEF Taking
  <2>2. route = "stream" => Taken = 0
    <3>1. route = "stream" => Len(hand) = 0
      BY <1>1, EmptySeq
    <3> QED
      BY <1>1, <1>2, <3>1 DEF Taken, Lead
  <2> HIDE DEF Taking, Taken
  <2> QED
    BY <2>1, <2>2 DEF DeliveryInv, InputOK
<1>4. CASE Plain /\ at' = "read" /\ UNCHANGED <<format, hand, ffmpeg>>
           /\ body' = IF format = "wav" THEN <<Header>> ELSE <<>>
  <2>1. route = "stream"
    BY <1>1, <1>4
  <2>2. /\ body' \in Seq(Item) /\ Run(body', 0 - Lead') /\ Len(body') = Lead'
    <3>1. CASE format = "wav"
      <4>1. body' = <<Header>> /\ Lead' = 1
        BY <1>4, <3>1 DEF Lead
      <4>2. /\ <<Header>> \in Seq(Item) /\ Len(<<Header>>) = 1 /\ Run(<<Header>>, 0 - 1)
        BY ItemFacts DEF Run
      <4> QED
        BY <4>1, <4>2
    <3>2. CASE format # "wav"
      <4>1. body' = <<>> /\ Lead' = 0
        BY <1>4, <3>2 DEF Lead
      <4>2. <<>> \in Seq(Item) /\ Len(<<>>) = 0 /\ Run(<<>>, 0)
        BY RunNone, EmptySeq
      <4>3. 0 - 0 = 0
        OBVIOUS
      <4> QED
        BY <4>1, <4>2, <4>3
    <3> QED
      BY <3>1, <3>2
  <2>3. DeliveryTypeOK'
    BY <1>1, <1>4, <2>2 DEF DeliveryInv, DeliveryTypeOK
  <2>4. ControlOK'
    BY <1>1, <1>2, <1>4 DEF DeliveryInv, ControlOK
  <2>5. StreamRouteOK' /\ SyncRouteOK'
    BY <1>1, <1>4, <2>1 DEF StreamRouteOK, SyncRouteOK, Plain
  <2>6. Lead' \in {0, 1}
    BY DEF Lead
  <2> HIDE DEF Lead
  <2>7. BodyOK'
    BY <1>1, <1>4, <2>1, <2>2, <2>6 DEF BodyOK, Plain
  <2>8. Taken' = 0
    <3>1. Taken' = Len(body') - Lead'
      BY <1>1, <1>4, <2>1 DEF Taken, Plain
    <3>2. Len(body') - Lead' = Lead' - Lead'
      BY <2>2
    <3>3. \A l \in {0, 1} : l - l = 0
      OBVIOUS
    <3> QED
      BY <2>6, <3>1, <3>2, <3>3, Zenon
  <2>9. InputOK'
    BY <1>1, <1>3, <1>4, <2>1, <2>8 DEF DeliveryInv, InputOK, Plain
  <2>10. FinalOK'
    BY <1>1, <2>1 DEF FinalOK
  <2> QED
    BY <2>3, <2>4, <2>5, <2>7, <2>9, <2>10 DEF DeliveryInv
<1>5. CASE /\ ~Plain /\ ffmpeg' = [ffmpeg EXCEPT !.proc = "running", !.reader = "on"]
           /\ at' = IF route = "stream" THEN "read" ELSE "write"
           /\ UNCHANGED <<format, hand, body>>
  <2> DEFINE e == ffmpeg
             f == ffmpeg'
  <2>1. f = [e EXCEPT !.proc = "running", !.reader = "on"] /\ e \in Encoder
    BY <1>1, <1>5
  <2> HIDE DEF e, f
  <2>2. /\ f \in Encoder
        /\ f.proc = "running" /\ f.fate = e.fate /\ f.stdin = e.stdin
        /\ f.eof = e.eof /\ f.pipe = e.pipe /\ f.buffer = e.buffer /\ f.reader = "on"
        /\ f.closed = e.closed
    BY <2>1, EncoderStarts
  <2>3. (Trailed(f) <=> Trailed(e)) /\ Flow(body, f) = Flow(body, e)
    BY <1>2, <2>2 DEF Trailed, Flow, e
  <2>4. Chain(body, f) /\ Fed(body, f) = 0
    BY <1>2, <2>2, <2>3, ChainSame DEF e
  <2>5. /\ f.proc # "gone" /\ f # NoEncoder /\ ~f.eof /\ ~f.closed /\ ~Trailed(f)
        /\ f.buffer = <<>> /\ f.pipe = <<>> /\ f.stdin = <<>>
    BY <1>2, <2>2, <2>3 DEF e, NoEncoder
  <2>6. at' \in {"read", "write"} /\ (at' = "read" <=> route = "stream")
    BY <1>1, <1>5
  <2>7. DeliveryTypeOK'
    BY <1>1, <1>5, <2>2, <2>6 DEF DeliveryInv, DeliveryTypeOK, f
  <2>8. ControlOK'
    BY <1>1, <1>5, <2>2, <2>5, <2>6 DEF DeliveryInv, ControlOK, Plain, f
  <2>9. StreamRouteOK' /\ SyncRouteOK'
    BY <1>1, <1>5, <2>2, <2>5, <2>6 DEF StreamRouteOK, SyncRouteOK, Plain, f
  <2>10. BodyOK'
    BY <1>1, <1>5, <2>4, <2>6 DEF BodyOK, Plain, f
  <2>11. route = "stream" => Taken' = 0
    <3>1. route = "stream" => Len(hand) = 0
      BY <1>1, EmptySeq
    <3> QED
      BY <1>1, <1>5, <2>4, <3>1 DEF Taken, Plain, f
  <2>12. Taking' => route = "stream"
    BY <1>1 DEF Taking
  <2>13. route = "stream" => Run(hand, 0)
    BY <1>1, RunNone
  <2>14. InputOK'
    <3> HIDE DEF Taken, Taking
    <3> QED
      BY <1>1, <1>3, <1>5, <2>4, <2>6, <2>11, <2>12, <2>13 DEF DeliveryInv, InputOK, Plain, f
  <2>15. FinalOK'
    BY <1>1, <1>5, <2>6 DEF DeliveryInv, FinalOK
  <2> QED
    BY <2>7, <2>8, <2>9, <2>10, <2>14, <2>15 DEF DeliveryInv
<1>6. CASE /\ ~Plain /\ route = "stream" /\ format' = "pcm16" /\ at' = "read"
           /\ UNCHANGED <<hand, ffmpeg, body>>
  <2>1. DeliveryTypeOK'
    BY <1>1, <1>6 DEF DeliveryInv, DeliveryTypeOK
  <2>2. ControlOK'
    BY <1>1, <1>2, <1>6 DEF DeliveryInv, ControlOK
  <2>3. StreamRouteOK' /\ SyncRouteOK'
    BY <1>1, <1>6 DEF StreamRouteOK, SyncRouteOK, Plain
  <2>4. Lead' = 0 /\ Plain'
    BY <1>6 DEF Lead, Plain
  <2>5. 0 - 0 = 0
    OBVIOUS
  <2>10. Run(<<>>, 0)
    BY RunNone
  <2>6. BodyOK'
    <3> HIDE DEF Lead, Plain
    <3> QED
      BY <1>1, <1>2, <1>6, <2>4, <2>5, <2>10 DEF BodyOK
  <2>7. Taken' = 0
    <3> HIDE DEF Lead, Plain
    <3> QED
      BY <1>1, <1>2, <1>6, <2>4 DEF Taken
  <2>8. InputOK'
    <3> HIDE DEF Taken, Plain
    <3> QED
      BY <1>1, <1>3, <1>6, <2>4, <2>7 DEF DeliveryInv, InputOK
  <2>9. FinalOK'
    BY <1>1, <1>6 DEF FinalOK
  <2> QED
    BY <2>1, <2>2, <2>3, <2>6, <2>8, <2>9 DEF DeliveryInv
<1>7. CASE /\ ~Plain /\ route = "sync" /\ FallBackToWav /\ UNCHANGED <<format, ffmpeg>>
  BY <1>1, <1>2, <1>7, FallBackSound
<1> QED
  <2>1. \/ Plain /\ at' = "read" /\ UNCHANGED <<format, hand, ffmpeg>>
           /\ body' = IF format = "wav" THEN <<Header>> ELSE <<>>
        \/ /\ ~Plain /\ ffmpeg' = [ffmpeg EXCEPT !.proc = "running", !.reader = "on"]
           /\ at' = IF route = "stream" THEN "read" ELSE "write"
           /\ UNCHANGED <<format, hand, body>>
        \/ /\ ~Plain /\ route = "stream" /\ format' = "pcm16" /\ at' = "read"
           /\ UNCHANGED <<hand, ffmpeg, body>>
        \/ /\ ~Plain /\ route = "sync" /\ FallBackToWav /\ UNCHANGED <<format, ffmpeg>>
    BY Zenon DEF Start
  <2> QED
    BY <1>4, <1>5, <1>6, <1>7, <2>1, Zenon

\* Write: what is in hand comes next, unless the process has died.
LEMMA StepWrite ==
    ASSUME DeliveryInv, Write
    PROVE  DeliveryInv'
<1> DEFINE e == ffmpeg
           f == ffmpeg'
<1>1. /\ at = "write"
      /\ UNCHANGED <<route, format, stream, made, usageRow, ended, left, stitch>>
  BY DEF Write, workerVars
<1>2. /\ e \in Encoder /\ body \in Seq(Item) /\ hand \in Seq(Item)
      /\ e.proc \in {"running", "gone"} /\ format = "ffmpeg" /\ ~Plain
      /\ route \in {"sync", "stream"}
      /\ Chain(body, e)
      /\ e.reader = "off" => e.pipe = <<>> /\ e.proc = "gone"
      /\ stitch = "none"
  BY <1>1, HandlerAtWork DEF Encoder
<1>3. /\ ~left /\ ~e.eof /\ ~e.closed /\ ~Trailed(e)
      /\ route = "stream" => ended = "no"
      /\ route = "sync" => /\ ended = "final" /\ Run(hand, 0) /\ Len(hand) = Chunks
                           /\ body = <<>> /\ e.buffer = <<>> /\ e.pipe = <<>> /\ e.stdin = <<>>
  BY <1>1 DEF DeliveryInv, ControlOK, StreamRouteOK, SyncRouteOK, InputOK, FinalOK
<1>4. route = "stream" /\ e.proc = "running" =>
         Taking /\ Run(hand, Fed(body, e)) /\ Taken = Fed(body, e) + Len(hand)
  <2>1. route = "stream" /\ e.proc = "running" => Taking
    BY <1>1, <1>3 DEF Taking
  <2>2. route = "stream" => Taken = Fed(body, e) + Len(hand)
    BY <1>2 DEF Taken
  <2> HIDE DEF Taken, Taking
  <2> QED
    BY <1>2, <2>1, <2>2 DEF DeliveryInv, InputOK
<1>5. route = "sync" => Fed(body, e) = 0
  <2>1. Len(<<>>) = 0
    BY EmptySeq
  <2>2. route = "sync" => Flow(body, e) = <<>>
    BY <1>2, <1>3, FlowAll
  <2> HIDE DEF Trailed, Flow
  <2> QED
    BY <1>3, <2>1, <2>2 DEF Fed
<1>6. CASE /\ f = [e EXCEPT !.stdin = IF e.proc = "running" THEN @ \o hand ELSE @]
           /\ hand' = <<>> /\ at' = "drain" /\ UNCHANGED body
  <2> HIDE DEF e, f
  <2>1. /\ f \in Encoder
        /\ f.proc = e.proc /\ f.fate = e.fate
        /\ f.stdin = (IF e.proc = "running" THEN e.stdin \o hand ELSE e.stdin)
        /\ f.eof = e.eof /\ f.pipe = e.pipe /\ f.buffer = e.buffer
        /\ f.reader = e.reader /\ f.closed = e.closed
    BY <1>2, <1>6, EncoderWrites
  <2>2. ~Trailed(f)
    BY <1>3, <2>1 DEF Trailed
  <2>3. ASSUME e.proc = "running"
        PROVE  Chain(body, f) /\ Fed(body, f) = Fed(body, e) + Len(hand)
    <3>1. Run(hand, Fed(body, e))
      BY <1>2, <1>3, <1>4, <1>5, <2>3
    <3>2. f.stdin = e.stdin \o hand
      BY <2>1, <2>3
    <3> QED
      BY <1>2, <1>3, <2>1, <2>2, <3>1, <3>2, ChainWrite
  <2>4. ASSUME e.proc = "gone"
        PROVE  Chain(body, f)
    <3>1. Flow(body, f) = Flow(body, e) /\ f.stdin = e.stdin
      BY <2>1, <2>4 DEF Flow
    <3> QED
      BY <1>2, <1>3, <2>1, <2>2, <3>1, ChainSame
  <2>5. e.proc = "gone" => f.fate # "well"
    BY <2>1, <2>2 DEF Trailed
  <2>6. Len(<<>>) = 0 /\ <<>> \in Seq(Item)
    BY EmptySeq
  <2>7. DeliveryTypeOK'
    BY <1>1, <1>6, <2>1, <2>6 DEF DeliveryInv, DeliveryTypeOK, f
  <2>8. ControlOK'
    BY <1>1, <1>2, <1>3, <1>6, <2>1, <2>2 DEF DeliveryInv, ControlOK, e, f
  <2>9. StreamRouteOK' /\ SyncRouteOK'
    BY <1>1, <1>2, <1>3, <1>6, <2>1 DEF StreamRouteOK, SyncRouteOK, Plain, e, f
  <2>10. BodyOK'
    BY <1>1, <1>2, <1>6, <2>3, <2>4 DEF BodyOK, Plain, f
  <2>11. Taking' => route = "stream" /\ e.proc = "running"
    BY <1>1, <1>2, <1>3, <2>1 DEF Taking, f
  <2>12. route = "stream" /\ e.proc = "running" => Taken' = Taken /\ Taken \in Int
    <3>1. route = "stream" => Taken' = Fed(body, f) + Len(hand')
      BY <1>1, <1>2, <1>6 DEF Taken, Plain, f
    <3>2. Fed(body, e) + Len(hand) \in Int /\ Len(hand') = 0
      BY <1>2, <1>6, <2>6, FlowFacts, LenProperties
    <3>3. \A x \in Int : x + 0 = x
      OBVIOUS
    <3> QED
      BY <1>4, <2>3, <3>1, <3>2, <3>3
  <2>13. InputOK'
    <3>1. Run(hand', Fed(body, f))
      <4>1. Fed(body, f) \in Int
        BY <1>2, <2>1, FlowFacts
      <4> QED
        BY <1>6, <4>1, RunNone
    <3> HIDE DEF Taken, Taking
    <3> QED
      BY <1>1, <1>4, <1>6, <2>11, <2>12, <3>1 DEF DeliveryInv, InputOK, f
  <2>14. route = "sync" /\ f.fate = "well" => Fed(body, f) = Chunks
    <3>1. route = "sync" /\ f.fate = "well" => e.proc = "running"
      BY <1>2, <2>5
    <3>2. 0 + Chunks = Chunks
      BY ItemFacts
    <3> QED
      BY <1>3, <1>5, <2>3, <3>1, <3>2
  <2>15. FinalOK'
    BY <1>1, <1>2, <1>3, <1>6, <2>14 DEF FinalOK, Plain, f
  <2> QED
    BY <2>7, <2>8, <2>9, <2>10, <2>13, <2>15 DEF DeliveryInv
<1>7. CASE /\ e.proc = "gone" /\ route = "sync" /\ FallBackToWav /\ UNCHANGED ffmpeg
  <2>1. e.fate # "well"
    BY <1>3, <1>7 DEF Trailed
  <2> QED
    BY <1>1, <1>7, <2>1, FallBackSound
<1>8. CASE /\ e.proc = "gone" /\ route # "sync" /\ at' = "close" /\ hand' = <<>>
           /\ UNCHANGED <<body, ffmpeg>>
  <2>1. route = "stream"
    BY <1>2, <1>8
  <2>2. DeliveryTypeOK'
    BY <1>1, <1>8, EmptySeq DEF DeliveryInv, DeliveryTypeOK
  <2>3. ControlOK'
    BY <1>1, <1>8 DEF DeliveryInv, ControlOK
  <2>4. StreamRouteOK' /\ SyncRouteOK'
    BY <1>1, <1>2, <1>8, <2>1 DEF DeliveryInv, StreamRouteOK, SyncRouteOK, Plain
  <2>5. BodyOK'
    BY <1>1, <1>2, <1>8, <2>1 DEF BodyOK, Plain
  <2>6. InputOK'
    BY <1>1, <1>8, <2>1 DEF DeliveryInv, InputOK, Taking
  <2>7. FinalOK'
    BY <1>1, <1>3, <2>1 DEF FinalOK
  <2> QED
    BY <2>2, <2>3, <2>4, <2>5, <2>6, <2>7 DEF DeliveryInv
<1> QED
  <2>1. \/ /\ f = [e EXCEPT !.stdin = IF e.proc = "running" THEN @ \o hand ELSE @]
           /\ hand' = <<>> /\ at' = "drain" /\ UNCHANGED body
        \/ /\ e.proc = "gone" /\ route = "sync" /\ FallBackToWav /\ UNCHANGED ffmpeg
        \/ /\ e.proc = "gone" /\ route # "sync" /\ at' = "close" /\ hand' = <<>>
           /\ UNCHANGED <<body, ffmpeg>>
    BY Zenon DEF Write
  <2> QED
    BY <1>6, <1>7, <1>8, <2>1, Zenon

-----------------------------------------------------------------------------
(* Reading.                                                                *)

\* What the handler knows when it reads.
LEMMA ReadingFacts ==
    ASSUME DeliveryInv, Read
    PROVE  /\ at = "read" /\ route \in {"sync", "stream"}
           /\ UNCHANGED <<route, format, made, usageRow, ffmpeg, left, stitch>>
           /\ body \in Seq(Item) /\ hand \in Seq(Item) /\ ffmpeg \in Encoder
           /\ ended = "no" /\ ~left /\ stitch = "none"
           /\ ~ffmpeg.eof /\ ~ffmpeg.closed /\ ~Trailed(ffmpeg)
           /\ route = "stream" => hand = <<>>
           /\ route = "stream" /\ ~Plain => Chain(body, ffmpeg) /\ ffmpeg.proc # "none"
           /\ route = "stream" /\ Plain => Run(body, 0 - Lead) /\ Len(body) >= Lead
           /\ route = "sync" => body = <<>> /\ ffmpeg = NoEncoder /\ Run(hand, 0)
           /\ Plain => ffmpeg = NoEncoder
           /\ ffmpeg.proc # "gone" => Taking
           /\ stream \in Seq(Entry) /\ made \in 0..Chunks
<1>1. /\ at = "read"
      /\ UNCHANGED <<route, format, made, usageRow, ffmpeg, left, stitch>>
  BY DEF Read
<1>2. /\ route \in {"sync", "stream"}
      /\ body \in Seq(Item) /\ hand \in Seq(Item) /\ ffmpeg \in Encoder
      /\ stream \in Seq(Entry) /\ made \in 0..Chunks
  BY DEF DeliveryInv, DeliveryTypeOK, Entry
<1>3. /\ ended = "no" /\ ~left /\ stitch = "none"
      /\ ~ffmpeg.eof /\ ~ffmpeg.closed /\ ~Trailed(ffmpeg)
      /\ route = "stream" => hand = <<>>
      /\ route = "stream" /\ ~Plain => ffmpeg.proc # "none"
      /\ route = "sync" => body = <<>> /\ ffmpeg = NoEncoder
      /\ Plain => ffmpeg = NoEncoder
  BY <1>1, <1>2 DEF DeliveryInv, ControlOK, StreamRouteOK, SyncRouteOK, Plain
<1>4. /\ route = "stream" /\ ~Plain => Chain(body, ffmpeg)
      /\ route = "stream" /\ Plain => Run(body, 0 - Lead) /\ Len(body) >= Lead
      /\ route = "sync" => Run(hand, 0)
  <2> HIDE DEF Lead
  <2> QED
    BY <1>1 DEF DeliveryInv, BodyOK, InputOK
<1>5. ffmpeg.proc # "gone" => Taking
  BY <1>1, <1>3 DEF Taking
<1> QED
  BY <1>1, <1>2, <1>3, <1>4, <1>5

\* Taking one entry off the stream leaves the worker's part of the input as it is.
LEMMA InputTail ==
    ASSUME DeliveryInv, stream # <<>>, Head(stream) = Failed => ended' = "error",
           stream' = Tail(stream), ended = "no", UNCHANGED <<made, usageRow>>
    PROVE  /\ usageRow => made = Chunks \/ Has(stream', Failed) \/ ended' = "error"
           /\ Has(stream', Final) => usageRow /\ made = Chunks
           /\ Head(stream) = Final => usageRow /\ made = Chunks
           /\ stream' \in Seq(Item \cup {Final, Failed})
<1>1. stream \in Seq(Entry)
  BY DEF DeliveryInv, DeliveryTypeOK, Entry
<1>2. \A y : Has(stream, y) <=> Head(stream) = y \/ Has(Tail(stream), y)
  BY <1>1, HasTail
<1>3. /\ usageRow => made = Chunks \/ Has(stream, Failed) \/ ended = "error"
      /\ Has(stream, Final) => usageRow /\ made = Chunks
  BY DEF DeliveryInv, InputOK
<1>4. Tail(stream) \in Seq(Entry)
  BY <1>1, HeadTailProperties
<1> QED
  BY <1>2, <1>3, <1>4 DEF Entry

\* A sentence is the next one, and goes behind what was taken before.
LEMMA StepTake ==
    ASSUME DeliveryInv, Read, stream # <<>>, stream' = Tail(stream),
           Head(stream) > 0, TakeChunk(Head(stream))
    PROVE  DeliveryInv'
<1> DEFINE c == Head(stream)
<1>1. /\ at = "read" /\ route \in {"sync", "stream"}
      /\ UNCHANGED <<route, format, made, usageRow, ended, ffmpeg, left, stitch>>
      /\ body \in Seq(Item) /\ hand \in Seq(Item) /\ ffmpeg \in Encoder
      /\ ended = "no" /\ ~left /\ stitch = "none"
  BY ReadingFacts DEF TakeChunk
<1>2. /\ ~ffmpeg.eof /\ ~ffmpeg.closed /\ ~Trailed(ffmpeg)
      /\ route = "stream" => hand = <<>>
      /\ route = "stream" /\ ~Plain => Chain(body, ffmpeg) /\ ffmpeg.proc # "none"
      /\ route = "stream" /\ Plain => Run(body, 0 - Lead) /\ Len(body) >= Lead
      /\ route = "sync" => body = <<>> /\ ffmpeg = NoEncoder /\ Run(hand, 0)
      /\ Plain => ffmpeg = NoEncoder
      /\ ffmpeg.proc # "gone" => Taking
      /\ stream \in Seq(Entry) /\ made \in Nat
  BY ReadingFacts
<1>3. c \in Item /\ stream' \in Seq(Entry)
  <2>1. c \in Entry /\ Tail(stream) \in Seq(Entry)
    BY <1>2, HeadTailProperties
  <2> QED
    BY <2>1 DEF Entry, Final, Failed
<1>4. /\ usageRow => made = Chunks \/ Has(stream', Failed) \/ ended' = "error"
      /\ Has(stream', Final) => usageRow /\ made = Chunks
  <2>1. Head(stream) # Failed
    BY DEF Failed
  <2> QED
    BY <1>1, <2>1, InputTail
<1>5. Taking => c = Taken + 1 /\ Follows(stream', Taken + 1, made) /\ Taken \in Nat
  <2>1. Taking => Taken \in Nat /\ Follows(stream, Taken, made)
    BY TakenType DEF DeliveryInv, InputOK
  <2> HIDE DEF Taken, Taking
  <2> QED
    BY <1>2, <2>1, FollowsTail
<1>6. NoEncoder.proc = "none"
  BY DEF NoEncoder
<1> HIDE DEF c
<1>7. CASE route = "sync"
  <2>1. hand' = Append(hand, c) /\ UNCHANGED <<at, body>>
    BY <1>7 DEF TakeChunk, c
  <2>2. Taking /\ Taken = Len(hand)
    BY <1>2, <1>6, <1>7 DEF Taken
  <2>3. c = Len(hand) + 1 /\ Follows(stream', Len(hand) + 1, made) /\ Len(hand) \in Nat
    <3> HIDE DEF Taking, Taken
    <3> QED
      BY <1>5, <2>2
  <2>4. hand' \in Seq(Item) /\ Len(hand') = Len(hand) + 1 /\ Run(hand', 0)
    <3>1. c = 0 + Len(hand) + 1
      BY <2>3
    <3> QED
      BY <1>1, <1>2, <1>3, <1>7, <2>1, <3>1, RunAppend, Appended
  <2>5. DeliveryTypeOK'
    BY <1>1, <1>3, <2>1, <2>4 DEF DeliveryInv, DeliveryTypeOK, Entry
  <2>6. ControlOK'
    BY <1>1, <2>1 DEF DeliveryInv, ControlOK
  <2>7. StreamRouteOK' /\ SyncRouteOK'
    BY <1>1, <1>7, <2>1 DEF DeliveryInv, StreamRouteOK, SyncRouteOK, Plain
  <2>8. BodyOK'
    BY <1>1, <1>7, <2>1 DEF DeliveryInv, BodyOK
  <2>9. Taken' = Len(hand) + 1 /\ Len(hand) + 1 >= 0
    BY <1>1, <1>7, <2>3, <2>4 DEF Taken
  <2>10. InputOK'
    <3> HIDE DEF Taken, Taking
    <3> QED
      BY <1>1, <1>4, <1>7, <2>3, <2>4, <2>9 DEF InputOK
  <2>11. FinalOK'
    BY <1>1 DEF FinalOK
  <2> QED
    BY <2>5, <2>6, <2>7, <2>8, <2>10, <2>11 DEF DeliveryInv
<1>8. CASE route = "stream" /\ Plain
  <2>1. body' = Append(body, c) /\ UNCHANGED <<at, hand>>
    BY <1>8 DEF TakeChunk, c
  <2>2. PICK n \in Nat, l \in {0, 1} : n = Len(body) /\ l = Lead
    BY <1>1, LenProperties DEF Lead
  <2>3. Taking /\ Taken = n - l /\ Lead' = l
    BY <1>1, <1>2, <1>6, <1>8, <2>1, <2>2 DEF Taken, Lead
  <2>4. c = (n - l) + 1 /\ Follows(stream', (n - l) + 1, made) /\ n >= l
    <3> HIDE DEF Taking, Taken, Lead
    <3> QED
      BY <1>2, <1>5, <1>8, <2>2, <2>3
  <2>5. body' \in Seq(Item) /\ Len(body') = n + 1 /\ Run(body', 0 - l)
    <3>1. c = (0 - l) + n + 1 /\ 0 - l \in Int
      BY <2>4
    <3>2. Run(body, 0 - l)
      BY <1>2, <1>8, <2>2
    <3> QED
      BY <1>1, <1>3, <2>1, <2>2, <3>1, <3>2, RunAppend, Appended
  <2>6. DeliveryTypeOK'
    BY <1>1, <1>3, <2>1, <2>5 DEF DeliveryInv, DeliveryTypeOK, Entry
  <2>7. ControlOK'
    BY <1>1, <2>1 DEF DeliveryInv, ControlOK
  <2>8. StreamRouteOK' /\ SyncRouteOK'
    BY <1>1, <1>2, <1>8, <2>1 DEF StreamRouteOK, SyncRouteOK, Plain
  <2>9. n + 1 >= l /\ (n + 1) - l = (n - l) + 1 /\ (n - l) + 1 >= 0
    BY <2>4
  <2> HIDE DEF Lead
  <2>10. BodyOK'
    BY <1>1, <1>8, <2>1, <2>3, <2>5, <2>9 DEF BodyOK, Plain
  <2>11. Taken' = (n - l) + 1
    <3>1. Taken' = Len(body') - Lead'
      BY <1>1, <1>8 DEF Taken, Plain
    <3> QED
      BY <2>3, <2>5, <2>9, <3>1
  <2>12. InputOK'
    <3> HIDE DEF Taken, Taking
    <3> QED
      BY <1>1, <1>4, <1>8, <2>4, <2>9, <2>11 DEF InputOK, Plain
  <2>13. FinalOK'
    BY <1>1 DEF FinalOK
  <2> QED
    BY <2>6, <2>7, <2>8, <2>10, <2>12, <2>13 DEF DeliveryInv
<1>9. CASE route = "stream" /\ ~Plain
  <2>1. hand' = <<c>> /\ at' = "write" /\ UNCHANGED body
    BY <1>9 DEF TakeChunk, c
  <2>2. hand' \in Seq(Item) /\ Len(hand') = 1 /\ hand'[1] = c
    BY <1>3, <2>1
  <2>3. PICK n \in Int : n = Fed(body, ffmpeg)
    BY <1>1, FlowFacts
  <2>4. Taken = n
    <3>1. Taken = n + Len(hand) /\ Len(hand) = 0
      BY <1>2, <1>9, <2>3, EmptySeq DEF Taken
    <3> QED
      BY <3>1
  <2>5. Taking => c = n + 1 /\ Follows(stream', n + 1, made) /\ n >= 0
    <3> HIDE DEF Taking, Taken
    <3> QED
      BY <1>5, <2>4
  <2>6. Taken' = n + 1
    <3>1. Taken' = n + Len(hand')
      BY <1>1, <1>9, <2>1, <2>3 DEF Taken, Plain
    <3> QED
      BY <2>2, <3>1
  <2>7. Taking => Run(hand', n)
    BY <2>2, <2>5 DEF Run
  <2>8. Taking' => Taking
    BY <1>1, <1>2 DEF Taking
  <2>9. DeliveryTypeOK'
    BY <1>1, <1>3, <2>1, <2>2 DEF DeliveryInv, DeliveryTypeOK, Entry
  <2>10. ControlOK'
    BY <1>1, <1>2, <1>9, <2>1 DEF DeliveryInv, ControlOK
  <2>11. StreamRouteOK' /\ SyncRouteOK'
    BY <1>1, <1>2, <1>9, <2>1 DEF StreamRouteOK, SyncRouteOK, Plain
  <2>12. BodyOK'
    BY <1>1, <1>2, <1>9, <2>1 DEF BodyOK, Plain
  <2>13. InputOK'
    <3>1. n >= 0 => n + 1 >= 0
      OBVIOUS
    <3> HIDE DEF Taken, Taking
    <3> QED
      BY <1>1, <1>4, <1>9, <2>1, <2>3, <2>5, <2>6, <2>7, <2>8, <3>1 DEF InputOK, Plain
  <2>14. FinalOK'
    BY <1>1 DEF FinalOK
  <2> QED
    BY <2>9, <2>10, <2>11, <2>12, <2>13, <2>14 DEF DeliveryInv
<1> QED
  BY <1>1, <1>7, <1>8, <1>9

\* The reading ends: what was taken is all there is, if it is by the final marker.
LEMMA StepStop ==
    ASSUME DeliveryInv, Read, NEW how \in {"final", "error", "timeout"}, StopReading(how),
           stream' \in Seq(Entry),
           usageRow => made = Chunks \/ Has(stream', Failed) \/ how = "error",
           Has(stream', Final) => usageRow /\ made = Chunks,
           how = "final" => usageRow /\ (Taking => Taken = Chunks)
    PROVE  DeliveryInv'
<1>1. /\ at = "read" /\ route \in {"sync", "stream"}
      /\ UNCHANGED <<route, format, made, usageRow, ffmpeg, left, stitch>>
      /\ body \in Seq(Item) /\ hand \in Seq(Item) /\ ffmpeg \in Encoder
      /\ ended = "no" /\ ended' = how /\ ~left /\ stitch = "none"
  BY ReadingFacts DEF StopReading
<1>2. /\ ~ffmpeg.eof /\ ~ffmpeg.closed /\ ~Trailed(ffmpeg)
      /\ route = "stream" => hand = <<>>
      /\ route = "stream" /\ ~Plain => Chain(body, ffmpeg) /\ ffmpeg.proc # "none"
      /\ route = "stream" /\ Plain => Run(body, 0 - Lead) /\ Len(body) >= Lead
      /\ route = "sync" => body = <<>> /\ ffmpeg = NoEncoder /\ Run(hand, 0)
      /\ Plain => ffmpeg = NoEncoder
      /\ ffmpeg.proc # "gone" => Taking
      /\ made \in 0..Chunks
  BY ReadingFacts
<1>3. NoEncoder.proc = "none" /\ Chain(<<>>, NoEncoder)
  BY NothingYet DEF NoEncoder
<1>4. at' # "read" /\ at' # "write" /\ at' # "drain" /\ ended' # "no"
  BY <1>1 DEF StopReading, Over
<1>5. ~Taking'
  BY <1>4 DEF Taking
<1>6. /\ usageRow' => made' = Chunks \/ Has(stream', Failed) \/ ended' = "error"
      /\ Has(stream', Final) => usageRow' /\ made' = Chunks
  BY <1>1
<1>7. how = "final" => usageRow'
  BY <1>1
<1>8. CASE route = "stream" /\ Plain
  <2>1. at' = "stitch" /\ UNCHANGED <<hand, body>>
    BY <1>8 DEF StopReading, Over
  <2>2. Lead' = Lead
    BY <1>1, <2>1 DEF Lead
  <2>3. how = "final" => Len(body) = Chunks + Lead
    <3>1. PICK n \in Nat, l \in {0, 1} : n = Len(body) /\ l = Lead
      BY <1>1, LenProperties DEF Lead
    <3>2. Taking /\ Taken = n - l
      BY <1>1, <1>2, <1>3, <1>8, <3>1 DEF Taken
    <3>3. how = "final" => n - l = Chunks
      <4> HIDE DEF Taken, Taking
      <4> QED
        BY <3>2
    <3>4. how = "final" => n = Chunks + l
      BY <3>3, ItemFacts
    <3> QED
      BY <3>1, <3>4
  <2>4. DeliveryTypeOK'
    BY <1>1, <2>1 DEF DeliveryInv, DeliveryTypeOK, Entry
  <2>5. ControlOK'
    BY <1>1, <1>2, <1>3, <1>7, <2>1 DEF DeliveryInv, ControlOK
  <2>6. StreamRouteOK' /\ SyncRouteOK'
    BY <1>1, <1>8, <2>1 DEF StreamRouteOK, SyncRouteOK, Plain
  <2> HIDE DEF Lead
  <2>7. BodyOK'
    BY <1>1, <1>2, <1>8, <2>1, <2>2 DEF BodyOK, Plain
  <2>8. InputOK'
    BY <1>1, <1>5, <1>6, <1>8 DEF InputOK
  <2>9. FinalOK'
    BY <1>1, <1>2, <1>3, <1>8, <2>1, <2>2, <2>3 DEF FinalOK, Plain
  <2> QED
    BY <2>4, <2>5, <2>6, <2>7, <2>8, <2>9 DEF DeliveryInv
<1>9. CASE route = "stream" /\ ~Plain
  <2>1. at' = "close" /\ UNCHANGED <<hand, body>>
    BY <1>9 DEF StopReading
  <2>2. how = "final" /\ ffmpeg.fate = "well" => Fed(body, ffmpeg) = Chunks
    <3>1. ffmpeg.fate = "well" => Taking
      BY <1>2 DEF Trailed
    <3>2. PICK n \in Int : n = Fed(body, ffmpeg)
      BY <1>1, FlowFacts
    <3>3. Taken = n
      <4>1. Taken = n + Len(hand) /\ Len(hand) = 0
        BY <1>2, <1>9, <3>2, EmptySeq DEF Taken
      <4> QED
        BY <4>1
    <3> HIDE DEF Taken, Taking
    <3> QED
      BY <3>1, <3>2, <3>3
  <2>3. DeliveryTypeOK'
    BY <1>1, <2>1 DEF DeliveryInv, DeliveryTypeOK, Entry
  <2>4. ControlOK'
    BY <1>1, <1>2, <1>7, <1>9, <2>1 DEF DeliveryInv, ControlOK
  <2>5. StreamRouteOK' /\ SyncRouteOK'
    BY <1>1, <1>2, <1>9, <2>1 DEF StreamRouteOK, SyncRouteOK, Plain
  <2>6. BodyOK'
    BY <1>1, <1>2, <1>9, <2>1 DEF BodyOK, Plain
  <2>7. InputOK'
    BY <1>1, <1>5, <1>6, <1>9 DEF InputOK
  <2>8. FinalOK'
    BY <1>1, <1>9, <2>1, <2>2 DEF FinalOK, Plain
  <2> QED
    BY <2>3, <2>4, <2>5, <2>6, <2>7, <2>8 DEF DeliveryInv
<1>10. CASE route = "sync" /\ how # "final"
  <2>1. at' = "over" /\ UNCHANGED <<hand, body>>
    BY <1>10 DEF StopReading
  <2>2. DeliveryTypeOK'
    BY <1>1, <2>1 DEF DeliveryInv, DeliveryTypeOK, Entry
  <2>3. ControlOK'
    BY <1>1, <1>2, <1>10, <2>1 DEF DeliveryInv, ControlOK
  <2>4. StreamRouteOK' /\ SyncRouteOK'
    BY <1>1, <1>10, <2>1 DEF StreamRouteOK, SyncRouteOK
  <2>5. BodyOK'
    BY <1>1, <1>2, <1>3, <1>10, <2>1 DEF BodyOK
  <2>6. InputOK'
    BY <1>1, <1>5, <1>6, <2>1 DEF InputOK
  <2>7. FinalOK'
    BY <1>1, <1>10 DEF FinalOK
  <2> QED
    BY <2>2, <2>3, <2>4, <2>5, <2>6, <2>7 DEF DeliveryInv
<1>11. ASSUME route = "sync", how = "final"
       PROVE  Len(hand) = Chunks
  <2>1. Taking /\ Taken = Len(hand)
    BY <1>2, <1>3, <1>11 DEF Taken
  <2> HIDE DEF Taken, Taking
  <2> QED
    BY <1>11, <2>1
<1>12. CASE route = "sync" /\ how = "final" /\ ~Plain
  <2>1. at' = "start" /\ UNCHANGED <<hand, body>>
    BY <1>12 DEF StopReading
  <2>2. DeliveryTypeOK'
    BY <1>1, <2>1 DEF DeliveryInv, DeliveryTypeOK, Entry
  <2>3. ControlOK'
    BY <1>1, <1>2, <1>7, <1>12, <2>1 DEF DeliveryInv, ControlOK
  <2>4. StreamRouteOK' /\ SyncRouteOK'
    BY <1>1, <1>2, <1>12, <2>1 DEF StreamRouteOK, SyncRouteOK, Plain
  <2>5. BodyOK'
    BY <1>1, <1>2, <1>3, <1>12, <2>1 DEF BodyOK
  <2>6. InputOK'
    BY <1>1, <1>2, <1>5, <1>6, <1>12, <2>1 DEF InputOK
  <2>7. FinalOK'
    BY <1>1, <1>11, <1>12, <2>1 DEF FinalOK
  <2> QED
    BY <2>2, <2>3, <2>4, <2>5, <2>6, <2>7 DEF DeliveryInv
<1>13. CASE route = "sync" /\ how = "final" /\ Plain
  <2>1. /\ at' = "over" /\ hand' = <<>>
        /\ body' = (IF format = "wav" THEN <<Header>> ELSE <<>>) \o hand
    BY <1>13 DEF StopReading
  <2>2. /\ body' \in Seq(Item)
        /\ \E lead \in {0, 1} : Run(body', 0 - lead) /\ Len(body') = Chunks + lead
    <3>1. CASE format = "wav"
      <4>1. body' = <<Header>> \o hand /\ Len(hand) = Chunks
        BY <1>11, <1>13, <2>1, <3>1
      <4> QED
        BY <1>1, <1>2, <1>13, <4>1, WavInOrder
    <3>2. CASE format # "wav"
      <4>1. body' = hand /\ Len(hand) = Chunks
        BY <1>1, <1>11, <1>13, <2>1, <3>2, ConcatEmptySeq
      <4>2. 0 - 0 = 0 /\ Chunks + 0 = Chunks
        BY ItemFacts
      <4>3. Run(body', 0 - 0) /\ Len(body') = Chunks + 0 /\ body' \in Seq(Item)
        BY <1>1, <1>2, <1>13, <4>1, <4>2
      <4> QED
        BY <4>3
    <3> QED
      BY <3>1, <3>2
  <2>3. DeliveryTypeOK'
    BY <1>1, <2>1, <2>2, EmptySeq DEF DeliveryInv, DeliveryTypeOK, Entry
  <2>4. ControlOK'
    BY <1>1, <1>2, <1>3, <1>7, <2>1 DEF DeliveryInv, ControlOK
  <2>5. StreamRouteOK' /\ SyncRouteOK'
    BY <1>1, <1>13, <2>1 DEF StreamRouteOK, SyncRouteOK
  <2>6. AllPlain'
    BY <2>2 DEF AllPlain
  <2>7. BodyOK'
    BY <1>1, <1>2, <1>3, <1>13, <2>1, <2>6 DEF BodyOK
  <2>8. InputOK'
    BY <1>1, <1>5, <1>6, <2>1 DEF InputOK
  <2>9. FinalOK'
    BY <1>1, <1>2, <1>3, <1>13, <2>1 DEF FinalOK
  <2> QED
    BY <2>3, <2>4, <2>5, <2>7, <2>8, <2>9 DEF DeliveryInv
<1> QED
  BY <1>1, <1>8, <1>9, <1>10, <1>12, <1>13

\* The handler reads the stream: a sentence, a marker, or that the client has left.
LEMMA StepRead ==
    ASSUME DeliveryInv, Read
    PROVE  DeliveryInv'
<1>1. stream \in Seq(Entry) /\ made \in Nat /\ ended = "no" /\ UNCHANGED <<made, usageRow>>
  BY ReadingFacts
<1>2. Final # Failed
  BY DEF Final, Failed
<1>3. ASSUME stream # <<>>, stream' = Tail(stream), Head(stream) = Final, StopReading("final")
      PROVE  DeliveryInv'
  <2>1. /\ usageRow => made = Chunks \/ Has(stream', Failed) \/ ended' = "error"
        /\ Has(stream', Final) => usageRow /\ made = Chunks
        /\ usageRow /\ made = Chunks
    BY <1>1, <1>2, <1>3, InputTail
  <2>2. Taking => Taken = Chunks
    <3>1. Taking => Taken \in Nat /\ Follows(stream, Taken, made)
      BY TakenType DEF DeliveryInv, InputOK
    <3> HIDE DEF Taken, Taking
    <3> QED
      BY <1>1, <1>3, <2>1, <3>1, FollowsTail
  <2>3. stream' \in Seq(Entry)
    BY <1>1, <1>3, HeadTailProperties
  <2> QED
    BY <1>3, <2>1, <2>2, <2>3, StepStop
<1>4. ASSUME stream # <<>>, stream' = Tail(stream), Head(stream) = Failed, StopReading("error")
      PROVE  DeliveryInv'
  <2>1. ended' = "error"
    BY <1>4 DEF StopReading
  <2>2. Has(stream', Final) => usageRow /\ made = Chunks
    BY <1>1, <1>4, <2>1, InputTail
  <2>3. stream' \in Seq(Entry)
    BY <1>1, <1>4, HeadTailProperties
  <2> QED
    BY <1>4, <2>2, <2>3, StepStop
<1>5. ASSUME StopReading("timeout"), UNCHANGED stream
      PROVE  DeliveryInv'
  <2>1. /\ usageRow => made = Chunks \/ Has(stream', Failed) \/ ended = "error"
        /\ Has(stream', Final) => usageRow /\ made = Chunks
    BY <1>5 DEF DeliveryInv, InputOK
  <2>2. stream' \in Seq(Entry)
    BY <1>1, <1>5
  <2> QED
    BY <1>1, <1>5, <2>1, <2>2, StepStop
<1>6. ASSUME stream # <<>>, stream' = Tail(stream), Head(stream) > 0, TakeChunk(Head(stream))
      PROVE  DeliveryInv'
  BY <1>6, StepTake
<1> QED
  BY <1>3, <1>4, <1>5, <1>6, Zenon DEF Read

-----------------------------------------------------------------------------
(* The theorem.                                                            *)

\* A request begins with nothing sent and nothing published.
LEMMA InitDelivery ==
    ASSUME DeliveryInit
    PROVE  DeliveryInv
<1>1. /\ body = <<>> /\ ffmpeg = NoEncoder /\ hand = <<>> /\ stream = <<>> /\ made = 0
      /\ ended = "no" /\ ~left /\ stitch = "none" /\ ~usageRow /\ route \in {"sync", "stream"}
      /\ at = IF route = "stream" THEN "start" ELSE "read"
  BY DEF DeliveryInit
<1>2. <<>> \in Seq(Item) /\ <<>> \in Seq(Entry) /\ Len(<<>>) = 0 /\ Run(<<>>, 0)
  BY EmptySeq, RunNone
<1>3. /\ Chain(body, ffmpeg) /\ Fed(body, ffmpeg) = 0 /\ ~Trailed(ffmpeg)
      /\ ffmpeg.proc = "none" /\ ffmpeg.eof = FALSE /\ ffmpeg.closed = FALSE
  BY <1>1, NothingYet DEF NoEncoder
<1>4. DeliveryTypeOK
  <2>1. NoEncoder \in Encoder
    BY <1>2 DEF NoEncoder, Encoder
  <2> QED
    <3>1. 0 \in 0..Chunks
      BY ItemFacts
    <3>2. format \in {"wav", "pcm16", "ffmpeg"} /\ usageRow \in BOOLEAN /\ left \in BOOLEAN
      BY DEF DeliveryInit
    <3> QED
      BY <1>1, <1>2, <2>1, <3>1, <3>2 DEF DeliveryTypeOK, Entry
<1>5. ControlOK
  BY <1>1, <1>3 DEF ControlOK
<1>6. StreamRouteOK /\ SyncRouteOK
  BY <1>1 DEF StreamRouteOK, SyncRouteOK
<1>7. BodyOK
  <2>1. Run(<<>>, 0 - Lead) /\ at # "over" /\ (route = "stream" => at # "read")
    BY <1>1, RunNone DEF Lead
  <2> HIDE DEF Lead
  <2> QED
    BY <1>1, <1>3, <2>1 DEF BodyOK
<1>8. InputOK
  <2>1. Taken = 0
    <3>1. Lead = 0 \/ route = "sync"
      BY <1>1 DEF Lead
    <3> HIDE DEF Lead
    <3> QED
      BY <1>1, <1>2, <1>3, <3>1 DEF Taken
  <2>2. ~Has(<<>>, Final)
    BY <1>2 DEF Has
  <2>3. Follows(<<>>, 0, 0)
    BY <1>2 DEF Follows
  <2> HIDE DEF Taken, Taking
  <2> QED
    BY <1>1, <1>2, <1>3, <2>1, <2>2, <2>3 DEF InputOK
<1>9. FinalOK
  BY <1>1 DEF FinalOK
<1> QED
  BY <1>4, <1>5, <1>6, <1>7, <1>8, <1>9 DEF DeliveryInv

\* Every step of a response keeps the invariant.
LEMMA StepDelivery ==
    ASSUME DeliveryInv, [DeliveryNext]_deliveryVars
    PROVE  DeliveryInv'
<1>1. CASE UNCHANGED deliveryVars
  <2>1. /\ UNCHANGED <<route, format, at, ended, hand, ffmpeg, body, left, stitch>>
        /\ UNCHANGED <<stream, made, usageRow>>
    BY <1>1 DEF deliveryVars
  <2>2. DeliveryTypeOK'
    BY <2>1 DEF DeliveryInv, DeliveryTypeOK
  <2>3. InputOK'
    <3>1. Taken' = Taken /\ (Taking' <=> Taking)
      BY <2>1 DEF Taken, Taking, Plain, Lead
    <3> HIDE DEF Taken, Taking
    <3> QED
      BY <2>1, <3>1 DEF DeliveryInv, InputOK, Plain
  <2> QED
    BY <2>1, <2>2, <2>3, OnlyInput
<1> QED
  BY <1>1, StepWorker, StepEncoder, StepStart, StepRead, StepWrite, StepDrain, StepClose,
     StepWait, StepJoin, StepStitch, StepLeaves, Zenon DEF DeliveryNext, Deliver

\* What a sequence begins with stays where it is when more follows.
LEMMA Beginning ==
    ASSUME NEW s \in Seq(Item), NEW u \in Seq(Item), NEW n \in Nat, n <= Len(s)
    PROVE  n <= Len(s \o u) /\ \A i \in 1..n : (s \o u)[i] = s[i]
<1>1. PICK k \in Nat, m \in Nat : k = Len(s) /\ m = Len(u)
  BY LenProperties
<1>2. /\ Len(s \o u) = k + m
      /\ \A i \in 1..(k + m) : (s \o u)[i] = IF i <= k THEN s[i] ELSE u[i - k]
  BY <1>1, ConcatProperties
<1> QED
  BY <1>1, <1>2

\* The body is the beginning of its chain.
LEMMA ChainInOrder ==
    ASSUME NEW b \in Seq(Item), NEW e \in Encoder, Chain(b, e)
    PROVE  \A i \in 1..Len(b) : b[i] = i - 0 \/ (b[i] = Trailer /\ i = Len(b))
<1>1. PICK n \in Nat : n = Len(b)
  BY LenProperties
<1>2. e.stdin \in Seq(Item) /\ e.pipe \in Seq(Item) /\ e.buffer \in Seq(Item)
  BY FlowFacts
<1> DEFINE v == b \o e.buffer
           w == v \o e.pipe
           f == w \o e.stdin
<1>3. v \in Seq(Item) /\ w \in Seq(Item) /\ f \in Seq(Item)
  BY <1>2, ConcatProperties, Zenon
<1>4. n <= Len(v) /\ \A i \in 1..n : v[i] = b[i]
  BY <1>1, <1>2, Beginning
<1>5. n <= Len(w) /\ \A i \in 1..n : w[i] = v[i]
  <2> HIDE DEF v
  <2> QED
    BY <1>2, <1>3, <1>4, Beginning
<1>6. n <= Len(f) /\ \A i \in 1..n : f[i] = w[i]
  <2> HIDE DEF w
  <2> QED
    BY <1>2, <1>3, <1>5, Beginning
<1>7. f = Flow(b, e)
  BY DEF Flow
<1> HIDE DEF v, w, f
<1>8. PICK k \in Nat : k = Len(f)
  BY <1>3, LenProperties
<1>9. \A i \in 1..k : f[i] = i \/ (f[i] = Trailer /\ i = k)
  <2>1. CASE Trailed(e)
    <3>1. f[k] = Trailer /\ \A i \in 1..(k - 1) : f[i] = i
      BY <1>7, <1>8, <2>1 DEF Chain, Ended
    <3> HIDE DEF Trailer
    <3> QED
      BY <3>1
  <2>2. CASE ~Trailed(e)
    <3>1. Run(f, 0)
      BY <1>7, <2>2 DEF Chain
    <3> QED
      BY <1>8, <3>1 DEF Run
  <2> QED
    BY <2>1, <2>2
<1> HIDE DEF Trailer
<1>10. \A i \in 1..n : b[i] = i \/ (b[i] = Trailer /\ i = n)
  <2> TAKE i \in 1..n
  <2>1. i \in 1..k /\ f[i] = b[i] /\ n <= k
    BY <1>4, <1>5, <1>6, <1>8
  <2>2. i = k => i = n
    BY <2>1
  <2> QED
    BY <1>9, <2>1, <2>2
<1>11. \A i \in 1..n : i - 0 = i
  OBVIOUS
<1> QED
  BY <1>1, <1>10, <1>11

\* A run that is long enough has every sentence.
LEMMA RunWhole ==
    ASSUME NEW s \in Seq(Item), NEW l \in {0, 1}, Run(s, 0 - l)
    PROVE  /\ \A i \in 1..Len(s) : s[i] = i - l
           /\ Len(s) = Chunks + l => \A c \in 1..Chunks : \E i \in 1..Len(s) : s[i] = c
<1>1. PICK n \in Nat : n = Len(s)
  BY LenProperties
<1>2. \A i \in 1..n : s[i] = i - l
  BY <1>1 DEF Run
<1>3. Chunks \in Nat
  BY ItemFacts
<1>4. ASSUME n = Chunks + l, NEW c \in 1..Chunks
      PROVE  \E i \in 1..n : s[i] = c
  <2>1. c + l \in 1..n /\ (c + l) - l = c
    BY <1>3, <1>4
  <2> QED
    BY <1>2, <2>1
<1> QED
  BY <1>1, <1>2, <1>4

\* The invariant gives the property.
LEMMA InvSound ==
    ASSUME DeliveryInv
    PROVE  DeliverySound
<1>1. /\ body \in Seq(Item) /\ ffmpeg \in Encoder /\ route \in {"sync", "stream"}
      /\ DOMAIN body = 1..Len(body) /\ Len(body) \in Nat
  BY LenProperties DEF DeliveryInv, DeliveryTypeOK
<1>2. Lead \in {0, 1}
  BY DEF Lead
<1> HIDE DEF Lead
<1>3. BodyInOrder
  <2>1. CASE Chain(body, ffmpeg)
    <3>1. \A i \in 1..Len(body) : body[i] = i - 0 \/ (body[i] = Trailer /\ i = Len(body))
      BY <1>1, <2>1, ChainInOrder
    <3>2. 0 \in {0, 1}
      OBVIOUS
    <3> HIDE DEF Trailer
    <3> QED
      BY <1>1, <3>1, <3>2, Zenon DEF BodyInOrder
  <2>2. ASSUME NEW l \in {0, 1}, Run(body, 0 - l)
        PROVE  BodyInOrder
    <3>1. \A i \in 1..Len(body) : body[i] = i - l
      BY <1>1, <2>2, RunWhole
    <3> QED
      BY <1>1, <3>1, Zenon DEF BodyInOrder
  <2> QED
    BY <1>1, <1>2, <2>1, <2>2 DEF DeliveryInv, BodyOK, AllPlain
<1>4. BodyWhole
  <2> SUFFICES ASSUME at = "over", ended = "final", ~left, ffmpeg.fate = "well"
               PROVE  /\ \A c \in 1..Chunks : \E i \in DOMAIN body : body[i] = c
                      /\ ffmpeg.proc # "none" =>
                            body # <<>> /\ body[Len(body)] = Trailer
    BY DEF BodyWhole
  <2>1. CASE ffmpeg.proc # "none"
    <3>1. Trailed(ffmpeg) /\ Len(body) = Chunks + 1 /\ Flow(body, ffmpeg) = body
      BY <2>1 DEF DeliveryInv, FinalOK
    <3>2. Chain(body, ffmpeg)
      BY <1>1, <2>1 DEF DeliveryInv, ControlOK, BodyOK, Plain, NoEncoder
    <3>3. Ended(body)
      BY <3>1, <3>2 DEF Chain
    <3>4. Chunks \in Nat
      BY ItemFacts
    <3>5. \A c \in 1..Chunks : c \in 1..Len(body) /\ c \in 1..(Len(body) - 1)
      BY <3>1, <3>4
    <3> HIDE DEF Trailer
    <3>6. \A c \in 1..Chunks : body[c] = c
      BY <3>3, <3>5 DEF Ended
    <3> QED
      BY <1>1, <3>3, <3>5, <3>6 DEF Ended
  <2>2. CASE ffmpeg.proc = "none"
    <3>1. \E l \in {0, 1} : Run(body, 0 - l) /\ Len(body) = Chunks + l
      <4>1. CASE route = "stream"
        <5>1. Plain
          BY <2>2, <4>1 DEF DeliveryInv, StreamRouteOK
        <5>2. Run(body, 0 - Lead) /\ Len(body) = Chunks + Lead
          BY <4>1, <5>1 DEF DeliveryInv, BodyOK, FinalOK
        <5> QED
          BY <1>2, <5>2
      <4>2. CASE route = "sync"
        BY <2>2, <4>2 DEF DeliveryInv, BodyOK, AllPlain
      <4> QED
        BY <1>1, <4>1, <4>2
    <3>2. \A c \in 1..Chunks : \E i \in 1..Len(body) : body[i] = c
      BY <1>1, <3>1, RunWhole
    <3> QED
      BY <1>1, <2>2, <3>2
  <2> QED
    BY <2>1, <2>2
<1>5. StitchFindsRow
  BY DEF DeliveryInv, ControlOK, StitchFindsRow
<1>6. DeliveryTypeOK
  BY DEF DeliveryInv
<1> QED
  BY <1>3, <1>4, <1>5, <1>6 DEF DeliverySound

\* Whatever the worker, ffmpeg, its reader task and the client do, and in whatever order, the
\* body of a response of /v1/tts or /v1/tts/stream is the text from its beginning, nothing
\* twice and nothing out of place; it is whole, with the trailer of its container, when it
\* ends after the final marker; and the usage row is there for the time of the first byte.
THEOREM ResponseSound == DeliverySpec => []DeliverySound
<1>1. DeliveryInit => DeliveryInv
  BY InitDelivery
<1>2. DeliveryInv /\ [DeliveryNext]_deliveryVars => DeliveryInv'
  BY StepDelivery
<1>3. DeliveryInv => DeliverySound
  BY InvSound
<1> QED
  BY <1>1, <1>2, <1>3, PTL DEF DeliverySpec

-----------------------------------------------------------------------------
(* Sets of natural numbers: the inductions below are over the least        *)
(* counterexample.                                                         *)

\* A set of natural numbers that is not empty has a least element.
LEMMA Least ==
    ASSUME NEW S \in SUBSET Nat, S # {}
    PROVE  \E n \in S : \A m \in S : n <= m
<1> DEFINE R == OpToRel(<, Nat)
<1>1. \E n \in S : \A m \in S : ~ (<<m, n>> \in R)
  BY NatLessThanWellFounded, WFMin, Zenon
<1>2. \A m, n \in Nat : m < n => <<m, n>> \in R
  BY DEF OpToRel
<1> HIDE DEF R
<1>3. PICK n \in S : \A m \in S : ~ (<<m, n>> \in R)
  BY <1>1, Zenon
<1>4. \A m \in S : ~ (m < n)
  BY <1>2, <1>3, Zenon
<1> QED
  BY <1>3, <1>4

\* And, if it has a bound, a greatest.
LEMMA Greatest ==
    ASSUME NEW S \in SUBSET Nat, S # {}, NEW b \in Nat, \A m \in S : m <= b
    PROVE  \E n \in S : \A m \in S : m <= n
<1> DEFINE U == {n \in Nat : \A m \in S : m <= n}
<1>1. U # {} /\ U \in SUBSET Nat
  OBVIOUS
<1>2. PICK n \in U : \A m \in U : n <= m
  <2> HIDE DEF U
  <2> QED
    BY <1>1, Least, Zenon
<1>3. n \in S
  <2> SUFFICES ASSUME n \notin S PROVE FALSE
    OBVIOUS
  <2>1. n \in Nat /\ \A m \in S : m \in Nat /\ m <= n /\ m # n
    OBVIOUS
  <2>2. PICK m \in S : TRUE
    OBVIOUS
  <2>3. n # 0
    BY <2>1, <2>2
  <2>4. n - 1 \in U
    BY <2>1, <2>3
  <2> QED
    BY <1>2, <2>1, <2>4
<1> QED
  BY <1>3

-----------------------------------------------------------------------------
(* The letters and stops of a text.                                        *)

\* p lists the positions of the letters and stops of t.
Lists(p, t) ==
    /\ p \in Seq(1..Len(t))
    /\ \A i, j \in 1..Len(p) : i < j => p[i] < p[j]
    /\ \A x \in 1..Len(t) : t[x] # "blank" <=> \E i \in 1..Len(p) : p[i] = x

\* The first k of them.
Firsts(p, k) == {p[j] : j \in 1..k}

\* As many as are listed.
LEMMA CountListed ==
    ASSUME NEW k \in Nat, NEW p,
           \A i, j \in 1..k : p[i] = p[j] => i = j
    PROVE  Cardinality(Firsts(p, k)) = k
<1> DEFINE S == {p[j] : j \in 1..k}
<1> DEFINE f == [j \in 1..k |-> p[j]]
<1>1. f \in Bijection(1..k, S)
  <2>1. f \in [1..k -> S] /\ \A j \in 1..k : f[j] = p[j]
    OBVIOUS
  <2>2. f \in Injection(1..k, S)
    BY <2>1 DEF Injection, IsInjective
  <2>3. f \in Surjection(1..k, S)
    BY <2>1 DEF Surjection
  <2> QED
    BY <2>2, <2>3 DEF Bijection
<1> HIDE DEF f, S
<1>2. ExistsBijection(1..k, S)
  BY <1>1, Zenon DEF ExistsBijection
<1>3. Cardinality(S) = k
  BY <1>2, FS_CountingElements, Zenon
<1> QED
  BY <1>3, Zenon DEF Firsts, S

\* They are what Marks returns.
LEMMA MarksListed ==
    ASSUME NEW t \in Seq(Char), NEW p, Lists(p, t)
    PROVE  Marks(t) = [k \in 1..Len(p) |-> t[p[k]]]
<1>1. PICK n \in Nat, l \in Nat : n = Len(p) /\ l = Len(t)
  BY LenProperties DEF Lists
<1>2. /\ p \in [1..n -> 1..l]
      /\ \A i, j \in 1..n : i < j => p[i] < p[j]
      /\ \A x \in 1..l : t[x] # "blank" <=> \E i \in 1..n : p[i] = x
  BY <1>1, LenProperties DEF Lists
<1>3. \A i, j \in 1..n : p[i] = p[j] => i = j
  BY <1>2
<1>4. \A k \in 0..n : Cardinality({p[j] : j \in 1..k}) = k
  <2> SUFFICES ASSUME NEW k \in 0..n PROVE Cardinality({p[j] : j \in 1..k}) = k
    OBVIOUS
  <2>1. k \in Nat /\ \A i, j \in 1..k : p[i] = p[j] => i = j
    BY <1>3
  <2>2. Cardinality(Firsts(p, k)) = k
    BY <2>1, CountListed, Zenon
  <2> QED
    BY <2>2, Zenon DEF Firsts
<1>5. Inked(t) = {p[j] : j \in 1..n}
  <2>1. Inked(t) = {i \in 1..l : t[i] # "blank"}
    BY <1>1 DEF Inked
  <2>2. \A i \in Inked(t) : i \in {p[j] : j \in 1..n}
    BY <1>2, <2>1
  <2>3. \A j \in 1..n : p[j] \in Inked(t)
    BY <1>2, <2>1
  <2> QED
    BY <2>2, <2>3
<1>6. Cardinality(Inked(t)) = n
  BY <1>4, <1>5
<1>7. \A k \in 1..n : Inked(t) \cap 1..p[k] = {p[j] : j \in 1..k}
  <2> SUFFICES ASSUME NEW k \in 1..n
               PROVE  Inked(t) \cap 1..p[k] = {p[j] : j \in 1..k}
    OBVIOUS
  <2>1. \A j \in 1..n : p[j] <= p[k] <=> j <= k
    BY <1>2
  <2> QED
    BY <1>2, <1>5, <2>1
<1>8. \A k \in 1..n : Cardinality(Inked(t) \cap 1..p[k]) = k
  BY <1>4, <1>7
<1>9. \A k \in 1..n : (CHOOSE i \in Inked(t) : Cardinality(Inked(t) \cap 1..i) = k) = p[k]
  <2> SUFFICES ASSUME NEW k \in 1..n
               PROVE  (CHOOSE i \in Inked(t) : Cardinality(Inked(t) \cap 1..i) = k) = p[k]
    OBVIOUS
  <2>1. p[k] \in Inked(t) /\ Cardinality(Inked(t) \cap 1..p[k]) = k
    BY <1>5, <1>8
  <2>2. \A i \in Inked(t) : Cardinality(Inked(t) \cap 1..i) = k => i = p[k]
    BY <1>5, <1>8
  <2> QED
    BY <2>1, <2>2
<1> DEFINE nth(k) == CHOOSE i \in Inked(t) : Cardinality(Inked(t) \cap 1..i) = k
<1>10. Marks(t) = [k \in 1..Cardinality(Inked(t)) |-> t[nth(k)]]
  BY Zenon DEF Marks
<1>11. \A k \in 1..n : nth(k) = p[k]
  BY <1>9
<1> HIDE DEF nth
<1> QED
  BY <1>1, <1>6, <1>10, <1>11

\* And they can be listed.
LEMMA Listed == \A t \in Seq(Char) : \E p : Lists(p, t)
<1> DEFINE S == {n \in Nat : \E t \in Seq(Char) : Len(t) = n /\ ~\E p : Lists(p, t)}
<1>1. SUFFICES ASSUME S # {} PROVE FALSE
  BY LenProperties
<1>2. PICK n \in S : \A m \in S : n <= m
  <2>1. S \in SUBSET Nat
    OBVIOUS
  <2> HIDE DEF S
  <2> QED
    BY <1>1, <2>1, Least, Zenon
<1>3. PICK t \in Seq(Char) : Len(t) = n /\ ~\E p : Lists(p, t)
  OBVIOUS
<1>4. n \in Nat /\ \A m \in Nat : m < n => m \notin S
  BY <1>2
<1>5. CASE n = 0
  <2>1. Lists(<<>>, t)
    BY <1>3, <1>5, EmptySeq DEF Lists
  <2> QED
    BY <1>3, <2>1
<1>6. CASE n > 0
  <2> DEFINE u == SubSeq(t, 1, n - 1)
  <2>1. /\ u \in Seq(Char) /\ Len(u) = n - 1
        /\ \A i \in 1..(n - 1) : u[i] = t[i]
    BY <1>3, <1>4, <1>6, SubSeqProperties
  <2>2. PICK q : Lists(q, u)
    <3>1. n - 1 \notin S /\ n - 1 \in Nat
      BY <1>4, <1>6
    <3> HIDE DEF u
    <3> QED
      BY <2>1, <3>1
  <2> HIDE DEF u
  <2>3. PICK m \in Nat : m = Len(q)
    BY <2>2, LenProperties DEF Lists
  <2>4. /\ q \in [1..m -> 1..(n - 1)] /\ \A i, j \in 1..m : i < j => q[i] < q[j]
        /\ \A x \in 1..(n - 1) : t[x] # "blank" <=> \E i \in 1..m : q[i] = x
    BY <2>1, <2>2, <2>3, LenProperties DEF Lists
  <2>5. CASE t[n] = "blank"
    <3>1. \A x \in 1..n : t[x] # "blank" <=> \E i \in 1..m : q[i] = x
      BY <1>4, <1>6, <2>4, <2>5
    <3>2. Lists(q, t)
      <4>1. q \in Seq(1..n)
        BY <1>4, <1>6, <2>3, <2>4, SeqDef
      <4> QED
        BY <1>3, <2>3, <2>4, <3>1, <4>1 DEF Lists
    <3> QED
      BY <1>3, <3>2
  <2>6. CASE t[n] # "blank"
    <3> DEFINE p == [i \in 1..(m + 1) |-> IF i <= m THEN q[i] ELSE n]
    <3>1. p \in [1..(m + 1) -> 1..n] /\ p[m + 1] = n /\ \A i \in 1..m : p[i] = q[i]
      BY <1>4, <1>6, <2>4
    <3>2. p \in Seq(1..n) /\ Len(p) = m + 1
      BY <3>1, IsASeq, LenProperties
    <3> HIDE DEF p
    <3>3. \A i, j \in 1..(m + 1) : i < j => p[i] < p[j]
      <4>1. \A i \in 1..m : q[i] < n
        BY <1>4, <2>4
      <4>2. \A j \in 1..(m + 1) : j \in 1..m \/ j = m + 1
        OBVIOUS
      <4> SUFFICES ASSUME NEW i \in 1..(m + 1), NEW j \in 1..(m + 1), i < j
                   PROVE  p[i] < p[j]
        OBVIOUS
      <4>3. i \in 1..m
        OBVIOUS
      <4>4. CASE j = m + 1
        BY <3>1, <4>1, <4>3, <4>4
      <4>5. CASE j \in 1..m
        BY <2>4, <3>1, <4>3, <4>5
      <4> QED
        BY <4>2, <4>4, <4>5
    <3>4. \A x \in 1..n : t[x] # "blank" <=> \E i \in 1..(m + 1) : p[i] = x
      <4> SUFFICES ASSUME NEW x \in 1..n
                   PROVE  t[x] # "blank" <=> \E i \in 1..(m + 1) : p[i] = x
        OBVIOUS
      <4>1. CASE x = n
        BY <2>6, <3>1, <4>1
      <4>2. CASE x # n
        <5>1. x \in 1..(n - 1)
          BY <1>4, <4>2
        <5> QED
          BY <1>4, <2>4, <3>1, <4>2, <5>1
      <4> QED
        BY <4>1, <4>2
    <3>5. Lists(p, t)
      BY <1>3, <3>2, <3>3, <3>4 DEF Lists
    <3> QED
      BY <1>3, <3>5
  <2> QED
    BY <2>5, <2>6
<1> QED
  BY <1>4, <1>5, <1>6

\* The letters and stops of a text are a text, no longer than it.
LEMMA MarksType ==
    ASSUME NEW t \in Seq(Char)
    PROVE  Marks(t) \in Seq(Char)
<1>1. PICK p : Lists(p, t)
  BY Listed
<1>2. Marks(t) = [k \in 1..Len(p) |-> t[p[k]]]
  BY <1>1, MarksListed
<1>3. PICK n \in Nat, l \in Nat : n = Len(p) /\ l = Len(t)
  BY <1>1, LenProperties DEF Lists
<1>4. p \in [1..n -> 1..l] /\ t \in [1..l -> Char]
  BY <1>1, <1>3, LenProperties DEF Lists
<1>5. Marks(t) \in [1..n -> Char]
  BY <1>2, <1>3, <1>4
<1> QED
  BY <1>3, <1>5, IsASeq

\* Two sequences, one behind the other, and where an index into them points.
LEMMA Behind ==
    ASSUME NEW S, NEW s \in Seq(S), NEW u \in Seq(S)
    PROVE  /\ s \o u \in Seq(S) /\ Len(s \o u) = Len(s) + Len(u)
           /\ \A i \in 1..Len(s) : (s \o u)[i] = s[i]
           /\ \A i \in 1..Len(u) : (s \o u)[Len(s) + i] = u[i]
<1>1. PICK n \in Nat, m \in Nat : n = Len(s) /\ m = Len(u)
  BY LenProperties
<1>2. /\ s \o u \in Seq(S) /\ Len(s \o u) = n + m
      /\ \A i \in 1..(n + m) : (s \o u)[i] = IF i <= n THEN s[i] ELSE u[i - n]
  BY <1>1, ConcatProperties
<1> DEFINE t == s \o u
<1> HIDE DEF t
<1>3. \A i \in 1..n : t[i] = s[i]
  BY <1>2 DEF t
<1>4. \A i \in 1..m : n + i \in 1..(n + m) /\ ~(n + i <= n) /\ (n + i) - n = i
  OBVIOUS
<1>5. \A i \in 1..m : t[n + i] = u[i]
  BY <1>2, <1>4 DEF t
<1> QED
  BY <1>1, <1>2, <1>3, <1>5 DEF t

\* A position of a sequence is one of its front or one of its back.
LEMMA Where ==
    ASSUME NEW a \in Nat, NEW b \in Nat, NEW x \in 1..(a + b)
    PROVE  x \in 1..a \/ \E y \in 1..b : x = a + y
<1>1. x \in 1..a \/ (x - a \in 1..b /\ x = a + (x - a))
  OBVIOUS
<1> QED
  BY <1>1

\* Marks of two texts, one behind the other.
LEMMA MarksCat ==
    ASSUME NEW s \in Seq(Char), NEW u \in Seq(Char)
    PROVE  Marks(s \o u) = Marks(s) \o Marks(u)
<1>1. PICK p, q : Lists(p, s) /\ Lists(q, u)
  BY Listed
<1>2. PICK n \in Nat, a \in Nat, m \in Nat, b \in Nat :
        n = Len(p) /\ a = Len(s) /\ m = Len(q) /\ b = Len(u)
  BY <1>1, LenProperties DEF Lists
<1>3. /\ p \in [1..n -> 1..a] /\ \A i, j \in 1..n : i < j => p[i] < p[j]
      /\ \A x \in 1..a : s[x] # "blank" <=> \E i \in 1..n : p[i] = x
  BY <1>1, <1>2, LenProperties DEF Lists
<1>4. /\ q \in [1..m -> 1..b] /\ \A i, j \in 1..m : i < j => q[i] < q[j]
      /\ \A x \in 1..b : u[x] # "blank" <=> \E i \in 1..m : q[i] = x
  BY <1>1, <1>2, LenProperties DEF Lists
<1> DEFINE t == s \o u
           r == [i \in 1..(n + m) |-> IF i <= n THEN p[i] ELSE a + q[i - n]]
<1>5. /\ t \in Seq(Char) /\ Len(t) = a + b
      /\ \A x \in 1..a : t[x] = s[x]
      /\ \A x \in 1..b : t[a + x] = u[x]
  BY <1>2, Behind
<1>6. /\ \A i \in 1..n : r[i] = p[i] /\ i \in 1..(n + m)
      /\ \A i \in 1..m : r[n + i] = a + q[i] /\ n + i \in 1..(n + m)
  <2>1. \A i \in 1..m : n + i \in 1..(n + m) /\ ~(n + i <= n) /\ (n + i) - n = i
    OBVIOUS
  <2>2. \A i \in 1..n : i \in 1..(n + m)
    OBVIOUS
  <2> QED
    BY <2>1, <2>2
<1>7. \A i \in 1..(n + m) : i \in 1..n \/ \E k \in 1..m : i = n + k
  BY Where
<1>8. \A x \in 1..(a + b) : x \in 1..a \/ \E y \in 1..b : x = a + y
  BY Where
<1>9. r = [i \in 1..(n + m) |-> r[i]]
  OBVIOUS
<1> HIDE DEF t, r
<1>front. ASSUME NEW i \in 1..n
      PROVE  i \in 1..(n + m) /\ r[i] = p[i] /\ r[i] \in 1..a /\ r[i] \in 1..(a + b) /\ r[i] <= a
  <2>1. r[i] = p[i] /\ p[i] \in 1..a /\ i \in 1..(n + m)
    BY <1>3, <1>6
  <2> QED
    BY <2>1
<1>back. ASSUME NEW k \in 1..m
      PROVE  /\ n + k \in 1..(n + m) /\ q[k] \in 1..b /\ r[n + k] = a + q[k]
             /\ r[n + k] \in 1..(a + b) /\ r[n + k] > a
  <2>1. r[n + k] = a + q[k] /\ q[k] \in 1..b /\ n + k \in 1..(n + m)
    BY <1>4, <1>6
  <2> QED
    BY <2>1
<1>10. r \in Seq(1..(a + b)) /\ Len(r) = n + m
  <2>1. \A i \in 1..(n + m) : r[i] \in 1..(a + b)
    BY <1>7, <1>front, <1>back
  <2>2. r \in [1..(n + m) -> 1..(a + b)] /\ n + m \in Nat
    BY <1>9, <2>1
  <2>3. r \in Seq(1..(a + b))
    BY <2>2, IsASeq
  <2> QED
    BY <2>2, <2>3, LenProperties
<1>11. \A i, j \in 1..(n + m) : i < j => r[i] < r[j]
  <2> SUFFICES ASSUME NEW i \in 1..(n + m), NEW j \in 1..(n + m), i < j PROVE r[i] < r[j]
    OBVIOUS
  <2>1. CASE i \in 1..n /\ j \in 1..n
    BY <1>3, <1>6, <2>1
  <2>2. ASSUME NEW l \in 1..m, j = n + l, i \in 1..n PROVE r[i] < r[j]
    <3>1. r[i] \in 1..a /\ r[i] <= a /\ r[n + l] \in 1..(a + b) /\ r[n + l] > a
      BY <1>front, <1>back, <2>2
    <3> QED
      BY <2>2, <3>1
  <2>3. ASSUME NEW k \in 1..m, NEW l \in 1..m, i = n + k, j = n + l PROVE r[i] < r[j]
    <3>1. k < l
      BY <2>3
    <3>2. q[k] < q[l] /\ q[k] \in Nat /\ q[l] \in Nat /\ r[i] = a + q[k] /\ r[j] = a + q[l]
      BY <1>4, <1>6, <2>3, <3>1
    <3> QED
      BY <3>2
  <2>4. ASSUME NEW k \in 1..m, i = n + k, j \in 1..n PROVE FALSE
    BY <2>4
  <2> QED
    BY <1>7, <2>1, <2>2, <2>3, <2>4
<1>12. \A x \in 1..(a + b) : t[x] # "blank" <=> \E i \in 1..(n + m) : r[i] = x
  <2>1. ASSUME NEW x \in 1..a PROVE t[x] # "blank" <=> \E i \in 1..(n + m) : r[i] = x
    <3>1. t[x] # "blank" <=> \E i \in 1..n : p[i] = x
      BY <1>3, <1>5
    <3>2. ASSUME NEW k \in 1..m PROVE r[n + k] # x
      BY <1>back
    <3>3. (\E i \in 1..n : p[i] = x) <=> \E i \in 1..(n + m) : r[i] = x
      BY <1>7, <1>front, <3>2
    <3> QED
      BY <3>1, <3>3
  <2>2. ASSUME NEW y \in 1..b
        PROVE  t[a + y] # "blank" <=> \E i \in 1..(n + m) : r[i] = a + y
    <3>1. t[a + y] # "blank" <=> \E k \in 1..m : q[k] = y
      BY <1>4, <1>5
    <3>2. ASSUME NEW i \in 1..n PROVE r[i] # a + y
      <4>1. r[i] <= a /\ r[i] \in 1..a
        BY <1>front
      <4> QED
        BY <4>1
    <3>3. ASSUME NEW k \in 1..m PROVE n + k \in 1..(n + m) /\ (r[n + k] = a + y <=> q[k] = y)
      <4>1. r[n + k] = a + q[k] /\ q[k] \in 1..b /\ n + k \in 1..(n + m)
        BY <1>back
      <4> QED
        BY <4>1
    <3>4. (\E k \in 1..m : q[k] = y) <=> \E i \in 1..(n + m) : r[i] = a + y
      BY <1>7, <3>2, <3>3
    <3> QED
      BY <3>1, <3>4
  <2> SUFFICES ASSUME NEW x \in 1..(a + b)
               PROVE  t[x] # "blank" <=> \E i \in 1..(n + m) : r[i] = x
    OBVIOUS
  <2>3. CASE x \in 1..a
    BY <2>1, <2>3
  <2>4. ASSUME NEW y \in 1..b, x = a + y
        PROVE  t[x] # "blank" <=> \E i \in 1..(n + m) : r[i] = x
    BY <2>2, <2>4
  <2> QED
    BY <1>8, <2>3, <2>4
<1>13. Lists(r, t)
  BY <1>5, <1>10, <1>11, <1>12 DEF Lists
<1>14. Marks(t) = [k \in 1..(n + m) |-> t[r[k]]]
  <2>1. Marks(t) = [k \in 1..Len(r) |-> t[r[k]]]
    BY <1>5, <1>13, MarksListed, Zenon
  <2> QED
    BY <1>10, <2>1
<1>15. Marks(s) = [k \in 1..n |-> s[p[k]]] /\ Marks(u) = [k \in 1..m |-> u[q[k]]]
  BY <1>1, <1>2, MarksListed
<1>16. /\ Marks(s) \in Seq(Char) /\ Marks(u) \in Seq(Char) /\ Marks(t) \in Seq(Char)
       /\ Len(Marks(s)) = n /\ Len(Marks(u)) = m /\ Len(Marks(t)) = n + m
  <2>1. Marks(s) \in Seq(Char) /\ Marks(u) \in Seq(Char) /\ Marks(t) \in Seq(Char)
    BY <1>5, MarksType
  <2> QED
    BY <1>14, <1>15, <2>1, LenProperties
<1> DEFINE v == Marks(s) \o Marks(u)
<1>17. /\ v \in Seq(Char) /\ Len(v) = n + m
       /\ \A k \in 1..n : v[k] = Marks(s)[k]
       /\ \A k \in 1..m : v[n + k] = Marks(u)[k]
  <2> DEFINE x == Marks(s)
             y == Marks(u)
  <2>1. x \in Seq(Char) /\ y \in Seq(Char) /\ n = Len(x) /\ m = Len(y)
    BY <1>16
  <2> HIDE DEF x, y
  <2>2. /\ x \o y \in Seq(Char) /\ Len(x \o y) = n + m
        /\ \A k \in 1..n : (x \o y)[k] = x[k]
        /\ \A k \in 1..m : (x \o y)[n + k] = y[k]
    BY <2>1, Behind
  <2> QED
    BY <2>2 DEF x, y
<1> HIDE DEF v
<1>18. \A k \in 1..n : Marks(t)[k] = v[k]
  <2> SUFFICES ASSUME NEW k \in 1..n PROVE Marks(t)[k] = v[k]
    OBVIOUS
  <2>1. v[k] = s[p[k]] /\ Marks(t)[k] = t[r[k]]
    BY <1>14, <1>15, <1>17, <1>front
  <2>2. r[k] = p[k] /\ r[k] \in 1..a
    BY <1>front
  <2> QED
    BY <1>5, <2>1, <2>2
<1>19. \A k \in 1..m : Marks(t)[n + k] = v[n + k]
  <2> SUFFICES ASSUME NEW k \in 1..m PROVE Marks(t)[n + k] = v[n + k]
    OBVIOUS
  <2>1. v[n + k] = u[q[k]] /\ q[k] \in 1..b
    BY <1>4, <1>15, <1>17
  <2>2. Marks(t)[n + k] = t[r[n + k]] /\ r[n + k] = a + q[k]
    BY <1>6, <1>14
  <2> QED
    BY <1>5, <2>1, <2>2
<1>20. \A k \in 1..(n + m) : Marks(t)[k] = v[k]
  BY <1>7, <1>18, <1>19
<1>21. Marks(t) = v
  BY <1>16, <1>17, <1>20, SeqEqual
<1> QED
  BY <1>21 DEF t, v

\* Blanks leave no mark.
LEMMA NoMarks ==
    ASSUME NEW t \in Seq(Char), Inked(t) = {}
    PROVE  Marks(t) = <<>>
<1>1. Cardinality(Inked(t)) = 0
  BY FS_EmptySet
<1> DEFINE nth(k) == CHOOSE i \in Inked(t) : Cardinality(Inked(t) \cap 1..i) = k
<1>2. Marks(t) = [k \in 1..Cardinality(Inked(t)) |-> t[nth(k)]]
  BY Zenon DEF Marks
<1> HIDE DEF nth
<1>3. Marks(t) \in Seq(Char) /\ Len(Marks(t)) = 0
  BY <1>1, <1>2, MarksType, LenProperties
<1> QED
  BY <1>3, EmptySeq

\* The empty text has none.
LEMMA NothingMarked == <<>> \in Seq(Char) /\ Len(<<>>) = 0 /\ Marks(<<>>) = <<>>
<1>1. <<>> \in Seq(Char) /\ Len(<<>>) = 0
  BY EmptySeq
<1>2. Inked(<<>>) = {}
  BY <1>1 DEF Inked
<1> QED
  BY <1>1, <1>2, NoMarks

\* A text cut in two.
LEMMA MarksCut ==
    ASSUME NEW t \in Seq(Char), NEW n \in 0..Len(t)
    PROVE  /\ SubSeq(t, 1, n) \in Seq(Char) /\ SubSeq(t, n + 1, Len(t)) \in Seq(Char)
           /\ Len(SubSeq(t, 1, n)) = n /\ Len(SubSeq(t, n + 1, Len(t))) = Len(t) - n
           /\ Marks(t) = Marks(SubSeq(t, 1, n)) \o Marks(SubSeq(t, n + 1, Len(t)))
<1>1. PICK l \in Nat : l = Len(t)
  BY LenProperties
<1>2. n \in Int /\ 0 <= n /\ n <= l
  BY <1>1
<1>3. \A i \in 1..l : t[i] \in Char
  BY <1>1, ElementOfSeq
<1>4. SubSeq(t, 1, n) \in Seq(Char) /\ Len(SubSeq(t, 1, n)) = n
  BY <1>2, <1>3, SubSeqProperties
<1>5. SubSeq(t, n + 1, l) \in Seq(Char) /\ Len(SubSeq(t, n + 1, l)) = l - n
  BY <1>2, <1>3, SubSeqProperties
<1>6. SubSeq(t, 1, n) \o SubSeq(t, n + 1, l) = t
  <2>1. 1 \in 1..(l + 1) /\ n \in (1 - 1)..l /\ l \in n..l
    BY <1>2
  <2>2. SubSeq(t, 1, n) \o SubSeq(t, n + 1, l) = SubSeq(t, 1, l)
    BY <1>1, <2>1, ConcatAdjacentSubSeq
  <2> QED
    BY <1>1, <2>2, SubSeqFull
<1> QED
  BY <1>1, <1>4, <1>5, <1>6, MarksCat

\* The first and the last mark.
LEMMA Ends ==
    ASSUME NEW t \in Seq(Char), NEW I \in SUBSET (1..Len(t)), I # {}
    PROVE  /\ Min(I) \in I /\ \A i \in I : Min(I) <= i
           /\ Max(I) \in I /\ \A i \in I : i <= Max(I)
<1>1. PICK l \in Nat : l = Len(t)
  BY LenProperties
<1>2. I \in SUBSET Nat /\ \A i \in I : i <= l
  BY <1>1
<1>3. \E n \in I : \A i \in I : n <= i
  BY <1>2, Least
<1>4. \E n \in I : \A i \in I : i <= n
  BY <1>1, <1>2, Greatest
<1>5. Min(I) \in I /\ \A i \in I : Min(I) <= i
  BY <1>3 DEF Min
<1>6. \E n \in I : \A i \in I : n >= i
  BY <1>2, <1>4
<1>7. Max(I) \in I /\ \A i \in I : Max(I) >= i
  BY <1>6, Zenon DEF Max
<1> QED
  BY <1>2, <1>5, <1>7

\* Stripping a text moves blanks only.
LEMMA MarksLstrip ==
    ASSUME NEW t \in Seq(Char)
    PROVE  lstrip(t) \in Seq(Char) /\ Len(lstrip(t)) <= Len(t) /\ Marks(lstrip(t)) = Marks(t)
<1>1. PICK l \in Nat : l = Len(t)
  BY LenProperties
<1>2. CASE Inked(t) = {}
  <2>1. lstrip(t) = <<>>
    BY <1>2 DEF lstrip
  <2>2. Marks(t) = <<>>
    BY <1>2, NoMarks
  <2> QED
    BY <1>1, <2>1, <2>2, NothingMarked
<1>3. CASE Inked(t) # {}
  <2>1. PICK i \in Inked(t) : i = Min(Inked(t)) /\ \A j \in Inked(t) : i <= j
    BY <1>3, Ends DEF Inked
  <2>2. PICK m \in 0..l : i = m + 1
    <3>1. i \in 1..l
      BY <1>1, <2>1 DEF Inked
    <3>2. i - 1 \in 0..l /\ i = (i - 1) + 1
      BY <3>1
    <3> QED
      BY <3>2
  <2> DEFINE front == SubSeq(t, 1, m)
             back == SubSeq(t, m + 1, l)
  <2>3. /\ front \in Seq(Char) /\ back \in Seq(Char) /\ Len(front) = m /\ Len(back) = l - m
        /\ Marks(t) = Marks(front) \o Marks(back)
    BY <1>1, MarksCut
  <2>4. \A j \in 1..m : front[j] = t[j] /\ j \in 1..l /\ t[j] = "blank"
    <3>1. \A j \in 1..l : t[j] \in Char
      BY <1>1, ElementOfSeq
    <3>2. \A j \in 1..m : front[j] = t[j] /\ j \in 1..l
      BY <3>1, SubSeqProperties
    <3>3. \A j \in 1..m : j \notin Inked(t)
      BY <2>1, <2>2
    <3> QED
      BY <1>1, <3>2, <3>3 DEF Inked
  <2>5. lstrip(t) = back
    BY <1>1, <1>3, <2>1, <2>2 DEF lstrip
  <2> HIDE DEF front, back
  <2>6. Inked(front) = {}
    BY <2>3, <2>4 DEF Inked
  <2>7. Marks(front) = <<>> /\ Marks(back) \in Seq(Char)
    BY <2>3, <2>6, NoMarks, MarksType
  <2>8. Marks(t) = Marks(back)
    BY <2>3, <2>7, ConcatEmptySeq
  <2> QED
    BY <1>1, <2>3, <2>5, <2>8
<1> QED
  BY <1>2, <1>3

\* So does strip, at both ends.
LEMMA MarksStrip ==
    ASSUME NEW t \in Seq(Char)
    PROVE  strip(t) \in Seq(Char) /\ Marks(strip(t)) = Marks(t)
<1>1. PICK l \in Nat : l = Len(t)
  BY LenProperties
<1>2. CASE Inked(t) = {}
  <2>1. strip(t) = <<>>
    BY <1>2 DEF strip
  <2>2. Marks(t) = <<>>
    BY <1>2, NoMarks
  <2> QED
    BY <2>1, <2>2, NothingMarked
<1>3. CASE Inked(t) # {}
  <2>1. PICK i \in Inked(t), k \in Inked(t) :
          /\ i = Min(Inked(t)) /\ k = Max(Inked(t)) /\ \A j \in Inked(t) : i <= j /\ j <= k
    BY <1>3, Ends DEF Inked
  <2>2. i \in 1..l /\ k \in 1..l /\ i <= k /\ k \in 0..l
    BY <1>1, <2>1 DEF Inked
  <2> DEFINE most == SubSeq(t, 1, k)
             tail == SubSeq(t, k + 1, l)
             body0 == SubSeq(t, i, k)
  <2>3. /\ most \in Seq(Char) /\ tail \in Seq(Char) /\ Len(most) = k /\ Len(tail) = l - k
        /\ Marks(t) = Marks(most) \o Marks(tail)
    BY <1>1, <2>2, MarksCut
  <2>4. \A j \in 1..l : t[j] \in Char
    BY <1>1, ElementOfSeq
  <2>5. \A j \in 1..k : most[j] = t[j]
    BY <2>2, <2>4, SubSeqProperties
  <2>rest. \A j \in 1..l : j > k => t[j] = "blank"
    BY <1>1, <2>1, <2>2 DEF Inked
  <2>6. Inked(tail) = {}
    <3>1. \A j \in 1..(l - k) : tail[j] = t[k + j] /\ k + j \in 1..l /\ k + j > k
      BY <2>2, <2>4, SubSeqProperties
    <3>2. \A j \in 1..(l - k) : t[k + j] = "blank"
      BY <2>rest, <3>1
    <3> QED
      BY <2>3, <3>1, <3>2 DEF Inked
  <2>7. lstrip(most) = body0
    <3>1. Inked(most) = Inked(t)
      <4>1. /\ Inked(t) = {j \in 1..l : t[j] # "blank"}
            /\ Inked(most) = {j \in 1..k : most[j] # "blank"}
        BY <1>1, <2>3 DEF Inked
      <4>2. \A j \in Inked(t) : j \in 1..k /\ most[j] # "blank"
        BY <2>2, <2>5, <2>rest, <4>1
      <4>3. \A j \in Inked(most) : j \in 1..l /\ t[j] # "blank"
        BY <2>2, <2>5, <4>1
      <4> QED
        BY <4>1, <4>2, <4>3
    <3>2. lstrip(most) = SubSeq(most, i, k)
      BY <1>3, <2>1, <2>3, <3>1 DEF lstrip
    <3>3. /\ SubSeq(most, i, k) \in Seq(Char) /\ Len(SubSeq(most, i, k)) = k - i + 1
          /\ \A j \in 1..(k - i + 1) : SubSeq(most, i, k)[j] = most[i + j - 1]
      BY <2>2, <2>3, <2>4, <2>5, SubSeqProperties
    <3>4. /\ body0 \in Seq(Char) /\ Len(body0) = k - i + 1
          /\ \A j \in 1..(k - i + 1) : body0[j] = t[i + j - 1]
      BY <2>2, <2>4, SubSeqProperties
    <3>5. \A j \in 1..(k - i + 1) : SubSeq(most, i, k)[j] = body0[j]
      BY <2>2, <2>5, <3>3, <3>4
    <3> QED
      BY <3>2, <3>3, <3>4, <3>5, SeqEqual
  <2>8. strip(t) = body0
    BY <1>3, <2>1 DEF strip
  <2> HIDE DEF most, tail, body0
  <2>9. body0 \in Seq(Char) /\ Marks(body0) = Marks(most)
    BY <2>3, <2>7, MarksLstrip
  <2>10. Marks(tail) = <<>> /\ Marks(most) \in Seq(Char)
    BY <2>3, <2>6, NoMarks, MarksType
  <2>11. Marks(t) = Marks(most)
    BY <2>3, <2>10, ConcatEmptySeq
  <2> QED
    BY <2>8, <2>9, <2>11
<1> QED
  BY <1>2, <1>3

-----------------------------------------------------------------------------
(* What is cut off, and what stays.                                        *)

\* f divides the text t.
Divides(f, t) ==
    /\ f.segment \in Seq(Char) /\ f.rest \in Seq(Char)
    /\ Len(f.rest) <= Len(t)
    /\ Marks(f.segment \o f.rest) = Marks(t)

\* A cut anywhere keeps every letter and stop.
LEMMA PiecesDivide ==
    ASSUME NEW t \in Seq(Char), NEW n \in 0..Len(t)
    PROVE  Divides(Pieces(t, n), t)
<1> DEFINE a == SubSeq(t, 1, n)
           b == SubSeq(t, n + 1, Len(t))
<1>1. /\ a \in Seq(Char) /\ b \in Seq(Char) /\ Len(b) = Len(t) - n
      /\ Marks(t) = Marks(a) \o Marks(b)
  BY MarksCut
<1>2. Pieces(t, n).segment = strip(a) /\ Pieces(t, n).rest = lstrip(b)
  BY DEF Pieces
<1> HIDE DEF a, b
<1>3. strip(a) \in Seq(Char) /\ Marks(strip(a)) = Marks(a)
  BY <1>1, MarksStrip
<1>4. lstrip(b) \in Seq(Char) /\ Marks(lstrip(b)) = Marks(b) /\ Len(lstrip(b)) <= Len(b)
  BY <1>1, MarksLstrip
<1>5. Marks(strip(a) \o lstrip(b)) = Marks(t)
  BY <1>1, <1>3, <1>4, MarksCat
<1>6. Len(lstrip(b)) <= Len(t)
  <2>1. Len(t) \in Nat /\ Len(lstrip(b)) \in Nat
    BY <1>4, LenProperties
  <2> QED
    BY <1>1, <1>4, <2>1
<1> QED
  BY <1>2, <1>3, <1>4, <1>5, <1>6 DEF Divides

\* Nothing is cut off, or everything.
LEMMA WholeDivides ==
    ASSUME NEW t \in Seq(Char)
    PROVE  /\ Divides([segment |-> <<>>, rest |-> t], t)
           /\ Divides([segment |-> strip(t), rest |-> <<>>], t)
<1>1. <<>> \o t = t /\ Len(t) \in Nat
  BY ConcatEmptySeq, LenProperties
<1>2. strip(t) \in Seq(Char) /\ Marks(strip(t)) = Marks(t)
  BY MarksStrip
<1>3. strip(t) \o <<>> = strip(t)
  BY <1>2, ConcatEmptySeq
<1>4. Len(t) <= Len(t) /\ Len(<<>>) <= Len(t)
  BY <1>1, NothingMarked
<1> QED
  BY <1>1, <1>2, <1>3, <1>4, NothingMarked DEF Divides

\* The search for the last sentence end, and the cut at the ceiling.
LEMMA FlushDivides ==
    ASSUME NEW t \in Seq(Char), NEW force \in BOOLEAN
    PROVE  Divides(Flushed(t, force), t)
<1>1. PICK l \in Nat : l = Len(t)
  BY LenProperties
<1>2. Divides(split_at_last_boundary(t), t)
  <2>1. CASE SentenceEnds(t) = {}
    BY <2>1, WholeDivides DEF split_at_last_boundary
  <2>2. CASE SentenceEnds(t) # {}
    <3>1. SentenceEnds(t) \in SUBSET (1..Len(t))
      BY DEF SentenceEnds
    <3>2. Max(SentenceEnds(t)) \in SentenceEnds(t)
      BY <2>2, <3>1, Ends
    <3>3. Max(SentenceEnds(t)) \in 0..Len(t)
      BY <1>1, <3>1, <3>2
    <3> QED
      BY <2>2, <3>3, PiecesDivide DEF split_at_last_boundary
  <2> QED
    BY <2>1, <2>2
<1>3. ASSUME Len(t) >= MAX_BUFFER_CHARS PROVE Divides(HardCut(t), t)
  <2> DEFINE blanks == {i \in 2..MAX_BUFFER_CHARS : t[i] = "blank"}
             n == IF blanks = {} THEN MAX_BUFFER_CHARS ELSE Max(blanks) - 1
  <2>1. MAX_BUFFER_CHARS \in Nat /\ MAX_BUFFER_CHARS <= l
    BY <1>1, <1>3, StreamInputAssumption
  <2>2. n \in 0..Len(t)
    <3>1. CASE blanks = {}
      BY <1>1, <2>1, <3>1
    <3>2. CASE blanks # {}
      <4>1. blanks \in SUBSET (1..Len(t)) /\ blanks \in SUBSET (2..MAX_BUFFER_CHARS)
        BY <1>1, <2>1
      <4> HIDE DEF blanks
      <4>2. Max(blanks) \in blanks
        BY <3>2, <4>1, Ends
      <4>3. PICK x \in 2..MAX_BUFFER_CHARS : x = Max(blanks)
        BY <4>1, <4>2
      <4>4. x - 1 \in 0..Len(t)
        BY <1>1, <2>1
      <4>5. Max(blanks) - 1 \in 0..Len(t)
        BY <4>3, <4>4
      <4> QED
        BY <3>2, <4>5
    <3> QED
      BY <3>1, <3>2
  <2>3. HardCut(t) = Pieces(t, n)
    BY DEF HardCut
  <2> HIDE DEF n
  <2> QED
    BY <2>2, <2>3, PiecesDivide
<1> QED
  BY <1>2, <1>3, WholeDivides DEF Flushed

-----------------------------------------------------------------------------
(* A connection.                                                           *)

\* Between two segments nothing is being spoken, and nothing is left in the buffer of
\* a connection that drains.
StreamInv ==
    /\ StreamTypeOK
    /\ TextConserved
    /\ phase \in {"handshake", "receive"} => segment = <<>> /\ ~draining
    /\ phase = "done" => segment = <<>> /\ draining
    /\ draining => buffer = <<>>

\* At the start nothing was sent, and nothing is due.
LEMMA InitStream == ASSUME StreamInit PROVE StreamInv
<1>1. <<>> \o <<>> = <<>>
  BY NothingMarked, ConcatEmptySeq
<1>2. StreamTypeOK
  <2>1. Len(buffer) <= BufferLimit /\ messages \in 0..MaxMessages
    BY NothingMarked, StreamInputAssumption DEF StreamInit
  <2>2. buffer \in Seq(Char) /\ segment \in Seq(Char) /\ due \in Seq(Char)
    BY NothingMarked DEF StreamInit
  <2> QED
    BY <2>1, <2>2 DEF StreamInit, StreamTypeOK, Phases
<1>3. TextConserved
  BY <1>1, NothingMarked DEF StreamInit, TextConserved
<1> QED
  BY <1>2, <1>3 DEF StreamInit, StreamInv

\* What is answered is taken off what is due.
LEMMA Answered ==
    ASSUME NEW s \in Seq(Char), NEW u \in Seq(Char)
    PROVE  SubSeq(s \o u, Len(s) + 1, Len(s \o u)) = u
<1>1. PICK n \in Nat, m \in Nat : n = Len(s) /\ m = Len(u)
  BY LenProperties
<1> DEFINE t == s \o u
<1>2. t \in Seq(Char) /\ Len(t) = n + m /\ \A i \in 1..m : t[n + i] = u[i]
  BY <1>1, Behind
<1> HIDE DEF t
<1>3. \A i \in 1..(n + m) : t[i] \in Char
  BY <1>2, ElementOfSeq
<1>4. /\ SubSeq(t, n + 1, n + m) \in Seq(Char) /\ Len(SubSeq(t, n + 1, n + m)) = m
      /\ \A i \in 1..m : SubSeq(t, n + 1, n + m)[i] = t[n + i]
  <2> DEFINE a == n + 1
             b == n + m
  <2>1. a \in Int /\ b \in Int /\ \A i \in a..b : t[i] \in Char
    BY <1>3
  <2>2. b - a + 1 = m /\ (a <= b <=> m > 0) /\ \A i \in 1..m : a + i - 1 = n + i
    OBVIOUS
  <2> HIDE DEF a, b
  <2>3. /\ SubSeq(t, a, b) \in Seq(Char)
        /\ Len(SubSeq(t, a, b)) = IF a <= b THEN b - a + 1 ELSE 0
        /\ \A i \in 1..(b - a + 1) : SubSeq(t, a, b)[i] = t[a + i - 1]
    BY <2>1, SubSeqProperties
  <2>4. /\ SubSeq(t, a, b) \in Seq(Char) /\ Len(SubSeq(t, a, b)) = m
        /\ \A i \in 1..m : SubSeq(t, a, b)[i] = t[n + i]
    <3>1. Len(SubSeq(t, a, b)) = m
      BY <2>2, <2>3
    <3>2. ASSUME NEW i \in 1..m PROVE SubSeq(t, a, b)[i] = t[n + i]
      <4>1. i \in 1..(b - a + 1)
        BY <2>2
      <4>2. SubSeq(t, a, b)[i] = t[a + i - 1]
        BY <2>3, <4>1, Zenon
      <4>3. a + i - 1 = n + i
        BY <2>2
      <4> QED
        BY <4>2, <4>3
    <3> QED
      BY <2>3, <3>1, <3>2
  <2> QED
    BY <2>4 DEF a, b
<1>5. SubSeq(t, n + 1, n + m) = u
  BY <1>1, <1>2, <1>4, SeqEqual, ZenonT(30)
<1> QED
  BY <1>1, <1>2, <1>5 DEF t

\* A segment that is answered leaves segment, and its marks what is due.
LEMMA StepAnswer ==
    ASSUME StreamInv, NEW a \in {"spoken", "refused"}, AnswerSegment(a),
           phase \notin {"handshake", "receive", "done"},
           UNCHANGED <<client, buffer, draining, messages>>
    PROVE  StreamInv'
<1>1. /\ segment \in Seq(Char) /\ buffer \in Seq(Char)
      /\ due = Marks(segment \o buffer)
  BY DEF StreamInv, StreamTypeOK, TextConserved
<1>2. Marks(segment) \in Seq(Char) /\ Marks(buffer) \in Seq(Char)
  BY <1>1, MarksType
<1>3. due = Marks(segment) \o Marks(buffer)
  BY <1>1, MarksCat
<1>4. due' = Marks(buffer) /\ segment' = <<>>
  <2>1. due' = SubSeq(due, Len(Marks(segment)) + 1, Len(due)) /\ segment' = <<>>
    BY DEF AnswerSegment
  <2> QED
    BY <1>2, <1>3, <2>1, Answered
<1>5. <<>> \o buffer = buffer
  BY <1>1, ConcatEmptySeq
<1>6. TextConserved'
  BY <1>4, <1>5 DEF TextConserved
<1>7. StreamTypeOK'
  BY <1>2, <1>4, NothingMarked DEF AnswerSegment, StreamInv, StreamTypeOK, Phases
<1> QED
  BY <1>4, <1>6, <1>7 DEF AnswerSegment, StreamInv, StreamTypeOK

\* What a message brings is due, in the buffer or in the segment that is cut off it.
LEMMA StepMessage ==
    ASSUME StreamInv, Message
    PROVE  StreamInv'
<1>1. PICK t \in Texts \cup {<<>>}, force \in BOOLEAN : Overflow(t) \/ AppendText(t, force)
  BY DEF Message
<1>2. /\ phase = "receive" /\ messages < MaxMessages /\ messages' = messages + 1
      /\ UNCHANGED <<client, draining>>
      /\ StreamTypeOK /\ buffer \in Seq(Char) /\ segment = <<>> /\ ~draining
      /\ due = Marks(segment \o buffer)
  BY DEF Message, StreamInv, StreamTypeOK, TextConserved
<1>3. messages' \in 0..MaxMessages
  BY <1>2, StreamInputAssumption DEF StreamTypeOK
<1>4. t \in Seq(Char)
  BY NothingMarked, StreamInputAssumption DEF Char
<1>5. due = Marks(buffer)
  BY <1>2, ConcatEmptySeq
<1>6. CASE Overflow(t)
  <2>1. buffer' = <<>> /\ due' = <<>> /\ told' = "refused" /\ UNCHANGED <<phase, segment>>
    BY <1>6 DEF Overflow
  <2>2. <<>> \o <<>> = <<>>
    BY NothingMarked, ConcatEmptySeq
  <2>3. TextConserved'
    BY <1>2, <2>1, <2>2, NothingMarked DEF TextConserved
  <2>4. StreamTypeOK'
    BY <1>2, <1>3, <2>1, NothingMarked, StreamInputAssumption DEF StreamTypeOK
  <2> QED
    BY <1>2, <2>1, <2>3, <2>4 DEF StreamInv
<1>7. CASE AppendText(t, force)
  <2> DEFINE w == buffer \o t
             f == Flushed(w, force)
  <2>1. /\ Len(buffer) + Len(t) <= BufferLimit
        /\ buffer' = f.rest /\ segment' = f.segment
        /\ phase' = IF f.segment = <<>> THEN "receive" ELSE "admit"
        /\ due' = due \o Marks(t) /\ UNCHANGED told
    BY <1>7 DEF AppendText
  <2>2. w \in Seq(Char) /\ Len(w) = Len(buffer) + Len(t)
    BY <1>2, <1>4, ConcatProperties
  <2>3. Marks(w) = due \o Marks(t)
    BY <1>2, <1>4, <1>5, MarksCat
  <2> HIDE DEF w
  <2>4. Divides(f, w)
    BY <2>2, FlushDivides
  <2> HIDE DEF f
  <2>5. /\ segment' \in Seq(Char) /\ buffer' \in Seq(Char)
        /\ Len(buffer') <= BufferLimit
        /\ due' = Marks(segment' \o buffer')
    <3>1. /\ f.segment \in Seq(Char) /\ f.rest \in Seq(Char) /\ Len(f.rest) <= Len(w)
          /\ Marks(f.segment \o f.rest) = Marks(w)
      BY <2>4 DEF Divides
    <3>2. Len(f.rest) <= BufferLimit
      <4>1. Len(f.rest) \in Nat /\ Len(w) \in Nat
        BY <2>2, <3>1, LenProperties
      <4> QED
        BY <2>1, <2>2, <3>1, <4>1, StreamInputAssumption
    <3> QED
      BY <2>1, <2>3, <3>1, <3>2
  <2>6. due' \in Seq(Char)
    <3>1. due \in Seq(Char) /\ Marks(t) \in Seq(Char)
      BY <1>2, <1>4, MarksType DEF StreamTypeOK
    <3> QED
      BY <2>1, <3>1, ConcatProperties
  <2>7. phase' \in {"receive", "admit"} /\ (phase' = "receive" => segment' = <<>>)
    BY <2>1
  <2>8. StreamTypeOK'
    BY <1>2, <1>3, <2>1, <2>5, <2>6, <2>7 DEF StreamTypeOK, Phases
  <2>9. TextConserved'
    BY <2>5 DEF TextConserved
  <2> QED
    BY <1>2, <2>7, <2>8, <2>9 DEF StreamInv
<1> QED
  BY <1>1, <1>6, <1>7

\* At the end of the input all of the buffer becomes the last segment.
LEMMA StepEnd ==
    ASSUME StreamInv, EndOfInput
    PROVE  StreamInv'
<1>1. /\ phase = "receive" /\ draining' /\ segment' = strip(buffer) /\ buffer' = <<>>
      /\ phase' = (IF segment' = <<>> THEN "done" ELSE "admit")
      /\ UNCHANGED <<client, due, told, messages>>
      /\ StreamTypeOK /\ buffer \in Seq(Char) /\ segment = <<>>
      /\ due = Marks(segment \o buffer)
  BY DEF EndOfInput, StreamInv, StreamTypeOK, TextConserved
<1>2. strip(buffer) \in Seq(Char) /\ Marks(strip(buffer)) = Marks(buffer)
  BY <1>1, MarksStrip
<1>3. <<>> \o buffer = buffer /\ strip(buffer) \o <<>> = strip(buffer)
  BY <1>1, <1>2, ConcatEmptySeq
<1>4. TextConserved'
  BY <1>1, <1>2, <1>3 DEF TextConserved
<1>5. StreamTypeOK'
  BY <1>1, <1>2, NothingMarked, StreamInputAssumption DEF EndOfInput, StreamTypeOK, Phases
<1> QED
  BY <1>1, <1>4, <1>5 DEF StreamInv

\* Every step keeps the invariant.
LEMMA StepStream ==
    ASSUME StreamInv, [StreamNext]_streamVars
    PROVE  StreamInv'
<1> USE DEF StreamInv, StreamTypeOK, TextConserved, Phases
<1>1. CASE UNCHANGED streamVars
  BY <1>1 DEF streamVars
<1>2. CASE Handshake
  BY <1>2 DEF Handshake
<1>3. CASE BadMessage
  BY <1>3, StreamInputAssumption DEF BadMessage
<1>4. CASE Leave
  BY <1>4 DEF Leave
<1>5. CASE NoticeLeft
  BY <1>5 DEF NoticeLeft
<1>6. CASE Finish
  BY <1>6 DEF Finish
<1>7. ASSUME AdmitSegment \/ ReserveSegment \/ SubmitSegment \/ SegmentResult PROVE StreamInv'
  <2>1. CASE \E a \in {"spoken", "refused"} : AnswerSegment(a)
    BY <1>7, <2>1, StepAnswer DEF AdmitSegment, ReserveSegment, SubmitSegment, SegmentResult
  <2>2. CASE ~\E a \in {"spoken", "refused"} : AnswerSegment(a)
    BY <1>7, <2>2
    DEF AdmitSegment, ReserveSegment, SubmitSegment, SegmentResult, Continue, Escape
  <2> QED
    BY <2>1, <2>2
<1> QED
  BY <1>1, <1>2, <1>3, <1>4, <1>5, <1>6, <1>7, StepMessage, StepEnd
  DEF StreamNext, StreamHandler

\* However a client cuts its text into messages, and however the connection goes, every letter
\* and stop the handler accepted is in the segment in hand or in the buffer, once and in order,
\* until it is spoken or refused, and none is left when the client is told "done".
THEOREM TextSound == StreamSpec => []StreamSound
<1>1. StreamInit => StreamInv
  BY InitStream
<1>2. StreamInv /\ [StreamNext]_streamVars => StreamInv'
  BY StepStream
<1>3. StreamInv => StreamSound
  <2>1. ASSUME StreamInv, phase = "done" PROVE due = <<>>
    <3>1. due = Marks(<<>> \o <<>>)
      BY <2>1 DEF StreamInv, TextConserved
    <3>2. <<>> \o <<>> = <<>>
      BY NothingMarked, ConcatEmptySeq
    <3> QED
      BY <3>1, <3>2, NothingMarked
  <2> QED
    BY <2>1 DEF StreamInv, StreamSound, DoneMeansAnswered
<1> QED
  BY <1>1, <1>2, <1>3, PTL DEF StreamSpec

-----------------------------------------------------------------------------
(* The knobs of the engine.                                                *)

\* The two uses of Min and Max here.
LEMMA TwoNumbers ==
    ASSUME NEW x \in Int, NEW y \in Int
    PROVE  /\ Min({x, y}) = IF x <= y THEN x ELSE y
           /\ Max({x, y}) = IF x <= y THEN y ELSE x
<1> DEFINE a == IF x <= y THEN x ELSE y
           b == IF x <= y THEN y ELSE x
<1>1. a \in {x, y} /\ (\A z \in {x, y} : a <= z)
      /\ \A w \in {x, y} : (\A z \in {x, y} : w <= z) => w = a
  OBVIOUS
<1>2. b \in {x, y} /\ (\A z \in {x, y} : b >= z)
      /\ \A w \in {x, y} : (\A z \in {x, y} : w >= z) => w = b
  OBVIOUS
<1> HIDE DEF a, b
<1>3. Min({x, y}) = a
  BY <1>1, Zenon DEF Min
<1>4. Max({x, y}) = b
  BY <1>2, Zenon DEF Max
<1> QED
  BY <1>3, <1>4 DEF a, b

\* clamp stays in its interval, and does nothing inside it.
LEMMA Clamped ==
    ASSUME NEW x \in Int, NEW lo \in Int, NEW hi \in Int, lo <= hi
    PROVE  clamp(x, lo, hi) \in lo..hi /\ (x \in lo..hi => clamp(x, lo, hi) = x)
<1> DEFINE y == Min({x, hi})
<1>1. y \in Int /\ y <= hi /\ (x <= hi => y = x)
  BY TwoNumbers
<1> HIDE DEF y
<1>2. Max({lo, y}) = IF lo <= y THEN y ELSE lo
  BY <1>1, TwoNumbers
<1>3. clamp(x, lo, hi) = Max({lo, y})
  BY DEF clamp, y
<1> QED
  BY <1>1, <1>2, <1>3

\* The presets are inside the envelope, also the one a job without a model has.
LEMMA Presets ==
    ASSUME NEW id \in models \cup {"unset"}
    PROVE  /\ DOMAIN resolve_model(id) = {"cfg_value", "inference_timesteps"}
           /\ resolve_model(id).cfg_value \in 10..35
           /\ resolve_model(id).inference_timesteps \in 4..40
<1>1. \A m \in models : /\ DOMAIN _BY_ID[m] = {"cfg_value", "inference_timesteps"}
                        /\ _BY_ID[m].cfg_value \in 10..35
                        /\ _BY_ID[m].inference_timesteps \in 4..40
  BY DEF _BY_ID, Preset, models
<1>2. (IF id = "unset" THEN DEFAULT_MODEL_ID ELSE id) \in models
  BY DEF DEFAULT_MODEL_ID, models
<1> QED
  BY <1>1, <1>2 DEF resolve_model

\* The preset, the offsets and the parameters of an order, inside the envelope.
LEMMA KnobsOfOrder ==
    ASSUME NEW o \in Orders
    PROVE  LET k == engine_overrides(o) IN
           /\ k.cfg_value \in 10..35 /\ k.inference_timesteps \in 4..40
           /\ has(o.settings, "stability") /\ o.settings["stability"] = 5 =>
                 \/ has(o.params, "inference_timesteps")
                 \/ k.inference_timesteps = resolve_model(o.model).inference_timesteps
           /\ has(o.settings, "similarity_boost") /\ o.settings["similarity_boost"] = 5 =>
                 \/ has(o.params, "cfg_value")
                 \/ k.cfg_value = resolve_model(o.model).cfg_value
<1> DEFINE p == resolve_model(o.model)
           vs == layered(o.defaults, o.settings)
           t == tuned(p, vs)
           k == layered(t, o.params)
<1>1. /\ o.model \in models \cup {"unset"}
      /\ IsDict(o.defaults, {"stability", "similarity_boost", "speed"})
      /\ IsDict(o.settings, {"stability", "similarity_boost", "speed"})
      /\ IsDict(o.params, {"cfg_value", "inference_timesteps"})
      /\ has(o.params, "cfg_value") => o.params["cfg_value"] \in 10..35
      /\ has(o.params, "inference_timesteps") => o.params["inference_timesteps"] \in 4..40
  BY OrdersAssumption
<1>2. /\ \A n \in DOMAIN vs : vs[n] \in Int
      /\ \A n \in DOMAIN o.settings : has(vs, n) /\ vs[n] = o.settings[n]
  BY <1>1 DEF layered, has, IsDict
<1>3. /\ p.cfg_value \in 10..35 /\ p.inference_timesteps \in 4..40
  BY <1>1, Presets
<1>4. engine_overrides(o) = k
  BY DEF engine_overrides
<1> HIDE DEF p, vs
<1>5. /\ t.cfg_value \in 10..35
      /\ has(vs, "similarity_boost") /\ vs["similarity_boost"] = 5 => t.cfg_value = p.cfg_value
  <2> DEFINE x == p.cfg_value + (IF has(vs, "similarity_boost")
                                 THEN vs["similarity_boost"] - 5 ELSE 0)
  <2>1. x \in Int /\ (has(vs, "similarity_boost") /\ vs["similarity_boost"] = 5 => x = p.cfg_value)
    BY <1>2, <1>3 DEF has
  <2>2. t.cfg_value = clamp(x, 10, 35)
    BY DEF tuned
  <2> HIDE DEF x
  <2>3. clamp(x, 10, 35) \in 10..35 /\ (x \in 10..35 => clamp(x, 10, 35) = x)
    <3>1. x \in Int
      BY <2>1
    <3>2. PICK lo \in Int, hi \in Int : lo = 10 /\ hi = 35 /\ lo <= hi
      OBVIOUS
    <3>3. clamp(x, lo, hi) \in lo..hi /\ (x \in lo..hi => clamp(x, lo, hi) = x)
      <4>1. lo \in Int /\ hi \in Int /\ lo <= hi
        BY <3>2
      <4> QED
        BY <3>1, <4>1, Clamped, Zenon
    <3> QED
      BY <3>2, <3>3
  <2> HIDE DEF t
  <2> QED
    BY <1>3, <2>1, <2>2, <2>3
<1>6. /\ t.inference_timesteps \in 4..40
      /\ has(vs, "stability") /\ vs["stability"] = 5 =>
            t.inference_timesteps = p.inference_timesteps
  <2> DEFINE x == IF has(vs, "stability")
                  THEN (10 * p.inference_timesteps + 16 * (vs["stability"] - 5)) \div 10
                  ELSE p.inference_timesteps
  <2>1. x \in Int /\ (has(vs, "stability") /\ vs["stability"] = 5 => x = p.inference_timesteps)
    BY <1>2, <1>3 DEF has
  <2>2. t.inference_timesteps = clamp(x, 4, 40)
    BY DEF tuned
  <2> HIDE DEF x
  <2>3. clamp(x, 4, 40) \in 4..40 /\ (x \in 4..40 => clamp(x, 4, 40) = x)
    <3>1. x \in Int
      BY <2>1
    <3>2. PICK lo \in Int, hi \in Int : lo = 4 /\ hi = 40 /\ lo <= hi
      OBVIOUS
    <3>3. clamp(x, lo, hi) \in lo..hi /\ (x \in lo..hi => clamp(x, lo, hi) = x)
      <4>1. lo \in Int /\ hi \in Int /\ lo <= hi
        BY <3>2
      <4> QED
        BY <3>1, <4>1, Clamped, Zenon
    <3> QED
      BY <3>2, <3>3
  <2> HIDE DEF t
  <2> QED
    BY <1>3, <2>1, <2>2, <2>3
<1>7. DOMAIN t = {"cfg_value", "inference_timesteps"}
  BY DEF tuned
<1> HIDE DEF t
<1>8. /\ k.cfg_value = IF has(o.params, "cfg_value") THEN o.params["cfg_value"] ELSE t.cfg_value
      /\ k.inference_timesteps = IF has(o.params, "inference_timesteps")
                                 THEN o.params["inference_timesteps"] ELSE t.inference_timesteps
  BY <1>7 DEF layered
<1> HIDE DEF k
<1> QED
  BY <1>1, <1>2, <1>4, <1>5, <1>6, <1>8 DEF has, p

-----------------------------------------------------------------------------
(* The audio.                                                              *)

Upto(s, f, n) == f = [i \in 0..n |-> IF i = 0 THEN 0 ELSE f[i - 1] + s[i]]

\* The partial sums of a sequence exist,
LEMMA UptoExists ==
    ASSUME NEW s, NEW l \in Nat
    PROVE  \E f : Upto(s, f, l)
<1> DEFINE S == {n \in Nat : ~\E f : Upto(s, f, n)}
<1>1. SUFFICES ASSUME S # {} PROVE FALSE
  OBVIOUS
<1>2. PICK n \in S : \A m \in S : n <= m
  <2>1. S \in SUBSET Nat
    OBVIOUS
  <2> HIDE DEF S
  <2> QED
    BY <1>1, <2>1, Least, Zenon
<1>3. CASE n = 0
  <2> DEFINE f == [i \in 0..0 |-> 0]
  <2>1. Upto(s, f, 0)
    BY DEF Upto
  <2> QED
    BY <1>2, <1>3, <2>1
<1>4. CASE n # 0
  <2>1. n - 1 \in Nat /\ n - 1 \notin S
    BY <1>2, <1>4
  <2>2. PICK g : Upto(s, g, n - 1)
    BY <2>1
  <2> DEFINE f == [i \in 0..n |-> IF i < n THEN g[i] ELSE g[n - 1] + s[n]]
  <2>3. ASSUME NEW i \in 0..n
        PROVE  f[i] = IF i = 0 THEN 0 ELSE f[i - 1] + s[i]
    <3>1. CASE i = n
      BY <1>4, <2>1, <3>1
    <3>2. CASE i # n
      <4>1. i \in 0..(n - 1) /\ i < n /\ (i # 0 => i - 1 \in 0..n /\ i - 1 < n)
        BY <1>4, <3>2
      <4>2. g[i] = IF i = 0 THEN 0 ELSE g[i - 1] + s[i]
        BY <2>2, <4>1 DEF Upto
      <4>3. f[i] = g[i] /\ (i # 0 => f[i - 1] = g[i - 1])
        BY <4>1
      <4> HIDE DEF f
      <4> QED
        BY <4>2, <4>3
    <3> QED
      BY <3>1, <3>2
  <2>4. f = [i \in 0..n |-> f[i]]
    OBVIOUS
  <2> HIDE DEF f
  <2>5. f = [i \in 0..n |-> IF i = 0 THEN 0 ELSE f[i - 1] + s[i]]
    BY <2>3, <2>4
  <2> QED
    BY <1>2, <2>5 DEF Upto
<1> QED
  BY <1>3, <1>4

\* and are integers.
LEMMA SumType ==
    ASSUME NEW s \in Seq(Int)
    PROVE  sum(s) \in Int
<1>1. PICK l \in Nat : l = Len(s)
  BY LenProperties
<1> DEFINE f == CHOOSE f : Upto(s, f, l)
<1>2. sum(s) = f[l]
  BY <1>1, Zenon DEF sum, Upto
<1>3. Upto(s, f, l)
  BY UptoExists
<1> HIDE DEF f
<1> DEFINE S == {n \in 0..l : f[n] \notin Int}
<1>4. SUFFICES ASSUME S # {} PROVE FALSE
  BY <1>2
<1>5. PICK n \in S : \A m \in S : n <= m
  <2>1. S \in SUBSET Nat
    OBVIOUS
  <2> HIDE DEF S
  <2> QED
    BY <1>4, <2>1, Least, Zenon
<1>6. n \in 0..l /\ f[n] = IF n = 0 THEN 0 ELSE f[n - 1] + s[n]
  BY <1>3, <1>5 DEF Upto
<1>7. n # 0
  BY <1>5, <1>6
<1>8. n - 1 \in 0..l /\ n - 1 \notin S /\ n \in 1..l
  BY <1>5, <1>6, <1>7
<1>9. f[n - 1] \in Int /\ s[n] \in Int
  BY <1>1, <1>8, ElementOfSeq
<1> QED
  BY <1>5, <1>6, <1>7, <1>9

\* A sample that was divided is a whole number.
LEMMA Truncated ==
    ASSUME NEW a \in Int, NEW b \in Int, b > 0
    PROVE  trunc(a, b) \in Int
<1>1. a \div b \in Int /\ (-a) \div b \in Int
  OBVIOUS
<1> QED
  BY <1>1 DEF trunc

\* The removal of an offset returns samples, as many.
LEMMA DcOffset ==
    ASSUME NEW s \in Seq(Sample)
    PROVE  apply_dc_offset_removal(s) \in Seq(Sample)
<1>1. PICK n \in Nat : n = Len(s)
  BY LenProperties
<1>2. Sample \subseteq Int /\ Sample = (-FullScale - 1)..FullScale
      /\ -FullScale - 1 \in Int /\ FullScale \in Int /\ -FullScale - 1 <= FullScale
  BY TuningAssumption DEF Sample
<1>3. s \in Seq(Int) /\ sum(s) \in Int
  <2>1. s \in Seq(Int)
    BY <1>2, SeqMonotonic
  <2> QED
    BY <2>1, SumType
<1> DEFINE x(i) == trunc(n * s[i] - sum(s), n)
           v == [i \in 1..n |-> clamp(x(i), -FullScale - 1, FullScale)]
<1>4. ASSUME NEW i \in 1..n PROVE clamp(x(i), -FullScale - 1, FullScale) \in Sample
  <2>1. s[i] \in Int
    BY <1>1, <1>3, ElementOfSeq
  <2>2. n * s[i] - sum(s) \in Int /\ n > 0 /\ n \in Int
    BY <1>3, <2>1
  <2>3. x(i) \in Int
    BY <2>2, Truncated
  <2> HIDE DEF x
  <2> QED
    BY <1>2, <2>3, Clamped
<1>5. v \in Seq(Sample)
  <2>1. v \in [1..n -> Sample]
    BY <1>4
  <2> HIDE DEF v
  <2> QED
    BY <2>1, IsASeq
<1>6. apply_dc_offset_removal(s) = IF 2 * absolute(sum(s)) < n THEN s ELSE v
  BY <1>1 DEF apply_dc_offset_removal
<1> QED
  BY <1>5, <1>6

\* All of s is between lo and hi.
Within(s, lo, hi) == \A i \in 1..Len(s) : s[i] \in lo..hi

\* The limiter is blind to the lowest sample only.
LEMMA PeakLimit ==
    ASSUME NEW s \in Seq(Sample)
    PROVE  /\ apply_peak_limit(s) \in Seq(Sample)
           /\ Len(apply_peak_limit(s)) = Len(s)
           /\ Within(apply_peak_limit(s), -FullScale - 1, Ceiling)
           /\ (-FullScale - 1) \notin ToSet(s) => Within(apply_peak_limit(s), -Ceiling, Ceiling)
<1>1. PICK n \in Nat : n = Len(s) /\ DOMAIN s = 1..n
  BY LenProperties
<1>2. /\ FullScale \in Nat /\ Ceiling \in Nat /\ Ceiling <= FullScale
      /\ -FullScale - 1 \in Int /\ -Ceiling \in Int /\ -FullScale - 1 <= -Ceiling
      /\ -Ceiling <= Ceiling
      /\ Sample = (-FullScale - 1)..FullScale
  BY TuningAssumption DEF Sample
<1>3. \A i \in 1..n : s[i] \in Sample
  BY <1>1, ElementOfSeq
<1>4. CASE \A i \in DOMAIN s : np_abs(s[i]) <= Ceiling
  <2>1. apply_peak_limit(s) = s
    BY <1>4 DEF apply_peak_limit
  <2>2. ASSUME NEW i \in 1..n
        PROVE  /\ s[i] \in (-FullScale - 1)..Ceiling
               /\ s[i] # -FullScale - 1 => s[i] \in (-Ceiling)..Ceiling
    <3>1. PICK y \in Sample : y = s[i] /\ np_abs(y) <= Ceiling
      BY <1>1, <1>3, <1>4
    <3>2. y \in (-FullScale - 1)..Ceiling /\ (y # -FullScale - 1 => y \in (-Ceiling)..Ceiling)
      BY <1>2, <3>1 DEF np_abs, absolute
    <3> QED
      BY <3>1, <3>2
  <2> QED
    BY <1>1, <2>1, <2>2 DEF Within, ToSet
<1>5. CASE ~ \A i \in DOMAIN s : np_abs(s[i]) <= Ceiling
  <2> DEFINE v == [i \in 1..n |-> clamp(s[i], -Ceiling, Ceiling)]
  <2>1. apply_peak_limit(s) = v
    BY <1>1, <1>5 DEF apply_peak_limit
  <2>2. ASSUME NEW i \in 1..n PROVE clamp(s[i], -Ceiling, Ceiling) \in (-Ceiling)..Ceiling
    <3>1. PICK y \in Int, lo \in Int : y = s[i] /\ lo = -Ceiling /\ lo <= Ceiling
      BY <1>2, <1>3
    <3>2. Ceiling \in Int /\ lo <= Ceiling
      BY <1>2, <3>1
    <3>3. clamp(y, lo, Ceiling) \in lo..Ceiling
      BY <3>2, Clamped, Zenon
    <3> QED
      BY <3>1, <3>3
  <2>3. v \in [1..n -> (-Ceiling)..Ceiling]
    BY <2>2
  <2> HIDE DEF v
  <2>4. v \in [1..n -> Sample] /\ \A i \in 1..n : v[i] \in (-FullScale - 1)..Ceiling
    BY <1>2, <2>3
  <2>5. v \in Seq(Sample) /\ Len(v) = n
    BY <2>4, IsASeq, LenProperties
  <2> QED
    BY <1>1, <2>1, <2>3, <2>4, <2>5 DEF Within
<1> QED
  BY <1>4, <1>5

\* A factor above zero can be divided out.
LEMMA Between ==
    ASSUME NEW d \in Int, d > 0, NEW i \in Int, NEW m \in Int
    PROVE  /\ i * d <= m * d => i <= m
           /\ i * d < m * d => i < m
  OBVIOUS

\* Rounding towards zero does not leave an interval around zero.
LEMMA TruncatedWithin ==
    ASSUME NEW a \in Int, NEW d \in Int, d > 0, NEW lo \in Int, NEW hi \in Int, lo <= 0, 0 <= hi,
           lo * d <= a, a <= hi * d
    PROVE  trunc(a, d) \in lo..hi
<1>1. CASE a >= 0
  <2>1. PICK q \in Int : q = a \div d /\ 0 <= q /\ q * d <= a
    BY <1>1
  <2>2. q <= hi
    BY <2>1, Between
  <2> QED
    BY <1>1, <2>1, <2>2 DEF trunc
<1>2. CASE a < 0
  <2>1. PICK q \in Int : q = (-a) \div d /\ 0 <= q /\ q * d <= -a
    BY <1>2
  <2>2. q * d <= (0 - lo) * d
    BY <2>1
  <2>3. q <= 0 - lo
    BY <2>2, Between
  <2> QED
    BY <1>2, <2>1, <2>3 DEF trunc
<1> QED
  BY <1>1, <1>2

\* What is between two samples is between their bounds.
LEMMA Mixed ==
    ASSUME NEW x \in Int, NEW y \in Int, NEW d \in Int, NEW f \in Int, 0 <= f, f < d,
           NEW lo \in Int, NEW hi \in Int, lo <= x, x <= hi, lo <= y, y <= hi
    PROVE  lo * d <= x * (d - f) + y * f /\ x * (d - f) + y * f <= hi * d
<1>1. lo * (d - f) <= x * (d - f) /\ x * (d - f) <= hi * (d - f)
  OBVIOUS
<1>2. lo * f <= y * f /\ y * f <= hi * f
  OBVIOUS
<1>3. lo * (d - f) + lo * f = lo * d /\ hi * (d - f) + hi * f = hi * d
  OBVIOUS
<1> QED
  BY <1>1, <1>2, <1>3

\* A length, at least one.
LEMMA OneAndMore ==
    ASSUME NEW y \in Int
    PROVE  Max({1, y}) = IF 1 <= y THEN y ELSE 1
<1>1. PICK one \in Int : one = 1
  OBVIOUS
<1>2. one \in Int
  OBVIOUS
<1>3. Max({one, y}) = IF one <= y THEN y ELSE one
  BY <1>2, TwoNumbers, Zenon
<1> QED
  BY <1>1, <1>3

\* A product grows with its factors.
LEMMA Times ==
    ASSUME NEW m \in Nat, NEW d \in Int, m <= d, NEW w \in Nat
    PROVE  m * w \in Nat /\ m * w <= w * d
  OBVIOUS

\* Where to look in a sequence for the point of a division, and how far from it.
LEMMA Quotient ==
    ASSUME NEW a \in Nat, NEW d \in Int, d > 0, NEW w \in Int, a <= w * d
    PROVE  \E i \in Int, f \in Int : /\ i = a \div d /\ f = a % d
                                     /\ 0 <= f /\ f < d /\ 0 <= i
                                     /\ i <= w /\ (f # 0 => i < w)
<1>1. PICK i \in Int, f \in Int : /\ i = a \div d /\ f = a % d /\ a = i * d + f
                                 /\ 0 <= f /\ f < d /\ 0 <= i
  OBVIOUS
<1>2. PICK u \in Int, v \in Int : u = i * d /\ v = w * d
  OBVIOUS
<1>3. u <= v /\ (f # 0 => u < v)
  <2>1. a = u + f /\ a <= v
    BY <1>1, <1>2
  <2> QED
    BY <1>1, <2>1
<1>4. i <= w /\ (f # 0 => i < w)
  BY <1>2, <1>3, Between
<1> QED
  BY <1>1, <1>4

\* Interpolation does not leave the interval of its samples.
LEMMA ResampledWithin ==
    ASSUME NEW s \in Seq(Int), s # <<>>, NEW len \in Nat, len > 0,
           NEW lo \in Int, NEW hi \in Int, lo <= 0, 0 <= hi, Within(s, lo, hi)
    PROVE  resampled(s, len) \in Seq(Int) /\ Len(resampled(s, len)) = len
           /\ Within(resampled(s, len), lo, hi)
<1>1. PICK n \in Nat : n = Len(s) /\ n > 0
  BY LenProperties, EmptySeq
<1>2. \A i \in 1..n : s[i] \in Int /\ lo <= s[i] /\ s[i] <= hi
  BY <1>1, ElementOfSeq DEF Within
<1> DEFINE den == Max({1, len - 1})
           where(k) == (k - 1) * (Len(s) - 1)
           value(k) == LET i == where(k) \div den
                           f == where(k) % den
                       IN  s[i + 1] * (den - f) + (IF f = 0 THEN 0 ELSE s[i + 2] * f)
<1>3. resampled(s, len) = [k \in 1..len |-> trunc(value(k), den)]
  BY Zenon DEF resampled
<1>4. den \in Int /\ den > 0 /\ den >= len - 1
  <2>1. PICK y \in Int : y = len - 1
    OBVIOUS
  <2>2. Max({1, y}) = IF 1 <= y THEN y ELSE 1
    BY <2>1, OneAndMore, Zenon
  <2>3. Max({1, y}) \in Int /\ Max({1, y}) > 0 /\ Max({1, y}) >= y
    BY <2>2
  <2>4. den = Max({1, y})
    BY <2>1
  <2> HIDE DEF den
  <2> QED
    BY <2>1, <2>3, <2>4
<1>5. ASSUME NEW k \in 1..len PROVE trunc(value(k), den) \in lo..hi
  <2> HIDE DEF den
  <2>1. PICK m \in Nat : m = k - 1 /\ m <= den
    BY <1>4
  <2>2. PICK w \in Nat : w = n - 1
    BY <1>1
  <2>3. PICK a \in Nat : where(k) = a /\ a <= w * den
    <3>1. where(k) = m * w
      BY <1>1, <2>1, <2>2
    <3>2. m * w \in Nat /\ m * w <= w * den
      BY <1>4, <2>1, Times, Zenon
    <3> QED
      BY <3>1, <3>2
  <2>4. PICK i \in Int, f \in Int : /\ i = a \div den /\ f = a % den
                                   /\ 0 <= f /\ f < den /\ 0 <= i
                                   /\ i <= w /\ (f # 0 => i < w)
    <3>1. w \in Int
      OBVIOUS
    <3> QED
      BY <1>4, <2>3, <3>1, Quotient, Zenon
  <2>6. i + 1 \in 1..n /\ (f # 0 => i + 2 \in 1..n)
    <3>1. 0 <= i /\ i <= w /\ (f # 0 => i < w)
      BY <2>4, Zenon
    <3> QED
      BY <1>1, <2>2, <3>1
  <2>7. value(k) = s[i + 1] * (den - f) + (IF f = 0 THEN 0 ELSE s[i + 2] * f)
    BY <2>3, <2>4
  <2> HIDE DEF value, where
  <2>8. value(k) \in Int /\ lo * den <= value(k) /\ value(k) <= hi * den
    <3>1. PICK x \in Int : x = s[i + 1] /\ lo <= x /\ x <= hi
      BY <1>2, <2>6
    <3>2. PICK y \in Int : (f # 0 => y = s[i + 2]) /\ lo <= y /\ y <= hi
      BY <1>2, <2>6
    <3>3. lo * den <= x * (den - f) + y * f /\ x * (den - f) + y * f <= hi * den
      <4>1. den \in Int /\ 0 <= f /\ f < den
        BY <1>4, <2>4
      <4> QED
        BY <3>1, <3>2, <4>1, Mixed, Zenon
    <3>4. value(k) = x * (den - f) + y * f
      <4>1. CASE f = 0
        <5>1. value(k) = x * (den - f) + 0
          BY <2>7, <3>1, <4>1
        <5>2. y * f = 0
          BY <4>1
        <5> QED
          BY <5>1, <5>2
      <4>2. CASE f # 0
        BY <2>7, <3>1, <3>2, <4>2
      <4> QED
        BY <4>1, <4>2
    <3> QED
      BY <1>4, <3>3, <3>4
  <2> QED
    BY <1>4, <2>8, TruncatedWithin
<1> DEFINE v == [k \in 1..len |-> trunc(value(k), den)]
<1>6. v \in [1..len -> lo..hi]
  <2> HIDE DEF value, den
  <2> QED
    BY <1>5
<1> HIDE DEF v
<1>7. v \in [1..len -> Int]
  BY <1>6
<1>8. v \in Seq(Int) /\ Len(v) = len
  BY <1>7, IsASeq, LenProperties
<1> QED
  BY <1>3, <1>6, <1>8 DEF v, Within

\* A change of speed keeps the bounds of the samples,
LEMMA SpeedWithin ==
    ASSUME NEW s \in Seq(Int), NEW speed \in Int, speed > 0,
           NEW lo \in Int, NEW hi \in Int, lo <= 0, 0 <= hi, Within(s, lo, hi)
    PROVE  apply_speed(s, speed) \in Seq(Int) /\ Within(apply_speed(s, speed), lo, hi)
<1>1. CASE speed = 10 \/ s = <<>>
  <2>1. apply_speed(s, speed) = s
    BY <1>1 DEF apply_speed
  <2> QED
    BY <2>1
<1>2. CASE ~(speed = 10 \/ s = <<>>)
  <2>1. PICK a \in Int : a = 10 * Len(s)
    BY LenProperties
  <2>2. PICK r \in Int : r = round(a, speed)
    <3>1. a \div speed \in Int
      BY <2>1
    <3> QED
      BY <3>1 DEF round
  <2>3. PICK len \in Nat : len = Max({1, r}) /\ len > 0
    <3>1. Max({1, r}) = IF 1 <= r THEN r ELSE 1
      BY <2>2, OneAndMore, Zenon
    <3> QED
      BY <3>1
  <2>4. apply_speed(s, speed) = resampled(s, len)
    BY <1>2, <2>1, <2>2, <2>3, Zenon DEF apply_speed
  <2>5. s # <<>> /\ len \in Nat /\ len > 0
    BY <1>2, <2>3
  <2>6. resampled(s, len) \in Seq(Int) /\ Within(resampled(s, len), lo, hi)
    BY <2>5, ResampledWithin, Zenon
  <2> QED
    BY <2>4, <2>6, Zenon
<1> QED
  BY <1>1, <1>2

\* What leaves the chain of filters are samples below the ceiling; the lowest sample is
\* among them only if the removal of the offset left one.
LEMMA VoiceSettings ==
    ASSUME NEW c \in Seq(Sample), NEW vs,
           has(vs, "speed") => vs["speed"] \in Int /\ vs["speed"] > 0
    PROVE  LET out == apply_voice_settings(c, vs) IN
           /\ out \in Seq(Sample)
           /\ Within(out, -FullScale - 1, Ceiling)
           /\ (-FullScale - 1) \notin ToSet(apply_dc_offset_removal(c)) =>
                 Within(out, -Ceiling, Ceiling)
<1> DEFINE d == apply_dc_offset_removal(c)
           level == apply_peak_limit(d)
           out == apply_voice_settings(c, vs)
<1>1. PICK low \in Int, less \in Int, more \in Int :
         /\ low = -FullScale - 1 /\ less = -Ceiling /\ more = Ceiling
         /\ low <= 0 /\ less <= 0 /\ 0 <= more /\ low <= less /\ more <= FullScale
  BY TuningAssumption
<1>2. Sample = low..FullScale /\ Sample \subseteq Int /\ low..more \subseteq Sample
  BY <1>1, TuningAssumption DEF Sample
<1>3. d \in Seq(Sample)
  BY DcOffset
<1>4. level \in Seq(Int) /\ Within(level, low, more)
      /\ (low \notin ToSet(d) => Within(level, less, more))
  <2>1. level \in Seq(Sample)
    BY <1>3, PeakLimit, Zenon
  <2>2. level \in Seq(Int)
    BY <1>2, <2>1, SeqMonotonic
  <2>3. /\ Within(level, -FullScale - 1, Ceiling)
        /\ (-FullScale - 1) \notin ToSet(d) => Within(level, -Ceiling, Ceiling)
    BY <1>3, PeakLimit, Zenon
  <2> HIDE DEF level, d
  <2> QED
    BY <1>1, <2>2, <2>3, Zenon
<1>5. out = IF c = <<>> THEN c
            ELSE IF has(vs, "speed") THEN apply_speed(level, vs["speed"]) ELSE level
  BY Zenon DEF apply_voice_settings
<1> HIDE DEF level, d, out
<1>6. out \in Seq(Int) /\ Within(out, low, more) /\ (low \notin ToSet(d) => Within(out, less, more))
  <2>1. CASE c = <<>>
    <3>1. out = <<>> /\ Len(out) = 0
      BY <1>5, <2>1
    <3>2. <<>> \in Seq(Int)
      OBVIOUS
    <3> QED
      BY <3>1, <3>2 DEF Within
  <2>2. CASE c # <<>> /\ ~has(vs, "speed")
    BY <1>4, <1>5, <2>2, Zenon
  <2>3. CASE c # <<>> /\ has(vs, "speed")
    <3>1. PICK speed \in Int : speed = vs["speed"] /\ speed > 0
      BY <2>3
    <3>2. out = apply_speed(level, speed)
      BY <1>5, <2>3, <3>1, Zenon
    <3>3. apply_speed(level, speed) \in Seq(Int) /\ Within(apply_speed(level, speed), low, more)
      BY <1>1, <1>4, <3>1, SpeedWithin, Zenon
    <3>4. low \notin ToSet(d) => Within(apply_speed(level, speed), less, more)
      BY <1>1, <1>4, <3>1, SpeedWithin, Zenon
    <3> QED
      BY <3>2, <3>3, <3>4, Zenon
  <2> QED
    BY <2>1, <2>2, <2>3
<1>7. out \in Seq(Sample)
  <2>1. PICK n \in Nat : n = Len(out) /\ out = [i \in 1..n |-> out[i]]
    BY <1>6, LenProperties
  <2>2. \A i \in 1..n : out[i] \in Sample
    BY <1>2, <1>6, <2>1 DEF Within
  <2>3. out \in [1..n -> Sample]
    BY <2>1, <2>2, Zenon
  <2> QED
    BY <2>3, IsASeq
<1> QED
  BY <1>1, <1>6, <1>7, Zenon DEF out, d

-----------------------------------------------------------------------------
(* The job.                                                                *)

\* The knobs are those of the order; there is no audio before there are knobs, and
\* none without its times.
TuningInv ==
    /\ TuningTypeOK
    /\ knobs = NoKnobs => order = NoOrder /\ pcm = <<>> /\ alignment = <<>>
    /\ knobs # NoKnobs => order \in Orders /\ knobs = engine_overrides(order)
    /\ alignment = <<>> => pcm = <<>>
    /\ NeverSaturates
    /\ AlignmentCoversAudio

\* The speed of an order, out of its settings or the defaults of its voice.
LEMMA SpeedOfOrder ==
    ASSUME NEW o \in Orders
    PROVE  LET vs == layered(o.defaults, o.settings) IN
           has(vs, "speed") => vs["speed"] \in Int /\ vs["speed"] > 0
<1>1. \A d \in {o.defaults, o.settings} :
         /\ IsDict(d, {"stability", "similarity_boost", "speed"})
         /\ has(d, "speed") => d["speed"] > 0
  BY OrdersAssumption
<1> QED
  BY <1>1 DEF layered, has, IsDict

\* A time is a number.
LEMMA Milliseconds ==
    ASSUME NEW n \in Nat
    PROVE  ms(n) \in Nat
<1>1. n * 1000 \in Nat /\ SampleRate \in Nat /\ SampleRate > 0
  BY TuningAssumption
<1> QED
  BY <1>1 DEF ms

\* At the start there is no job.
LEMMA InitTuning == TuningInit => TuningInv
<1> SUFFICES ASSUME TuningInit PROVE TuningInv
  OBVIOUS
<1>1. /\ order = NoOrder /\ knobs = NoKnobs /\ pcm = <<>> /\ alignment = <<>>
      /\ order.chunks = <<>>
  BY DEF TuningInit, NoOrder
<1> QED
  BY <1>1 DEF TuningInv, TuningTypeOK, NeverSaturates, AlignmentCoversAudio

\* A job starts with its knobs, and no audio.
LEMMA StepTune == TuningInv /\ Tune => TuningInv'
<1> SUFFICES ASSUME TuningInv, Tune PROVE TuningInv'
  OBVIOUS
<1>1. PICK o \in Orders : order' = o /\ knobs' = engine_overrides(o)
  BY DEF Tune
<1>2. pcm' = <<>> /\ alignment' = <<>>
  BY DEF Tune, TuningInv
<1>3. knobs' # NoKnobs
  <2>1. engine_overrides(o).cfg_value \in 10..35
    BY KnobsOfOrder
  <2>2. NoKnobs.cfg_value = 0
    BY DEF NoKnobs
  <2> QED
    BY <1>1, <2>1, <2>2
<1>4. Len(o.chunks) \in Nat
  BY OrdersAssumption, LenProperties
<1>5. TuningTypeOK'
  BY <1>1, <1>2, <1>4 DEF TuningTypeOK
<1>6. NeverSaturates' /\ AlignmentCoversAudio'
  BY <1>2 DEF NeverSaturates, AlignmentCoversAudio
<1> QED
  BY <1>1, <1>2, <1>3, <1>5, <1>6 DEF TuningInv

\* A chunk comes out of the filters below the ceiling, and its sentence gets the
\* time between the samples so far and the samples then.
LEMMA StepSpeakChunk == TuningInv /\ SpeakChunk => TuningInv'
<1> SUFFICES ASSUME TuningInv, SpeakChunk PROVE TuningInv'
  OBVIOUS
<1>1. /\ order \in Orders /\ knobs # NoKnobs /\ order' = order /\ knobs' = knobs
      /\ pcm \in Seq(Sample) /\ alignment \in Seq([start_ms : Nat, end_ms : Nat])
  BY DEF TuningInv, TuningTypeOK, SpeakChunk
<1>2. PICK n \in Nat, m \in Nat, l \in Nat :
         /\ n = Len(alignment) /\ m = Len(pcm) /\ l = Len(order.chunks) /\ n < l
         /\ order.chunks \in Seq(Seq(Sample))
  BY <1>1, OrdersAssumption, LenProperties DEF SpeakChunk
<1> DEFINE c == order.chunks[n + 1]
           vs == layered(order.defaults, order.settings)
           out == apply_voice_settings(c, vs)
           time == [start_ms |-> ms(Len(pcm)), end_ms |-> ms(Len(pcm) + Len(out))]
<1>3. c \in Seq(Sample) /\ c \in ToSet(order.chunks)
  <2>1. n + 1 \in 1..l /\ DOMAIN order.chunks = 1..l
    BY <1>2, LenProperties
  <2> QED
    BY <1>2, <2>1, ElementOfSeq DEF ToSet
<1>4. pcm' = pcm \o out /\ alignment' = Append(alignment, time)
  BY <1>2 DEF SpeakChunk, Aligned
<1>5. /\ out \in Seq(Sample)
      /\ Within(out, -FullScale - 1, Ceiling)
      /\ (-FullScale - 1) \notin ToSet(apply_dc_offset_removal(c)) =>
            Within(out, -Ceiling, Ceiling)
  <2>1. has(vs, "speed") => vs["speed"] \in Int /\ vs["speed"] > 0
    BY <1>1, SpeedOfOrder, Zenon
  <2> HIDE DEF c, vs
  <2> QED
    BY <1>3, <2>1, VoiceSettings, Zenon
<1> HIDE DEF c, vs, out
<1>6. PICK k \in Nat : k = Len(out)
  BY <1>5, LenProperties
<1>7. /\ pcm' \in Seq(Sample) /\ Len(pcm') = m + k
      /\ \A i \in 1..m : pcm'[i] = pcm[i]
      /\ \A i \in 1..k : pcm'[m + i] = out[i]
  BY <1>2, <1>4, <1>5, <1>6, <1>1
<1>8. ms(m) \in Nat /\ ms(m + k) \in Nat /\ time = [start_ms |-> ms(m), end_ms |-> ms(m + k)]
  <2>1. time = [start_ms |-> ms(m), end_ms |-> ms(m + k)]
    BY <1>2, <1>6, Zenon
  <2>2. PICK e \in Nat : e = m + k
    OBVIOUS
  <2> HIDE DEF time
  <2> QED
    BY <2>1, <2>2, Milliseconds
<1> HIDE DEF time
<1>9. /\ alignment' \in Seq([start_ms : Nat, end_ms : Nat]) /\ Len(alignment') = n + 1
      /\ \A i \in 1..n : alignment'[i] = alignment[i]
      /\ alignment'[n + 1] = time
  BY <1>1, <1>2, <1>4, <1>8
<1>10. TuningTypeOK'
  BY <1>1, <1>2, <1>7, <1>9 DEF TuningTypeOK
<1>11. NeverSaturates'
  <2>1. ASSUME NEW i \in 1..(m + k), absolute(pcm'[i]) > Ceiling
        PROVE  pcm'[i] < 0 /\ \E d \in ToSet(order.chunks) :
                                 -FullScale - 1 \in ToSet(apply_dc_offset_removal(d))
    <3>1. CASE i <= m
      <4>1. i \in DOMAIN pcm /\ pcm'[i] = pcm[i]
        BY <1>1, <1>2, <1>7, <3>1, LenProperties
      <4> QED
        BY <2>1, <4>1 DEF TuningInv, NeverSaturates
    <3>2. CASE i > m
      <4>1. PICK j \in 1..k : pcm'[i] = out[j]
        <5>1. i - m \in 1..k /\ i = m + (i - m)
          BY <3>2
        <5> QED
          BY <1>7, <5>1
      <4>2. PICK x \in Int : x = out[j] /\ -FullScale - 1 <= x /\ x <= Ceiling
                             /\ absolute(x) > Ceiling
        BY <1>5, <1>6, <2>1, <4>1, TuningAssumption DEF Within
      <4>3. x < 0 /\ x < -Ceiling
        BY <4>2, TuningAssumption DEF absolute
      <4>4. -FullScale - 1 \in ToSet(apply_dc_offset_removal(c))
        BY <1>5, <1>6, <4>2, <4>3, TuningAssumption DEF Within
      <4> QED
        BY <1>3, <4>1, <4>2, <4>3, <4>4
    <3> QED
      BY <1>2, <1>6, <3>1, <3>2
  <2>2. DOMAIN pcm' = 1..(m + k)
    BY <1>7, LenProperties
  <2> QED
    BY <1>1, <2>1, <2>2 DEF NeverSaturates
<1>12. AlignmentCoversAudio'
  <2>1. DOMAIN alignment = 1..n /\ DOMAIN alignment' = 1..(n + 1)
    BY <1>1, <1>2, <1>9, LenProperties
  <2>2. ASSUME NEW i \in 1..(n + 1)
        PROVE  alignment'[i].start_ms = IF i = 1 THEN 0 ELSE alignment'[i - 1].end_ms
    <3>1. CASE i <= n
      <4>1. i \in DOMAIN alignment /\ (i # 1 => i - 1 \in 1..n)
        BY <2>1, <3>1
      <4>2. alignment[i].start_ms = IF i = 1 THEN 0 ELSE alignment[i - 1].end_ms
        BY <4>1 DEF TuningInv, AlignmentCoversAudio
      <4> QED
        BY <1>9, <3>1, <4>1, <4>2
    <3>2. CASE i = n + 1
      <4>1. alignment'[i].start_ms = ms(m)
        BY <1>8, <1>9, <3>2
      <4>2. CASE n = 0
        <5>1. alignment = <<>>
          BY <1>1, <1>2, <4>2, EmptySeq
        <5>2. pcm = <<>> /\ m = 0
          BY <1>2, <5>1 DEF TuningInv
        <5> QED
          BY <3>2, <4>1, <4>2, <5>2, TuningAssumption DEF ms
      <4>3. CASE n # 0
        <5>1. alignment # <<>> /\ Last(alignment) = alignment[n]
          BY <1>2, <4>3 DEF Last
        <5>2. alignment[n].end_ms = ms(m)
          BY <1>2, <5>1 DEF TuningInv, AlignmentCoversAudio
        <5>3. alignment'[i - 1] = alignment[n] /\ i # 1
          BY <1>2, <1>9, <3>2, <4>3
        <5> QED
          BY <4>1, <5>2, <5>3
      <4> QED
        BY <4>2, <4>3
    <3> QED
      BY <1>2, <3>1, <3>2
  <2>3. Last(alignment').end_ms = ms(Len(pcm'))
    BY <1>7, <1>8, <1>9 DEF Last
  <2> QED
    BY <2>1, <2>2, <2>3 DEF AlignmentCoversAudio
<1> QED
  <2>1. alignment' # <<>>
    BY <1>2, <1>9
  <2> QED
    BY <1>1, <2>1, <1>10, <1>11, <1>12 DEF TuningInv

\* TuningInv holds in every state.
LEMMA TuningInvariant == TuningSpec => []TuningInv
<1>1. TuningInv /\ [TuningNext]_tuningVars => TuningInv'
  <2> SUFFICES ASSUME TuningInv, [TuningNext]_tuningVars PROVE TuningInv'
    OBVIOUS
  <2>1. CASE Tune
    BY <2>1, StepTune
  <2>2. CASE SpeakChunk
    BY <2>2, StepSpeakChunk
  <2>3. CASE UNCHANGED tuningVars
    BY <2>3 DEF tuningVars, TuningInv, TuningTypeOK, NeverSaturates, AlignmentCoversAudio
  <2> QED
    BY <2>1, <2>2, <2>3 DEF TuningNext
<1> QED
  BY <1>1, InitTuning, PTL DEF TuningSpec

\* Whatever the preset, the defaults of the voice and the request ask for together
\* (merge_voice_settings and apply_preset_to_engine_knobs), the engine gets a cfg_value
\* and a number of steps in its envelope, and settings of one half leave the preset alone.
THEOREM KnobsHold == TuningSpec => []KnobsSafe
<1>1. TuningInv => KnobsSafe
  <2> SUFFICES ASSUME TuningInv, knobs # NoKnobs PROVE KnobsSafe
    BY DEF KnobsSafe
  <2>1. order \in Orders /\ knobs = engine_overrides(order)
    BY DEF TuningInv
  <2>2. DOMAIN order.settings \subseteq {"stability", "similarity_boost", "speed"}
    BY <2>1, OrdersAssumption DEF IsDict
  <2>3. /\ knobs.cfg_value \in 10..35 /\ knobs.inference_timesteps \in 4..40
        /\ has(order.settings, "stability") /\ order.settings["stability"] = 5 =>
              \/ has(order.params, "inference_timesteps")
              \/ knobs.inference_timesteps = resolve_model(order.model).inference_timesteps
        /\ has(order.settings, "similarity_boost") /\ order.settings["similarity_boost"] = 5 =>
              \/ has(order.params, "cfg_value")
              \/ knobs.cfg_value = resolve_model(order.model).cfg_value
    BY <2>1, KnobsOfOrder
  <2> QED
    BY <2>2, <2>3 DEF KnobsSafe, has
<1> QED
  BY <1>1, TuningInvariant, PTL

\* The audio of a job stays limited through the chain of filters (apply_voice_settings),
\* and the times of its sentences cover what is published.
THEOREM AudioHolds == TuningSpec => []AudioSound
<1>1. TuningInv => AudioSound
  BY DEF TuningInv, AudioSound
<1> QED
  BY <1>1, TuningInvariant, PTL


-----------------------------------------------------------------------------
(* Admission: the inductive invariants.                                    *)

\* What is known of a call by where it stands, whatever fails: only the call that
\* inserted the row knows the reservation for its own.
NewIsOwn ==
    \A c \in Callers :
        isNew[c] => pc[c] \in {"commit", "submit", "undo", "done"}
                    /\ (pc[c] = "commit" => holder = c)

\* c's request is that of the row.
SameBody(c) == row # "none" /\ hash \in Callers /\ Body[hash] = Body[c]

\* While no XADD has failed the row is never removed: whoever went past the
\* reservation, and everything on the stream, has the body of the row.
OneBody ==
    failures = 0 =>
        /\ row # "none" => hash \in Callers
        /\ \A c \in Callers :
              /\ pc[c] # "undo"
              /\ pc[c] = "submit" \/ (pc[c] = "commit" /\ holder # c) => SameBody(c)
              /\ answer[c] \in {"attached", "accepted", "deduplicated"} => SameBody(c)
        /\ \A i \in 1..Len(entries) : SameBody(entries[i])

\* A call that lost the INSERT lost it to a row that is there; what it does not
\* see then has expired.
LoserFindsRow ==
    failures = 0 =>
        \A c \in Callers :
            /\ pc[c] = "reget" => row # "none"
            /\ pc[c] = "reinsert" \/ answer[c] = "raw_error" => row = "expired"

AInv == AdmissionTypeOK /\ NewIsOwn /\ OneBody /\ LoserFindsRow

\* The calls of which "never enqueues twice" can be said: POST /v1/tts/jobs
\* enqueues for every call it finds a reservation for, so no other call may have
\* its body; and a failed XADD must not have taken effect.
JobsDiffer ==
    /\ ~LostReplies
    /\ \A c, d \in Callers : Endpoint[c] = "jobs" /\ c # d => Body[c] # Body[d]

\* Under that condition a caller that is to enqueue owns the row, and a row whose
\* job is on the stream is in nobody's hands any more.
OwnerEnqueues ==
    /\ row # "none" => hash \in Callers /\ pc[hash] \in {"submit", "undo", "done"}
    /\ \A c \in Callers :
          /\ pc[c] \in {"submit", "undo"} => row # "none" /\ hash = c
          /\ pc[c] = "commit" => holder = c \/ ~Enqueues(c)
    /\ entries # <<>> => Len(entries) = 1 /\ row # "none" /\ pc[hash] = "done"

EInv == AInv /\ OwnerEnqueues

-----------------------------------------------------------------------------
(* Types.                                                                  *)

\* A handler that moves leaves the others where they are.
LEMMA GotoType ==
    ASSUME AdmissionTypeOK, NEW c \in Callers,
           NEW l \in {"lookup", "admit", "get", "insert", "reget", "reinsert",
                      "commit", "submit", "undo"},
           Goto(c, l)
    PROVE  /\ pc' \in [Callers -> {"idle", "lookup", "admit", "get", "insert", "reget",
                                   "reinsert", "commit", "submit", "undo", "done"}]
           /\ answer' \in [Callers -> Answers]
           /\ pc'[c] = l
           /\ \A d \in Callers \ {c} : pc'[d] = pc[d]
BY DEF AdmissionTypeOK, Answers, Goto

\* A handler that answers is done, and its answer is its own.
LEMMA RespondType ==
    ASSUME AdmissionTypeOK, NEW c \in Callers, NEW a \in Answers, Respond(c, a)
    PROVE  /\ pc' \in [Callers -> {"idle", "lookup", "admit", "get", "insert", "reget",
                                   "reinsert", "commit", "submit", "undo", "done"}]
           /\ answer' \in [Callers -> Answers]
           /\ pc'[c] = "done" /\ answer'[c] = a
           /\ \A d \in Callers \ {c} : pc'[d] = pc[d] /\ answer'[d] = answer[d]
BY DEF AdmissionTypeOK, Answers, Respond

\* A job more on the stream.
LEMMA AppendJob ==
    ASSUME AdmissionTypeOK, NEW c \in Callers
    PROVE  /\ Append(entries, c) \in Seq(Callers)
           /\ Len(Append(entries, c)) = Len(entries) + 1
           /\ \A i \in 1..Len(Append(entries, c)) :
                 Append(entries, c)[i] \in {entries[i], c}
                 /\ (i \notin 1..Len(entries) => Append(entries, c)[i] = c)
BY DEF AdmissionTypeOK

\* An XADD that is answered, and one that fails.
LEMMA EnqueueCases ==
    ASSUME AdmissionTypeOK, NEW c \in Callers, Enqueue(c)
    PROVE  \/ /\ entries' = Append(entries, c)
              /\ \E a \in Answers : Respond(c, a)
              /\ failures' = failures
           \/ /\ entries' = entries \/ (LostReplies /\ entries' = Append(entries, c))
              /\ Goto(c, "undo")
              /\ failures < MaxFailures /\ failures' = failures + 1
BY DEF Enqueue, AdmissionTypeOK, Answers

\* A submission adds one job to the stream.
LEMMA EnqueueType ==
    ASSUME AdmissionTypeOK, NEW c \in Callers, Enqueue(c)
    PROVE  AdmissionTypeOK'
<1>0. pc[c] = "submit" /\ UNCHANGED <<row, hash, holder, isNew, crashes>>
    BY DEF Enqueue, dbVars
<1>1. entries' \in Seq(Callers)
    BY EnqueueCases, AppendJob DEF AdmissionTypeOK
<1>2. failures' \in 0..MaxFailures
    BY EnqueueCases, AdmissionAssumption DEF AdmissionTypeOK
<1>3. CASE \E a \in Answers : Respond(c, a)
    BY <1>0, <1>1, <1>2, <1>3, RespondType DEF AdmissionTypeOK
<1>4. CASE Goto(c, "undo")
    BY <1>0, <1>1, <1>2, <1>4, GotoType DEF AdmissionTypeOK
<1> QED BY <1>3, <1>4, EnqueueCases

-----------------------------------------------------------------------------
(* What every step keeps.                                                  *)

\* Every step keeps the types, the rows and what the handlers know of them.
LEMMA StepInv ==
    ASSUME AInv, AdmissionNext
    PROVE  AInv'
<1> USE AdmissionAssumption DEF dbVars
<1>1. CASE RowExpires
    BY <1>1 DEF RowExpires, AInv, AdmissionTypeOK, NewIsOwn, OneBody, SameBody, LoserFindsRow
<1>2. ASSUME NEW c \in Callers, Receive(c)
      PROVE  AInv'
    BY <1>2
       DEF Receive, ReceiveJob, ReceiveSync, Goto, Respond, AInv, AdmissionTypeOK, NewIsOwn,
           OneBody, SameBody, LoserFindsRow, Answers
<1>3. ASSUME NEW c \in Callers, LookupRow(c)
      PROVE  AInv'
    BY <1>3, SMTT(30)
       DEF LookupRow, Conflicting, Goto, Respond, AInv, AdmissionTypeOK, NewIsOwn, OneBody,
           SameBody, LoserFindsRow, Answers
<1>4. ASSUME NEW c \in Callers, CheckDepth(c)
      PROVE  AInv'
    BY <1>4
       DEF CheckDepth, Goto, Respond, AInv, AdmissionTypeOK, NewIsOwn, OneBody, SameBody,
           LoserFindsRow, Answers
<1>5. ASSUME NEW c \in Callers, GetRow(c)
      PROVE  AInv'
    BY <1>5
       DEF GetRow, Found, Conflicting, Goto, Respond, AInv, AdmissionTypeOK, NewIsOwn,
           OneBody, SameBody, LoserFindsRow, Answers
<1>6. ASSUME NEW c \in Callers, InsertRow(c)
      PROVE  AInv'
    <2>1. AdmissionTypeOK'
        <3>1. CASE row # "none"
            BY <1>6, <3>1 DEF InsertRow, Goto, Respond, AInv, AdmissionTypeOK, Answers
        <3>2. CASE row = "none"
            <4>1. Goto(c, "commit") /\ holder' = c /\ isNew' = [isNew EXCEPT ![c] = TRUE]
                  /\ UNCHANGED <<row, hash, entries, failures, crashes>>
                BY <1>6, <3>2 DEF InsertRow
            <4> QED BY <3>2, <4>1, GotoType DEF AInv, AdmissionTypeOK
        <3> QED BY <3>1, <3>2
    <2>2. NewIsOwn'
        BY <1>6 DEF InsertRow, Goto, Respond, AInv, AdmissionTypeOK, Answers, NewIsOwn
    <2>3. OneBody'
        BY <1>6 DEF InsertRow, Goto, Respond, AInv, AdmissionTypeOK, Answers, OneBody, SameBody
    <2>4. LoserFindsRow'
        BY <1>6
           DEF InsertRow, Goto, Respond, AInv, AdmissionTypeOK, Answers, LoserFindsRow,
               OneBody, SameBody
    <2> QED BY <2>1, <2>2, <2>3, <2>4 DEF AInv
<1>7. ASSUME NEW c \in Callers, Reget(c)
      PROVE  AInv'
    BY <1>7
       DEF Reget, Found, Conflicting, Goto, Respond, AInv, AdmissionTypeOK, NewIsOwn,
           OneBody, SameBody, LoserFindsRow, Answers
<1>8. ASSUME NEW c \in Callers, Reinsert(c)
      PROVE  AInv'
    <2>1. AdmissionTypeOK'
        <3>1. CASE row # "none"
            BY <1>8, <3>1 DEF Reinsert, Goto, Respond, AInv, AdmissionTypeOK, Answers
        <3>2. CASE row = "none"
            <4>1. Goto(c, "commit") /\ holder' = c /\ isNew' = [isNew EXCEPT ![c] = TRUE]
                  /\ UNCHANGED <<row, hash, entries, failures, crashes>>
                BY <1>8, <3>2 DEF Reinsert
            <4> QED BY <3>2, <4>1, GotoType DEF AInv, AdmissionTypeOK
        <3> QED BY <3>1, <3>2
    <2>2. NewIsOwn'
        BY <1>8 DEF Reinsert, Goto, Respond, AInv, AdmissionTypeOK, Answers, NewIsOwn
    <2>3. OneBody'
        BY <1>8 DEF Reinsert, Goto, Respond, AInv, AdmissionTypeOK, Answers, OneBody, SameBody
    <2>4. LoserFindsRow'
        BY <1>8
           DEF Reinsert, Goto, Respond, AInv, AdmissionTypeOK, Answers, LoserFindsRow,
               OneBody, SameBody
    <2> QED BY <2>1, <2>2, <2>3, <2>4 DEF AInv
<1>9. ASSUME NEW c \in Callers, Commit(c)
      PROVE  AInv'
    BY <1>9
       DEF Commit, Enqueues, Goto, Respond, AInv, AdmissionTypeOK, NewIsOwn, OneBody,
           SameBody, LoserFindsRow, Answers
<1>10. ASSUME NEW c \in Callers, Enqueue(c)
      PROVE  AInv'
    <2>1. AdmissionTypeOK'
        BY <1>10, EnqueueType DEF AInv
    <2>2. NewIsOwn'
        BY <1>10 DEF Enqueue, Goto, Respond, AInv, AdmissionTypeOK, NewIsOwn
    <2>3. OneBody'
        <3>1. CASE failures' = failures + 1
            BY <1>10, <3>1 DEF AInv, AdmissionTypeOK, OneBody
        <3>2. CASE failures' = failures
            <4>1. /\ entries' = Append(entries, c) /\ failures' = failures
                  /\ \E a \in Answers : Respond(c, a)
                  /\ UNCHANGED <<row, hash, holder>>
                BY <1>10, <3>2, EnqueueCases DEF AInv, AdmissionTypeOK, Enqueue
            <4>2. failures = 0 => SameBody(c)
                BY <1>10 DEF Enqueue, AInv, OneBody
            <4>3. failures = 0 => \A i \in 1..Len(entries') : SameBody(entries'[i])
                BY <4>1, <4>2, AppendJob DEF AInv, OneBody, AdmissionTypeOK
            <4> QED BY <4>1, <4>2, <4>3, RespondType DEF AInv, OneBody, SameBody
        <3> QED BY <1>10, <3>1, <3>2 DEF Enqueue
    <2>4. LoserFindsRow'
        BY <1>10 DEF Enqueue, Goto, Respond, AInv, AdmissionTypeOK, Answers, LoserFindsRow,
                     OneBody
    <2> QED BY <2>1, <2>2, <2>3, <2>4 DEF AInv
<1>11. ASSUME NEW c \in Callers, Undo(c)
      PROVE  AInv'
    BY <1>11
       DEF Undo, Goto, Respond, AInv, AdmissionTypeOK, NewIsOwn, OneBody, SameBody,
           LoserFindsRow, Answers
<1>12. ASSUME NEW c \in Callers, HandlerDies(c)
      PROVE  AInv'
    BY <1>12
       DEF HandlerDies, Goto, Respond, AInv, AdmissionTypeOK, NewIsOwn, OneBody, SameBody,
           LoserFindsRow, Answers
<1> QED BY <1>1, <1>2, <1>3, <1>4, <1>5, <1>6, <1>7, <1>8, <1>9, <1>10, <1>11, <1>12
        DEF AdmissionNext, HandlerStep

\* At the start there are no rows, no jobs and no answers.
LEMMA InitInv == AdmissionInit => AInv /\ EInv
BY AdmissionAssumption
   DEF AdmissionInit, AInv, EInv, AdmissionTypeOK, NewIsOwn, OneBody, SameBody, LoserFindsRow,
       OwnerEnqueues, Answers

\* The variables alone decide.
LEMMA StutterInv ==
    ASSUME UNCHANGED admissionVars
    PROVE  (AInv => AInv') /\ (EInv => EInv')
BY DEF admissionVars, AInv, EInv, AdmissionTypeOK, NewIsOwn, OneBody, SameBody,
       LoserFindsRow, OwnerEnqueues, Enqueues

\* The invariant holds of every reachable state.
THEOREM AdmissionInvariance == AdmissionSpec => []AInv
<1>1. AInv /\ [AdmissionNext]_admissionVars => AInv'
    BY StepInv, StutterInv
<1> QED BY <1>1, InitInv, PTL DEF AdmissionSpec

\* Whoever is told of a job waits for one with its own body, whichever call won.
THEOREM ReplayMatches == AdmissionSpec => []ReplayMatchesJob
<1>1. AInv => ReplayMatchesJob
    BY DEF AInv, OneBody, SameBody, ReplayMatchesJob
<1> QED BY <1>1, AdmissionInvariance, PTL

\* The loser of the INSERT never sees the IntegrityError.
THEOREM NoRaw == AdmissionSpec => []NoRawError
<1>1. AInv => NoRawError
    BY DEF AInv, LoserFindsRow, NoRawError
<1> QED BY <1>1, AdmissionInvariance, PTL

-----------------------------------------------------------------------------
(* One job per key.                                                        *)

\* Every step keeps it that only the owner of the row submits.
LEMMA StepOwner ==
    ASSUME JobsDiffer, AInv, OwnerEnqueues, AdmissionNext
    PROVE  OwnerEnqueues'
<1> USE AdmissionAssumption DEF dbVars
<1>0. AdmissionTypeOK /\ NewIsOwn
    BY DEF AInv
<1>1. CASE RowExpires
    BY <1>1 DEF RowExpires, OwnerEnqueues, Enqueues
<1>2. ASSUME NEW c \in Callers,
             \/ Receive(c) \/ LookupRow(c) \/ CheckDepth(c) \/ HandlerDies(c)
      PROVE  OwnerEnqueues'
    BY <1>0, <1>2 DEF Receive, ReceiveJob, ReceiveSync, LookupRow, CheckDepth, HandlerDies,
                Goto, Respond, AdmissionTypeOK, NewIsOwn, OwnerEnqueues, Enqueues
<1>3. ASSUME NEW c \in Callers, GetRow(c) \/ Reget(c)
      PROVE  OwnerEnqueues'
    BY <1>0, <1>3, AdmissionAssumption
       DEF GetRow, Reget, Found, Conflicting, JobsDiffer, Goto, Respond, AdmissionTypeOK,
           NewIsOwn, OwnerEnqueues, Enqueues
<1>4. ASSUME NEW c \in Callers, InsertRow(c) \/ Reinsert(c)
      PROVE  OwnerEnqueues'
    BY <1>0, <1>4 DEF InsertRow, Reinsert, Goto, Respond, AdmissionTypeOK, NewIsOwn,
                      OwnerEnqueues, Enqueues
<1>5. ASSUME NEW c \in Callers, Commit(c)
      PROVE  OwnerEnqueues'
    <2>1. CASE holder = c
        <3>1. row = "none" /\ isNew[c] /\ pc[c] = "commit" /\ Enqueues(c)
            BY <1>0, <2>1 DEF AdmissionTypeOK, Enqueues
        <3>2. /\ row' = "live" /\ hash' = c /\ holder' = NoCaller
              /\ pc' = [pc EXCEPT ![c] = "submit"]
              /\ UNCHANGED <<entries, isNew>>
            BY <1>5, <2>1, <3>1 DEF Commit, Goto
        <3> QED BY <1>0, <2>1, <3>1, <3>2 DEF AdmissionTypeOK, OwnerEnqueues, Enqueues
    <2>2. CASE holder # c
        <3>1. /\ pc' = [pc EXCEPT ![c] = "done"]
              /\ UNCHANGED <<row, hash, holder, entries, isNew>>
            BY <1>5, <2>2 DEF Commit, Respond, OwnerEnqueues
        <3> QED BY <1>0, <3>1 DEF AdmissionTypeOK, OwnerEnqueues, Enqueues
    <2> QED BY <2>1, <2>2
<1>6. ASSUME NEW c \in Callers, Enqueue(c)
      PROVE  OwnerEnqueues'
    <2>0. /\ pc[c] = "submit" /\ row # "none" /\ hash = c /\ entries = <<>>
          /\ UNCHANGED <<row, hash, holder, isNew>>
        BY <1>0, <1>6 DEF Enqueue, OwnerEnqueues
    <2>1. CASE entries' = Append(entries, c) /\ \E a \in Answers : Respond(c, a)
        <3>1. entries' # <<>> /\ Len(entries') = 1
            BY <1>0, <2>0, <2>1, AppendJob DEF AdmissionTypeOK
        <3> QED BY <1>0, <2>0, <2>1, <3>1 DEF Respond, AdmissionTypeOK, OwnerEnqueues, Enqueues
    <2>2. CASE entries' = entries /\ Goto(c, "undo")
        BY <1>0, <2>0, <2>2 DEF Goto, AdmissionTypeOK, OwnerEnqueues, Enqueues
    <2> QED BY <1>0, <1>6, <2>1, <2>2, EnqueueCases DEF JobsDiffer
<1>7. ASSUME NEW c \in Callers, Undo(c)
      PROVE  OwnerEnqueues'
    BY <1>0, <1>7 DEF Undo, Respond, AdmissionTypeOK, NewIsOwn, OwnerEnqueues, Enqueues
<1> QED BY <1>1, <1>2, <1>3, <1>4, <1>5, <1>6, <1>7 DEF AdmissionNext, HandlerStep

\* The invariant of the calls that do enqueue once.
LEMMA EnqueueInvariance ==
    ASSUME JobsDiffer
    PROVE  AdmissionSpec => []EInv
<1>1. EInv /\ [AdmissionNext]_admissionVars => EInv'
    BY StepInv, StepOwner, StutterInv DEF EInv
<1> QED BY <1>1, InitInv, PTL DEF AdmissionSpec

\* A key puts one job on the stream, whatever fails, dies or expires, and every call
\* is told of that job: as long as no two calls of POST /v1/tts/jobs, and none of it
\* and a synchronous call, have one body (of the others it is not true), and an XADD
\* that raises has not taken effect.
THEOREM OneJobPerKey ==
    ASSUME JobsDiffer
    PROVE  AdmissionSpec => []AdmissionSound
<1>1. EInv => AdmissionSound
    <2>1. ASSUME EInv
          PROVE  Len(entries) <= 1
        <3>1. CASE entries = <<>>
            BY <3>1
        <3>2. CASE entries # <<>>
            <4>1. Len(entries) = 1
                BY <2>1, <3>2 DEF EInv, OwnerEnqueues
            <4> QED BY <4>1
        <3> QED BY <3>1, <3>2
    <2> QED BY <2>1 DEF EInv, AInv, AdmissionSound, NeverEnqueuesTwice, OneBody, SameBody,
                        LoserFindsRow, ReplayMatchesJob, NoRawError
<1> QED BY <1>1, EnqueueInvariance, PTL

\* A reservation that is deleted belongs to no job.
THEOREM Bogus ==
    ASSUME JobsDiffer
    PROVE  AdmissionSpec => DeletedIsBogus
<1>1. EInv /\ [AdmissionNext]_admissionVars =>
          [row = "live" /\ row' = "none" => entries = <<>>]_admissionVars
    <2> SUFFICES ASSUME EInv, AdmissionNext, row = "live", row' = "none"
                 PROVE  entries = <<>>
        OBVIOUS
    <2>1. PICK c \in Callers : Undo(c)
        BY
           DEF AdmissionNext, HandlerStep, RowExpires, Receive, ReceiveJob, ReceiveSync,
               LookupRow,
               CheckDepth, GetRow, Found, InsertRow, Reget, Reinsert, Commit, Enqueue, HandlerDies,
               Goto, Respond, dbVars
    <2> QED BY <2>1 DEF Undo, EInv, AInv, OwnerEnqueues, AdmissionTypeOK
<1> QED BY <1>1, EnqueueInvariance, PTL DEF AdmissionSpec, DeletedIsBogus
=============================================================================
