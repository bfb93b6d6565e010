---------------------------- MODULE StreamInput ----------------------------
(***************************************************************************)
(* One WebSocket of WS /v1/text-to-speech/{voice_id}/stream-input          *)
(* (src/server/ws.py): the text buffer, the flush rules, the admission of  *)
(* a segment, its result and the end of the session.                       *)
(*                                                                         *)
(* The handler is one task: while a segment is synthesised no message is   *)
(* read.  Text is a sequence of letters, blanks and full stops.            *)
(***************************************************************************)
EXTENDS Integers, Sequences, FiniteSetsExt

CONSTANTS
    Texts,             \* the "text" of the messages a client may send
    MIN_BUFFER_CHARS,
    MAX_BUFFER_CHARS,
    BufferLimit,       \* 20000
    MaxChars,          \* settings.max_chars_per_request
    MaxMessages        \* bound: messages a client sends

ASSUME StreamInputAssumption ==
    /\ Texts \subseteq Seq({"letter", "blank", "stop"})
    /\ MIN_BUFFER_CHARS \in Nat
    /\ MAX_BUFFER_CHARS \in Nat \ {0}
    /\ BufferLimit \in Nat
    /\ MaxChars \in Nat
    /\ MaxMessages \in Nat

VARIABLES
    phase,     \* what the handler does
    client,    \* "on" or "gone"
    buffer,    \* state.buffer
    segment,   \* the segment in _flush_segment
    draining,  \* has the inbound loop ended?
    due,       \* history: the letters and stops that were accepted and not answered
    told,      \* history: what the client was last told about its text
    messages

streamVars == <<phase, client, buffer, segment, draining, due, told, messages>>

Char == {"letter", "blank", "stop"}
Phases == {"handshake", "receive", "admit", "reserve", "submit", "result", "done", "closed"}

\* The buffer also keeps below the limit at which it is thrown away.
StreamTypeOK ==
    /\ phase \in Phases
    /\ client \in {"on", "gone"}
    /\ buffer \in Seq(Char)
    /\ Len(buffer) <= BufferLimit
    /\ segment \in Seq(Char)
    /\ draining \in BOOLEAN
    /\ due \in Seq(Char)
    /\ told \in {"nothing", "spoken", "refused"}
    /\ messages \in 0..MaxMessages

StreamInit ==
    /\ phase = "handshake"
    /\ client = "on"
    /\ buffer = <<>>
    /\ segment = <<>>
    /\ draining = FALSE
    /\ due = <<>>
    /\ told = "nothing"
    /\ messages = 0

-----------------------------------------------------------------------------
(* Text.                                                                   *)

Inked(t) == {i \in 1..Len(t) : t[i] # "blank"}

\* The letters and stops of it, in order.
Marks(t) ==
    LET nth(k) == CHOOSE i \in Inked(t) : Cardinality(Inked(t) \cap 1..i) = k
    IN  [k \in 1..Cardinality(Inked(t)) |-> t[nth(k)]]

lstrip(t) == IF Inked(t) = {} THEN <<>> ELSE SubSeq(t, Min(Inked(t)), Len(t))
strip(t) == IF Inked(t) = {} THEN <<>> ELSE SubSeq(t, Min(Inked(t)), Max(Inked(t)))

\* _SENTENCE_END: a full stop before a blank or at the end.
SentenceEnds(t) ==
    {i \in 1..Len(t) : t[i] = "stop" /\ (i = Len(t) \/ t[i + 1] = "blank")}

Pieces(t, n) == [segment |-> strip(SubSeq(t, 1, n)),
                 rest |-> lstrip(SubSeq(t, n + 1, Len(t)))]

\* As much as ends in a sentence, and what follows it.
split_at_last_boundary(t) ==
    IF SentenceEnds(t) = {} THEN [segment |-> <<>>, rest |-> t]
    ELSE Pieces(t, Max(SentenceEnds(t)))

\* Mutant of HardCut: the character at the cut is skipped as if it were a blank.
HardCutSkips(t) ==
    LET blanks == {i \in 2..MAX_BUFFER_CHARS : t[i] = "blank"}
        n == IF blanks = {} THEN MAX_BUFFER_CHARS ELSE Max(blanks) - 1
    IN [segment |-> strip(SubSeq(t, 1, n)),
        rest |-> lstrip(SubSeq(t, n + 2, Len(t)))]

\* The cut at the last blank before the ceiling, or else at the ceiling.
HardCut(t) ==
    LET blanks == {i \in 2..MAX_BUFFER_CHARS : t[i] = "blank"}
    IN Pieces(t, IF blanks = {} THEN MAX_BUFFER_CHARS ELSE Max(blanks) - 1)

\* The flush logic of the inbound loop.
Flushed(t, force) ==
    LET split == split_at_last_boundary(t) IN
    IF force THEN [segment |-> strip(t), rest |-> <<>>]
    ELSE IF Len(split.segment) >= Max({1, MIN_BUFFER_CHARS}) THEN split
    ELSE IF Len(t) >= MAX_BUFFER_CHARS THEN HardCut(t)
    ELSE [segment |-> <<>>, rest |-> t]

-----------------------------------------------------------------------------
(* The session.                                                            *)

\* Authentication, the look-up of the voice and its gate: accept or close.
Handshake ==
    /\ phase = "handshake"
    /\ phase' \in {"receive", "closed"}
    /\ UNCHANGED <<client, buffer, segment, draining, due, told, messages>>

\* A frame that is not a JSON object, or whose configuration is rejected, is
\* answered with an error and otherwise ignored, its text included.
BadMessage ==
    /\ phase = "receive"
    /\ client = "on"
    /\ messages < MaxMessages
    /\ messages' = messages + 1
    /\ told' = "refused"
    /\ UNCHANGED <<phase, client, buffer, segment, draining, due>>

\* Text that would pass the limit is refused and the buffer with it.
Overflow(t) ==
    /\ Len(buffer) + Len(t) > BufferLimit
    /\ buffer' = <<>>
    /\ due' = <<>>
    /\ told' = "refused"
    /\ UNCHANGED <<phase, segment>>

\* Text is appended and whatever is ripe is cut off.
AppendText(t, force) ==
    /\ Len(buffer) + Len(t) <= BufferLimit
    /\ LET f == Flushed(buffer \o t, force) IN
          /\ buffer' = f.rest
          /\ segment' = f.segment
          /\ phase' = IF f.segment = <<>> THEN "receive" ELSE "admit"
    /\ due' = due \o Marks(t)
    /\ UNCHANGED told

Message ==
    /\ phase = "receive"
    /\ client = "on"
    /\ messages < MaxMessages
    /\ messages' = messages + 1
    /\ \E t \in Texts \cup {<<>>}, force \in BOOLEAN : Overflow(t) \/ AppendText(t, force)
    /\ UNCHANGED <<client, draining>>

\* Mutant of EndOfInput: there is no idle timeout, only {"close": true}.
EndByMessage ==
    /\ phase = "receive"
    /\ messages < MaxMessages
    /\ messages' = messages + 1
    /\ draining' = TRUE
    /\ segment' = strip(buffer)
    /\ buffer' = <<>>
    /\ phase' = IF segment' = <<>> THEN "done" ELSE "admit"
    /\ UNCHANGED <<client, due, told>>

\* {"close": true} or the idle timeout ends the loop; the tail is flushed.
EndOfInput ==
    /\ phase = "receive"
    /\ client = "on"
    /\ draining' = TRUE
    /\ segment' = strip(buffer)
    /\ buffer' = <<>>
    /\ phase' = IF segment' = <<>> THEN "done" ELSE "admit"
    /\ UNCHANGED <<client, due, told, messages>>

\* The client closes the socket: the handler notices when it next receives
\* and leaves without draining.
Leave ==
    /\ client = "on"
    /\ phase # "closed"
    /\ client' = "gone"
    /\ UNCHANGED <<phase, buffer, segment, draining, due, told, messages>>

NoticeLeft ==
    /\ phase = "receive"
    /\ client = "gone"
    /\ phase' = "closed"
    /\ UNCHANGED <<client, buffer, segment, draining, due, told, messages>>

-----------------------------------------------------------------------------
(* _flush_segment.                                                         *)

\* The segment is spoken, or dropped with an error frame.
AnswerSegment(a) ==
    /\ told' = a
    /\ due' = SubSeq(due, Len(Marks(segment)) + 1, Len(due))
    /\ segment' = <<>>
    /\ phase' = IF draining THEN "done" ELSE "receive"

Continue(p) == phase' = p /\ UNCHANGED <<segment, due, told>>

\* An exception nobody catches ends the connection.  When the client is gone,
\* any send may raise one: only WebSocketDisconnect is swallowed.
Escape == phase' = "closed" /\ UNCHANGED <<segment, due, told>>

\* Too long, or the cluster is saturated; asking it may raise.
AdmitSegment ==
    /\ phase = "admit"
    /\ \/ AnswerSegment("refused")
       \/ Len(segment) <= MaxChars /\ Continue("reserve")
       \/ (Len(segment) <= MaxChars \/ client = "gone") /\ Escape
    /\ UNCHANGED <<client, buffer, draining, messages>>

\* A fresh idempotency row; then the XADD.  Both are allowed to fail.
ReserveSegment ==
    /\ phase = "reserve"
    /\ AnswerSegment("refused") \/ Continue("submit") \/ (client = "gone" /\ Escape)
    /\ UNCHANGED <<client, buffer, draining, messages>>

SubmitSegment ==
    /\ phase = "submit"
    /\ AnswerSegment("refused") \/ Continue("result") \/ (client = "gone" /\ Escape)
    /\ UNCHANGED <<client, buffer, draining, messages>>

\* The result stream ends with its final marker, or with an error or the
\* segment's timeout; reading it may raise.
SegmentResult ==
    /\ phase = "result"
    /\ AnswerSegment("spoken") \/ AnswerSegment("refused") \/ Escape
    /\ UNCHANGED <<client, buffer, draining, messages>>

\* The done frame and the close.
Finish ==
    /\ phase = "done"
    /\ phase' = "closed"
    /\ UNCHANGED <<client, buffer, segment, draining, due, told, messages>>

StreamHandler ==
    \/ EndOfInput \/ NoticeLeft
    \/ AdmitSegment \/ ReserveSegment \/ SubmitSegment \/ SegmentResult
    \/ Finish

StreamNext == Handshake \/ BadMessage \/ Message \/ Leave \/ StreamHandler

StreamSpec == StreamInit /\ [][StreamNext]_streamVars /\ WF_streamVars(StreamHandler)

-----------------------------------------------------------------------------
(* Properties.                                                             *)

\* However the client cuts its text into messages, every letter and stop that
\* was accepted is in the segment in hand or in the buffer, once and in order:
\* the boundary search, the hard cut and the stripping move blanks only.
TextConserved == due = Marks(segment \o buffer)

\* "... so no audio is silently dropped": the done frame comes after every
\* piece of text was spoken or refused with an error frame.
DoneMeansAnswered == phase = "done" => due = <<>>

\* Text does not stay in the buffer: a sentence, the ceiling, a flush, the close
\* or the idle timeout sends it off, unless the connection ends.
TextIsFlushed == (due # <<>>) ~> (due = <<>> \/ phase = "closed")

\* The text of a connection, in every state: within its limits, nothing lost or
\* doubled, and nothing left unanswered at the end (ws.py).
StreamSound == StreamTypeOK /\ TextConserved /\ DoneMeansAnswered
=============================================================================
