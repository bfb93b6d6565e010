---------------------------- MODULE TextFrontend ----------------------------
(***************************************************************************)
(* What the engine is given to say: sentences cut out of a text            *)
(* (segment_sentences, src/frontend/lang_packs/tr/segment.py) and numbers  *)
(* turned into words (numbers.py and the number rules of normalize.py).    *)
(*                                                                         *)
(* A character is one of a few classes.  The dots of abbreviations that    *)
(* the splitter knows are a class of their own in the text, "abbr"; what   *)
(* tells them apart is a list of words and no concern here.                *)
(***************************************************************************)
EXTENDS Integers, Sequences, SequencesExt, FiniteSetsExt

CONSTANTS
    SpokenTexts,   \* texts that are segmented
    SpokenNumbers, \* numbers that are put into words
    MinSegment,    \* MIN_CHARS_PER_SEGMENT
    MaxSegment,    \* MAX_CHARS_PER_SEGMENT
    Slack          \* how far behind the middle a long segment may be cut

Glyph == {"letter", "upper", "stop", "abbr", "placeholder", "comma", "blank", "newline"}
Spaces == {"blank", "newline"}

\* Normalized texts have no control characters, and numbers are in range.
ASSUME FrontendAssumption ==
    /\ SpokenTexts \subseteq Seq(Glyph \ {"placeholder"})
    /\ \A n \in SpokenNumbers :
          /\ n \in [negative : BOOLEAN, whole : Nat, decimals : Seq(0..9)]
          /\ n.whole \div 10^9 < 1000
    /\ MinSegment \in Nat \ {0}
    /\ MaxSegment \in Nat
    /\ Slack \in Nat

VARIABLES
    text,      \* the normalized text
    segments,  \* its sentences
    number,    \* a number in the text: its sign, whole part and decimals
    words      \* how it is spoken

frontendVars == <<text, segments, number, words>>

Zero == [negative |-> FALSE, whole |-> 0, decimals |-> <<>>]

FrontendInit ==
    /\ text = <<>>
    /\ number = Zero
    /\ segments = <<>>
    /\ words = <<>>

-----------------------------------------------------------------------------
(* Segments.                                                               *)

\* str.strip.
trim(s) ==
    LET solid == {i \in DOMAIN s : s[i] \notin Spaces} IN
    IF solid = {} THEN <<>> ELSE SubSeq(s, Min(solid), Max(solid))

\* re.split at every maximal run of spaces between a pair of neighbours in the set
\* between.  (Of a text without spaces at its ends.)
split(s, between) ==
    LET cut == {k \in DOMAIN s : \E i \in 1..k - 1, j \in k + 1..Len(s) :
                    <<s[i], s[j]>> \in between /\ \A m \in i + 1..j - 1 : s[m] \in Spaces}
        part(ps, k) == IF k \notin cut THEN [ps EXCEPT ![Len(ps)] = Append(@, s[k])]
                       ELSE IF k - 1 \in cut THEN ps ELSE Append(ps, <<>>)
        parts[k \in 0..Len(s)] == IF k = 0 THEN <<<<>>>> ELSE part(parts[k - 1], k)
    IN  parts[Len(s)]

\* _protect_abbreviations and _restore_abbreviations.
protect(s) == [i \in DOMAIN s |-> IF s[i] = "abbr" THEN "placeholder" ELSE s[i]]
restore(s) == [i \in DOMAIN s |-> IF s[i] = "placeholder" THEN "abbr" ELSE s[i]]

\* out and buf of a loop that joins segments.
Nothing == [out |-> <<>>, buf |-> <<>>]

\* (buf + " " + seg).trim() if buf else seg
join(buf, seg) == IF buf = <<>> THEN seg ELSE trim(buf \o <<"blank">> \o seg)

\* The loop of _merge_short, segment by segment: what is out, and what was too
\* short yet.
merge(acc, seg) ==
    LET candidate == join(acc.buf, seg) IN
    IF Len(candidate) < MinSegment THEN [acc EXCEPT !.buf = candidate]
    ELSE [out |-> Append(acc.out, candidate), buf |-> <<>>]
merged(segs) ==
    LET after[i \in 0..Len(segs)] == IF i = 0 THEN Nothing ELSE merge(after[i - 1], segs[i])
    IN  after[Len(segs)]

\* Mutant of _merge_short: a last segment that stays too short is dropped.
merge_dropping(segs) == merged(segs).out

\* A segment that is too short is joined to the next one, the last one to the
\* one before.
_merge_short(segs) ==
    LET all == merged(segs)
        n == Len(all.out)
    IN  IF all.buf = <<>> THEN all.out
        ELSE IF n = 0 THEN <<all.buf>>
        ELSE [all.out EXCEPT ![n] = join(@, all.buf)]

\* Where rfind(" ", 0, mid + 40) finds the last blank of s: the characters
\* before it, -1 if there is none.
cut_point(s) ==
    Max({-1} \cup {i - 1 : i \in {j \in DOMAIN s :
                                     s[j] = "blank" /\ j <= Len(s) \div 2 + Slack}})

\* The parts of a segment without commas: cut once, near its middle.
hard_split(s) ==
    LET ws == cut_point(s) IN
    IF ws < MinSegment THEN <<s>>
    ELSE <<trim(SubSeq(s, 1, ws)), trim(SubSeq(s, ws + 1, Len(s)))>>

\* Parts are joined as long as they fit.
group(acc, part) ==
    IF acc.buf # <<>> /\ Len(join(acc.buf, part)) > MaxSegment
    THEN [out |-> Append(acc.out, acc.buf), buf |-> part]
    ELSE [acc EXCEPT !.buf = join(@, part)]
grouped(parts) ==
    LET after[i \in 0..Len(parts)] == IF i = 0 THEN Nothing ELSE group(after[i - 1], parts[i])
    IN  after[Len(parts)]
regroup(parts) ==
    LET all == grouped(parts) IN
    IF all.buf = <<>> THEN all.out ELSE Append(all.out, all.buf)

_split_long(s) ==
    LET parts == split(s, {"comma"} \X (Glyph \ Spaces)) IN
    IF Len(s) <= MaxSegment THEN <<s>>
    ELSE IF Len(parts) = 1 THEN hard_split(s) ELSE regroup(parts)

\* _SENTENCE_END_RE, to which the dot of an abbreviation is a dot.
sentences(s) == split(s, {"stop", "abbr"} \X {"upper"})

segment_sentences(s) ==
    IF trim(s) = <<>> THEN <<>>
    ELSE LET segs == _merge_short(sentences(protect(trim(s))))
             expanded == FlattenSeq([i \in DOMAIN segs |-> _split_long(segs[i])])
         IN  [i \in DOMAIN expanded |-> restore(expanded[i])]

-----------------------------------------------------------------------------
(* Numbers, below 10^12 here and 10^15 in the code.                        *)

_ONES == <<"bir", "iki", "uc", "dort", "bes", "alti", "yedi", "sekiz", "dokuz">>
_TENS == <<"on", "yirmi", "otuz", "kirk", "elli", "altmis", "yetmis", "seksen", "doksan">>
_SCALES == <<[value |-> 10^9, name |-> "milyar"], [value |-> 10^6, name |-> "milyon"],
             [value |-> 10^3, name |-> "bin"]>>

When(condition, s) == IF condition THEN s ELSE <<>>

\* "yüz" alone is a hundred.
_below_thousand(n) ==
    LET hundreds == n \div 100
        tens == (n % 100) \div 10
        ones == n % 10
    IN  When(hundreds > 1, <<_ONES[hundreds]>>) \o When(hundreds > 0, <<"yuz">>)
        \o When(tens > 0, <<_TENS[tens]>>) \o When(ones > 0, <<_ONES[ones]>>)

\* Mutant of scaled: a thousand loses its count.
scaled_by_name(count, name) ==
    When(name # "bin", _below_thousand(count)) \o <<name>>

\* "bin" alone is a thousand.
scaled(count, name) ==
    When(name # "bin" \/ count # 1, _below_thousand(count)) \o <<name>>

\* One scale, and all of them, the largest first.
say_scale(acc, scale) ==
    IF acc.rest < scale.value THEN acc
    ELSE [parts |-> acc.parts \o scaled(acc.rest \div scale.value, scale.name),
          rest |-> acc.rest % scale.value]
number_to_turkish(n) ==
    LET billions == say_scale([parts |-> <<>>, rest |-> n], _SCALES[1])
        millions == say_scale(billions, _SCALES[2])
        thousands == say_scale(millions, _SCALES[3])
    IN  IF n = 0 THEN <<"sifir">> ELSE thousands.parts \o _below_thousand(thousands.rest)

\* The decimals one by one.
decimal_to_turkish(whole, decimals) ==
    number_to_turkish(whole) \o
    When(decimals # <<>>, <<"virgul">> \o
        [i \in DOMAIN decimals |-> IF decimals[i] = 0 THEN "sifir" ELSE _ONES[decimals[i]]])

\* _expand_thousand_grouped, _expand_decimal and _expand_integer.
expand(n) == When(n.negative, <<"eksi">>) \o decimal_to_turkish(n.whole, n.decimals)

-----------------------------------------------------------------------------

Say(t, n) ==
    /\ text' = t /\ segments' = segment_sentences(t)
    /\ number' = n /\ words' = expand(n)

\* A text is segmented, or a number put into words.
Prepare ==
    /\ words = <<>>
    /\ \/ \E t \in SpokenTexts : Say(t, Zero)
       \/ \E n \in SpokenNumbers : Say(<<>>, n)

FrontendSpec == FrontendInit /\ [][Prepare]_frontendVars

-----------------------------------------------------------------------------
(* Properties.                                                             *)

Word == ToSet(_ONES) \cup ToSet(_TENS) \cup {scale.name : scale \in ToSet(_SCALES)}
        \cup {"yuz", "sifir", "virgul", "eksi"}

FrontendTypeOK ==
    /\ text \in Seq(Glyph) /\ segments \in Seq(Seq(Glyph \ {"placeholder"}))
    /\ number.whole \in Nat /\ number.decimals \in Seq(0..9)
    /\ words \in Seq(Word)

Prepared == words # <<>>

Solid(s) ==
    LET solid[i \in 0..Len(s)] == IF i = 0 THEN <<>>
                                  ELSE IF s[i] \in Spaces THEN solid[i - 1]
                                  ELSE Append(solid[i - 1], s[i])
    IN  solid[Len(s)]

\* Whatever is joined and cut, all of the text is said, once and in order, and no
\* segment is empty or has space at an end.
SegmentsHoldText ==
    Prepared =>
        /\ Solid(FlattenSeq(segments)) = Solid(text)
        /\ \A i \in DOMAIN segments : segments[i] # <<>> /\ trim(segments[i]) = segments[i]

\* "Naive split would shatter abbreviations": a segment ends with the dot of an
\* abbreviation only at the end of the text, or where a segment too long was cut.
AbbreviationsHold ==
    Prepared /\ Len(text) <= MaxSegment =>
        \A i \in 1..Len(segments) - 1 : Last(segments[i]) # "abbr"

\* A text is cut into segments that are long enough, unless all of it is too
\* short or a segment too long was cut.
ShortIsMerged ==
    Prepared /\ Len(text) <= MaxSegment /\ Len(segments) > 1 =>
        \A i \in DOMAIN segments : Len(segments[i]) >= MinSegment

\* The number that words stand for: the usual way to read them.
Index(s, w) == CHOOSE i \in DOMAIN s : s[i] = w
Hear(acc, w) ==
    CASE w \in ToSet(_ONES) -> [acc EXCEPT !.group = @ + Index(_ONES, w)]
      [] w \in ToSet(_TENS) -> [acc EXCEPT !.group = @ + 10 * Index(_TENS, w)]
      [] w = "yuz" -> [acc EXCEPT !.group = Max({@, 1}) * 100]
      [] w = "sifir" -> acc
      [] OTHER -> LET scale == CHOOSE x \in ToSet(_SCALES) : x.name = w IN
             [total |-> acc.total + Max({acc.group, 1}) * scale.value, group |-> 0]
Heard(spoken) ==
    LET heard[i \in 0..Len(spoken)] ==
            IF i = 0 THEN [total |-> 0, group |-> 0] ELSE Hear(heard[i - 1], spoken[i])
    IN  heard[Len(spoken)]
Value(spoken) == Heard(spoken).total + Heard(spoken).group

\* A number without its sign: the whole part up to "virgul", the decimals after it.
ReadBack(spoken) ==
    LET points == {i \in DOMAIN spoken : spoken[i] = "virgul"}
        point == IF points = {} THEN Len(spoken) + 1 ELSE Min(points)
        decimals == SubSeq(spoken, point + 1, Len(spoken))
    IN  [whole |-> Value(SubSeq(spoken, 1, point - 1)),
         decimals |-> [i \in DOMAIN decimals |-> Value(<<decimals[i]>>)]]

\* What is heard is the number that was written: sign, whole part and decimals are
\* read back from the words alone.
NumbersReadBack ==
    Prepared =>
        LET negative == Head(words) = "eksi" IN
        /\ number.negative = negative
        /\ ReadBack(IF negative THEN Tail(words) ELSE words) =
               [whole |-> number.whole, decimals |-> number.decimals]

\* The segments of a text: nothing lost, no abbreviation cut, none too short
\* (segment_sentences).
SegmentsSound ==
    FrontendTypeOK /\ SegmentsHoldText /\ AbbreviationsHold /\ ShortIsMerged
=============================================================================
