----------------------------- MODULE ReplyStream -----------------------------
(* A reply on its way from the provider's stream to whoever reads or hears    *)
(* it: calls written into the text are taken out of it, the rest goes out in  *)
(* frames, and the terminal prints lines, the voice loop speaks phrases, the  *)
(* companion speaks what a JSON object quotes.  Each stage sees the reply cut *)
(* at any place.  Letters stand for characters or for what is matched whole.  *)
EXTENDS Naturals, Sequences, FiniteSets, SequencesExt, FiniteSetsExt

CONSTANTS
  Replies,     \* bound: what the model may write, [to, by, items]
  TagStart,    \* TAG_START and TAG_END, which begin alike
  TagEnd,
  MinChunk,    \* MIN_CHUNK_CHARS
  Width,       \* of the terminal
  DrainAfter,  \* DRAIN_AFTER
  HexDigits    \* of an escaped character

ASSUME ReplyStreamAssumption ==
  /\ {MinChunk, Width, DrainAfter, HexDigits} \subseteq Nat \ {0}
  /\ {TagStart, TagEnd} \subseteq Seq(STRING) \ {<<>>}
  /\ \A r \in Replies : r.items \in Seq(STRING)

VARIABLES
  reply,      \* what the model is going to write
  at,         \* how much of it has arrived
  parser,     \* _InlineToolCallParser of this pass
  fragments,  \* tc_state of this pass
  asked,      \* the calls of each pass that is over
  status,
  reader,     \* the frame being read, and the events read so far
  consumer,   \* buf, spilled and shown of the renderer or the voice, json of the companion
  said,       \* history: what has been streamed
  passed        \* history: what of this pass has come, and been let through

streamVars == <<reply, at, parser, fragments, asked, status, reader, consumer, said, passed>>

\* n is the newline, d a hexadecimal digit, b the backslash and q the quote;
\* call0 and call1 are fragments of structured calls, tools is the end of a pass,
\* E an emotion with its key, R the response's key with the opening quote.
Blank == {" ", "n"}
Letters(s) == SelectSeq(s, LAMBDA c : c \notin Blank)

Fresh == [pending |-> <<>>, inTag |-> FALSE, buf |-> <<>>, calls |-> <<>>, out |-> <<>>]
NoCalls == [call0 |-> <<>>, call1 |-> <<>>]
NoText == [came |-> <<>>, told |-> <<>>]
NoFrame == [event |-> "message", data |-> <<>>, got |-> <<>>]

StreamTypeOK ==
  /\ reply.to \in {"terminal", "voice", "companion"} /\ at \in 0..Len(reply.items)
  /\ Len(parser.pending) < Max({Len(TagStart), Len(TagEnd)}) /\ parser.out = <<>>
  /\ (~ parser.inTag => parser.buf = <<>>)
  /\ status \in {"streaming", "over", "cut", "failed"}
  /\ reader = NoFrame
  /\ consumer.json.mode \in {"text", "escape", "unicode"}
  /\ Len(consumer.json.digits) < HexDigits

StreamInit ==
  /\ reply \in Replies /\ at = 0
  /\ parser = Fresh /\ fragments = NoCalls /\ asked = <<>>
  /\ status = "streaming" /\ reader = NoFrame
  /\ consumer = [buf |-> <<>>, spilled |-> FALSE, shown |-> <<>>,
                 json |-> [emotion |-> FALSE, started |-> FALSE, done |-> FALSE,
                           mode |-> "text", digits |-> <<>>, out |-> <<>>]]
  /\ said = <<>> /\ passed = NoText

-----------------------------------------------------------------------------
(* Calls written into the text                                             *)

Occurrences(t, s) == {i \in 1..Len(s) : IsPrefix(t, SubSeq(s, i, Len(s)))}

\* Fault: nothing is held back when the delta ends.
HeldNone(tag) == 0

\* As much as could be the beginning of the tag.
Held(tag) == Len(tag) - 1

Moved(p, n) ==
  LET m == SubSeq(p.pending, 1, n)
      rest == [p EXCEPT !.pending = SubSeq(@, n + 1, Len(@))]
  IN  IF p.inTag THEN [rest EXCEPT !.buf = @ \o m] ELSE [rest EXCEPT !.out = @ \o m]

\* A call has a name, which ends at the first >.
Commits(p) ==
  [p EXCEPT !.inTag = FALSE, !.buf = <<>>,
            !.calls = IF Contains(p.buf, ">") THEN Append(@, p.buf) ELSE @]

\* What is looked for: the end of a call, or the beginning of one.
Tag(p) == IF p.inTag THEN TagEnd ELSE TagStart

\* One turn of the loop, up to the tag that comes first, if one does.
Turn(p) ==
  LET found == Occurrences(Tag(p), p.pending)
      before == Moved(p, Min(found) - 1)
      after == [before EXCEPT !.pending = SubSeq(@, Len(Tag(p)) + 1, Len(@))]
  IN  IF found = {} THEN p
      ELSE IF p.inTag THEN Commits(after) ELSE [after EXCEPT !.inTag = TRUE, !.buf = <<>>]

Turns(p) == LET turn[n \in Nat] == IF n = 0 THEN p ELSE Turn(turn[n - 1]) IN turn

\* When there are no more tags.
Rest(p) == Moved(p, Max({0, Len(p.pending) - Held(Tag(p))}))

\* A turn that finds a tag takes a letter at least.
Feed(p) == Rest(Turns(p)[Len(p.pending)])

More(p, text) == [p EXCEPT !.pending = @ \o text]

\* Fault: a tag that was never closed is dropped.
FlushTextOnly(p) == IF p.inTag THEN <<>> ELSE p.pending

\* "Treat a half-open tag as text."
Flush(p) == IF p.inTag THEN TagStart \o p.buf \o p.pending ELSE p.pending

\* Fault: the calls in the text are dropped when there are structured ones.
FinalEither(p, fs) ==
  LET given == SelectSeq(<<fs.call0, fs.call1>>, LAMBDA c : c # <<>>)
  IN  IF given = <<>> THEN p.calls ELSE given

\* Structured calls by their index, then the others, each once.
Final(p, fs) ==
  FoldLeft(LAMBDA calls, c : IF Contains(calls, c) THEN calls ELSE Append(calls, c),
           SelectSeq(<<fs.call0, fs.call1>>, LAMBDA c : c # <<>>), p.calls)

-----------------------------------------------------------------------------
(* Frames                                                                  *)

\* Parts between occurrences of c.
Split(s, c) ==
  FoldLeft(LAMBDA parts, x : IF x = c THEN Append(parts, <<>>)
                             ELSE [parts EXCEPT ![Len(parts)] = Append(@, x)],
           << <<>> >>, s)

Joined(parts, c) ==
  IF parts = <<>> THEN <<>>
  ELSE FoldLeft(LAMBDA s, t : s \o <<c>> \o t, Head(parts), Tail(parts))

\* A line of data cannot hold a newline.
Frame(event, text) ==
  << [field |-> "event", value |-> event] >>
    \o [i \in DOMAIN Split(text, "n") |-> [field |-> "data", value |-> Split(text, "n")[i]]]
    \o << [field |-> "none", value |-> ""] >>

Dispatched(r) ==
  [event |-> "message", data |-> <<>>,
   got |-> IF r.data = <<>> THEN r.got ELSE Append(r.got, <<r.event, Joined(r.data, "n")>>)]

\* Fault: every line of data is an event of its own.
ReadLineSingly(r, line) ==
  CASE line.field = "event" -> [r EXCEPT !.event = line.value]
    [] line.field = "data"  -> [r EXCEPT !.got = Append(@, <<r.event, line.value>>)]
    [] line.field = "none"  -> [r EXCEPT !.event = "message"]

ReadLine(r, line) ==
  CASE line.field = "event" -> [r EXCEPT !.event = line.value]
    [] line.field = "data"  -> [r EXCEPT !.data = Append(@, line.value)]
    [] line.field = "none"  -> Dispatched(r)

-----------------------------------------------------------------------------
(* The terminal                                                            *)

Prints(c, line) == [c EXCEPT !.shown = @ \o Append(line, "n")]

\* The blank rest of a line that has spilled is none.
EmitLine(c, line) ==
  [(IF c.spilled /\ Letters(line) = <<>> THEN c ELSE Prints(c, line)) EXCEPT !.spilled = FALSE]

Words(s) == SelectSeq(Split(s, " "), LAMBDA w : w # <<>>)

Fitting(words) == {n \in DOMAIN words : Len(Joined(SubSeq(words, 1, n), " ")) <= Width}

Drained(c, words, n) ==
  [Prints(c, Joined(SubSeq(words, 1, n), " ")) EXCEPT
     !.spilled = TRUE,
     !.buf = Joined(SubSeq(words, n + 1, Len(words)), " ")
               \o (IF c.buf[Len(c.buf)] = " " THEN <<" ">> ELSE <<>>)]

\* A paragraph without a newline is printed once it is several lines long.
DrainOnce(c) ==
  LET words == Words(c.buf)
      fit == Fitting(words)
  IN  IF \/ Len(c.buf) <= DrainAfter * Width \/ Len(words) < 2
         \/ fit = {} \/ Len(words) \in fit
        THEN c
        ELSE Drained(c, words, Max(fit))

\* Each time it is shorter.
Drain(c) == FoldLeft(LAMBDA d, x : DrainOnce(d), c, c.buf)

Feeds(c, text) ==
  LET lines == Split(c.buf \o text, "n")
      emitted == FoldLeft(EmitLine, c, Front(lines))
  IN  Drain([emitted EXCEPT !.buf = Last(lines)])

Flushes(c) ==
  LET rest == [c EXCEPT !.buf = <<>>]
  IN  IF Letters(c.buf) = <<>> THEN rest ELSE EmitLine(rest, c.buf)

\* Anything but a token is printed on lines of its own.
Terminal(c, e) == IF e[1] = "token" THEN Feeds(c, e[2]) ELSE Flushes(c)

-----------------------------------------------------------------------------
(* The voice                                                               *)

Breaks == {".", "n"}

\* Where a break and the blanks behind it end, and enough has gathered.
PhraseEnds(s) ==
  {e \in MinChunk..Len(s) :
     /\ s[e] \in Blank /\ (e < Len(s) => s[e + 1] \notin Blank)
     /\ \E i \in 1..e - 1 : s[i] \in Breaks /\ \A j \in i + 1..e : s[j] \in Blank}

Phrase(c, n) ==
  [c EXCEPT !.shown = Append(@, SubSeq(c.buf, 1, n)), !.buf = SubSeq(@, n + 1, Len(@))]

PopPhrase(c) == IF PhraseEnds(c.buf) = {} THEN c ELSE Phrase(c, Min(PhraseEnds(c.buf)))

PopPhrases(c) == FoldLeft(LAMBDA d, x : PopPhrase(d), c, c.buf)

SpeaksRest(c) == IF Letters(c.buf) = <<>> THEN c ELSE Phrase(c, Len(c.buf))

\* What is not worth a word of its own does not end a phrase.
Voices(c, e) ==
  CASE e[1] = "token"      -> PopPhrases([c EXCEPT !.buf = @ \o e[2]])
    [] e[1] = "tool_quiet" -> c
    [] OTHER               -> SpeaksRest(c)

-----------------------------------------------------------------------------
(* The companion                                                           *)

Speak(j, s) == [j EXCEPT !.out = @ \o s, !.mode = "text", !.digits = <<>>]

Unicode(digits) == IF ToSet(digits) = {"d"} THEN <<"U">> ELSE <<"b", "u">> \o digits

\* A letter of the response, up to the quote that ends it.
Quoted(j, c) ==
  CASE j.mode = "unicode" /\ Len(j.digits) + 1 < HexDigits -> [j EXCEPT !.digits = Append(@, c)]
    [] j.mode = "unicode" /\ Len(j.digits) + 1 = HexDigits -> Speak(j, Unicode(Append(j.digits, c)))
    [] j.mode = "escape" /\ c = "u"                        -> [j EXCEPT !.mode = "unicode"]
    [] j.mode = "escape" /\ c # "u"                        -> Speak(j, <<c>>)
    [] j.mode = "text" /\ c = "b"                          -> [j EXCEPT !.mode = "escape"]
    [] j.mode = "text" /\ c = "q"                          -> [j EXCEPT !.done = TRUE]
    [] OTHER                                               -> Speak(j, <<c>>)

Parses(j, c) ==
  LET k == [j EXCEPT !.emotion = @ \/ c = "E"]
  IN  IF k.started /\ ~ k.done THEN Quoted(k, c) ELSE [k EXCEPT !.started = @ \/ c = "R"]

-----------------------------------------------------------------------------
(* The stream                                                              *)

\* Where the pass under way ends.
PassEnd == Min({i \in at + 1..Len(reply.items) : reply.items[i] = "tools"} \cup {Len(reply.items) + 1})

Content(items) ==
  LET text[i \in 0..Len(items)] ==
        IF i = 0 THEN <<>>
        ELSE IF items[i] \in {"call0", "call1"} THEN text[i - 1] ELSE Append(text[i - 1], items[i])
  IN  text[Len(items)]

Accumulated(items) ==
  FoldLeft(LAMBDA fs, i : IF i \in {"call0", "call1"} THEN [fs EXCEPT ![i] = Append(@, ">")] ELSE fs,
           fragments, items)

\* Ollama's replies are passed on as they are.
Parsed(text) ==
  IF reply.by = "ollama" THEN [parser EXCEPT !.out = text]
                         ELSE Feed(More(parser, text))

Shows(delta, events) ==
  LET read == FoldLeft(ReadLine, reader,
                       FlattenSeq([k \in DOMAIN events |-> Frame(events[k][1], events[k][2])]))
  IN  /\ reader' = [read EXCEPT !.got = <<>>]
      /\ consumer' =
           CASE reply.to = "terminal"  -> FoldLeft(Terminal, consumer, read.got)
             [] reply.to = "voice"     -> FoldLeft(Voices, consumer, read.got)
             [] reply.to = "companion" -> [consumer EXCEPT !.json = FoldLeft(Parses, @, delta)]
      /\ said' = said \o delta

Token(delta) == IF delta = <<>> THEN <<>> ELSE << <<"token", delta>> >>

Chunk(n) ==
  LET items == SubSeq(reply.items, at + 1, at + n)
      p == Parsed(Content(items))
  IN  /\ status = "streaming" /\ at + n < PassEnd
      /\ at' = at + n
      /\ parser' = [p EXCEPT !.out = <<>>]
      /\ passed' = [came |-> passed.came \o Content(items), told |-> passed.told \o p.out]
      /\ fragments' = Accumulated(items)
      /\ Shows(p.out, Token(p.out))
      /\ UNCHANGED <<reply, asked, status>>

\* The chunk with finish_reason, or [DONE]: the tail is flushed and the calls are
\* complete.  Without calls the turn is over, else the tools run.
Finish(n, start) ==
  LET items == SubSeq(reply.items, at + 1, at + n)
      p == Parsed(Content(items))
      delta == p.out \o (IF reply.by = "ollama" THEN <<>> ELSE Flush(p))
      calls == Final(p, Accumulated(items))
      more == calls # <<>> /\ PassEnd < Len(reply.items)
  IN  /\ status = "streaming" /\ at + n + 1 = PassEnd
      /\ at' = IF more THEN PassEnd ELSE at + n
      /\ status' = IF more THEN "streaming" ELSE "over"
      /\ asked' = Append(asked, calls)
      /\ parser' = Fresh /\ fragments' = NoCalls /\ passed' = NoText
      /\ Shows(delta, Token(delta) \o << <<IF more THEN start ELSE "done", <<>> >> >>)
      /\ UNCHANGED reply

\* The stream just stops: nothing is flushed and no calls are made.
Cut ==
  /\ status = "streaming"
  /\ status' = "cut"
  /\ Shows(<<>>, << <<"done", <<>> >> >>)
  /\ UNCHANGED <<reply, at, parser, fragments, asked, passed>>

Fails ==
  /\ status = "streaming"
  /\ status' = "failed"
  /\ Shows(<<>>, << <<"error", <<>> >> >>)
  /\ UNCHANGED <<reply, at, parser, fragments, asked, passed>>

StreamNext ==
  \/ \E n \in 1..Len(reply.items) : Chunk(n)
  \/ \E n \in 0..Len(reply.items), start \in {"tool_start", "tool_quiet"} : Finish(n, start)
  \/ Cut \/ Fails

StreamSpec == StreamInit /\ [][StreamNext]_streamVars

-----------------------------------------------------------------------------
(* The reply read as a whole                                               *)

\* What of a pass is text, and what are calls.
Whole(s) ==
  LET whole[i \in 1..Len(s) + 1] ==
        LET Behind(j, t) == {k \in Occurrences(t, s) : k >= j}
            from == Behind(i, TagStart)
            start == Min(from) + Len(TagStart)
            to == Behind(start, TagEnd)
            call == SubSeq(s, start, Min(to) - 1)
            more == whole[Min(to) + Len(TagEnd)]
        IN  IF from = {} \/ to = {} THEN [text |-> SubSeq(s, i, Len(s)), calls |-> {}]
            ELSE [text  |-> SubSeq(s, i, Min(from) - 1) \o more.text,
                  calls |-> more.calls \cup (IF Contains(call, ">") THEN {call} ELSE {})]
  IN  whole[1]

Plain(s) == IF reply.by = "ollama" THEN [text |-> s, calls |-> {}] ELSE Whole(s)

Structured(pass) ==
  SelectSeq(<<SelectSeq(pass, LAMBDA i : i = "call0"), SelectSeq(pass, LAMBDA i : i = "call1")>>,
            LAMBDA c : c # <<>>)

\* The calls of a pass, with how often each kind is to be made.
Asks(pass) ==
  LET given == [k \in DOMAIN Structured(pass) |-> [i \in DOMAIN Structured(pass)[k] |-> ">"]]
  IN  [calls |-> ToSet(given) \cup Plain(Content(pass)).calls,
       count |-> Len(given) + Cardinality(Plain(Content(pass)).calls \ ToSet(given))]

Passes == Split(reply.items, "tools")

\* A pass is followed by another if it asks for something.
Written ==
  SubSeq(Passes, 1, Min({k \in DOMAIN Passes : Asks(Passes[k]).calls = {}} \cup {Len(Passes)}))

Text == FlattenSeq([k \in DOMAIN Written |-> Plain(Content(Written[k])).text])

\* The string a JSON object's response is.
Decoded(s) ==
  LET from[i \in 1..Len(s) + 1] ==
        CASE i > Len(s)                                     -> <<>>
          [] i <= Len(s) /\ s[i] = "q"                      -> <<>>
          [] i <= Len(s) /\ s[i] \notin {"q", "b"}          -> <<s[i]>> \o from[i + 1]
          [] i = Len(s) /\ s[i] = "b"                       -> <<>>
          [] i < Len(s) /\ s[i] = "b" /\ s[i + 1] # "u"     -> <<s[i + 1]>> \o from[i + 2]
          [] i < Len(s) /\ s[i] = "b" /\ s[i + 1] = "u"     ->
               IF i + 1 + HexDigits > Len(s) THEN <<>>
               ELSE Unicode(SubSeq(s, i + 2, i + 1 + HexDigits)) \o from[i + 2 + HexDigits]
  IN  from[1]

Promised ==
  IF reply.to = "companion"
    THEN IF Contains(Text, "R") THEN Decoded(SubSeq(Text, Min(Occurrences(<<"R">>, Text)) + 1, Len(Text)))
                                ELSE <<>>
    ELSE Letters(Text)

Shown ==
  CASE reply.to = "terminal"  -> Letters(consumer.shown)
    [] reply.to = "voice"     -> Letters(FlattenSeq(consumer.shown))
    [] reply.to = "companion" -> consumer.json.out

-----------------------------------------------------------------------------
(* Properties                                                              *)

\* Wherever the stream is cut, nothing is shown that a later delta takes back:
\* no part of a call's marker and none of the JSON around the response
\* (llm.py, "Without this parser those markers leak to TTS").
InOrder == IsPrefix(Shown, Promised)

\* When the stream has finished all of the reply was shown; when it broke off,
\* all that had been streamed, also the line or phrase that was not complete.
NothingEaten ==
  /\ status = "over" => Shown = Promised
  /\ status \in {"cut", "failed"} /\ reply.to # "companion" => Shown = Letters(said)

LineStarts(s) ==
  {k \in 1..Len(Letters(s)) - 1 :
     \E i \in DOMAIN s : s[i] = "n" /\ Len(Letters(SubSeq(s, 1, i))) = k}

\* A newline in the reply is one on the terminal, through the frames, which
\* cannot hold one ("silently eats every newline in the reply").
LinesKept ==
  status = "over" /\ reply.to = "terminal" => LineStarts(Text) \subseteq LineStarts(consumer.shown)

\* However a pass is cut into deltas, the parser is where all of them at once would
\* have led it, has let the same through and found the same calls
\* ("Hold back the tail in case TAG_START spans a future delta").
CutAnywhere ==
  reply.by # "ollama" =>
    [parser EXCEPT !.out = passed.told] = Feed(More(Fresh, passed.came))

\* A pass ends with exactly the calls that were written in it, in either form,
\* none twice because it was written in both.
CallsKept ==
  \A k \in DOMAIN asked :
    /\ ToSet(asked[k]) = Asks(Passes[k]).calls
    /\ Len(asked[k]) = Asks(Passes[k]).count

-----------------------------------------------------------------------------
(* Together                                                                *)

\* What has been shown so far and in the end, where its lines begin, and what was
\* called.
ShownInv == StreamTypeOK /\ InOrder /\ NothingEaten /\ LinesKept /\ CallsKept
=============================================================================
