------------------------------- MODULE SseWire -------------------------------
(***************************************************************************)
(* Server-sent events coming off a wire that cuts them anywhere and whose  *)
(* proxies rewrite line ends: readFrames() of the OpenAI transport, and    *)
(* openSseStream() of the browser, each with its decodeSseFrames().        *)
(*                                                                         *)
(* A byte is a token: a line end, the colon's space, a field name with its *)
(* colon, a plain character, or half of a two-byte one.                    *)
(***************************************************************************)
EXTENDS Naturals, SequencesExt

CONSTANT MaxFrames  \* frames on the wire

LF == "LF"  CR == "CR"  Space == "space"  Data == "data:"
Half1 == "high"  Half2 == "low"  Whole == "character"  Lost == "replacement"

VARIABLES
  reader,   \* whose decoder it is
  written,  \* the frames as they were sent off, by their lines
  at,       \* bytes read so far
  held,     \* the half character the TextDecoder keeps back
  buffer,   \* text not yet decoded
  frames,   \* payloads yielded
  open      \* the body has not ended

wireVars == <<reader, written, at, held, buffer, frames, open>>

\* What the two ends agreed on: lines of a field and its text.
Line   == {<<Data, Space, "x">>, <<Data, Space, Half1, Half2>>, <<Data, Space, Space, "x">>,
           <<":">>, <<Data, Space, "?">>}
Blocks == {<<l>> : l \in Line} \cup {<<l, <<Data, "x">>>> : l \in {<<Data, "x">>, <<"event:", "x">>}}
Ends   == {<<LF>>, <<CR, LF>>}
Frame  == [lines : Blocks, end : Ends]

Scripts == UNION {[1..n -> Frame] : n \in 1..MaxFrames}

Bytes(f) == FlattenSeq([i \in DOMAIN f.lines |-> f.lines[i] \o f.end]) \o f.end
Wire     == FlattenSeq([i \in DOMAIN written |-> Bytes(written[i])])

SseWireTypeOK ==
  /\ reader \in {"transport", "browser"}
  /\ written \in Seq(Frame) /\ at \in 0..Len(Wire)
  /\ held \in {<<>>, <<Half1>>}
  /\ Range(buffer) \subseteq Range(Wire) \cup {Whole}
  /\ \A i \in DOMAIN frames : Range(frames[i]) \subseteq Range(Wire) \cup {Whole}
  /\ open \in BOOLEAN

WireInit ==
  /\ reader \in {"transport", "browser"}
  /\ written \in Scripts
  /\ at = 0
  /\ held = <<>>
  /\ buffer = <<>>
  /\ frames = <<>>
  /\ open = TRUE

-----------------------------------------------------------------------------
MutTextOf(bytes) ==
  [kept |-> <<>>,
   text |-> FoldLeft(LAMBDA t, b :
              CASE b = Half1 -> Append(t, Lost) [] b = Half2 -> Append(t, Lost)
                [] OTHER -> Append(t, b), <<>>, bytes)]

\* TextDecoder.decode(bytes, {stream: true}): an unfinished character waits.
TextOf(bytes) ==
  FoldLeft(LAMBDA d, b :
             CASE b = Half1 -> [d EXCEPT !.kept = <<Half1>>]
               [] b = Half2 -> [kept |-> <<>>, text |-> Append(d.text, Whole)]
               [] OTHER     -> [d EXCEPT !.text = Append(@, b)],
           [kept |-> <<>>, text |-> <<>>], bytes)

\* replace(/\r\n/g, "\n").
Normal(text) ==
  FoldLeft(LAMBDA t, c : IF c = LF /\ t # <<>> /\ Last(t) = CR THEN Append(Front(t), LF)
                         ELSE Append(t, c), <<>>, text)

\* t without the one line end it may end in: "\n", or "\r\n" where the reader
\* takes it for one.
EndsLine(t)    == t # <<>> /\ Last(t) = LF
WithoutEnd(t)  == LET u == Front(t)
                  IN  IF reader = "browser" /\ u # <<>> /\ Last(u) = CR THEN Front(u) ELSE u

\* Splitting at each separator, from the left; the last piece is the rest.
Split(text, IsEnd(_), Cut(_)) ==
  FoldLeft(LAMBDA s, c :
             LET t == Append(s.rest, c)
             IN  IF IsEnd(t) THEN [pieces |-> Append(s.pieces, Cut(t)), rest |-> <<>>]
                 ELSE [s EXCEPT !.rest = t],
           [pieces |-> <<>>, rest |-> <<>>], text)

Lines(block) == LET s == Split(block, EndsLine, WithoutEnd) IN Append(s.pieces, s.rest)

\* "\n\n" of the transport, /\r?\n\r?\n/ of the browser.
BlocksOf(text) ==
  Split(text, LAMBDA t : EndsLine(t) /\ EndsLine(WithoutEnd(t)),
        LAMBDA t : WithoutEnd(WithoutEnd(t)))

\* The data lines of a block, each without its field and one space, joined.
PayloadOf(block) ==
  LET data == SelectSeq(Lines(block), LAMBDA l : l # <<>> /\ l[1] = Data)
      Value(l) == IF Len(l) > 1 /\ l[2] = Space THEN SubSeq(l, 3, Len(l)) ELSE Tail(l)
  IN  FoldLeft(LAMBDA p, i : IF i = 1 THEN Value(data[1]) ELSE p \o <<LF>> \o Value(data[i]),
               <<>>, [i \in DOMAIN data |-> i])

\* JSON.parse() refuses it.
Unreadable(payload) == "?" \in Range(payload)

\* decodeSseFrames(): one without data is no payload; the browser also skips
\* one it cannot read, where the provider is left to complain.
Decoded(text) ==
  LET blocks == BlocksOf(IF reader = "transport" THEN Normal(text) ELSE text)
      payloads == [i \in DOMAIN blocks.pieces |-> PayloadOf(blocks.pieces[i])]
  IN  [frames |-> SelectSeq(payloads, LAMBDA p : p # <<>> /\ ~(reader = "browser" /\ Unreadable(p))),
       rest |-> blocks.rest]

\* One read() and what it brings.
Read ==
  /\ open /\ at < Len(Wire)
  /\ \E n \in (at + 1)..Len(Wire) :
       LET d == TextOf(held \o SubSeq(Wire, at + 1, n))
           r == Decoded(buffer \o d.text)
       IN  /\ at' = n
           /\ held' = d.kept
           /\ buffer' = r.rest
           /\ frames' = frames \o r.frames
  /\ UNCHANGED <<reader, written, open>>

\* `done`, wherever the connection was cut; what is left in the buffer is
\* dropped.
Closes ==
  /\ open
  /\ open' = FALSE
  /\ UNCHANGED <<reader, written, at, held, buffer, frames>>

WireNext == Read \/ Closes

WireSpec == WireInit /\ [][WireNext]_wireVars

-----------------------------------------------------------------------------
\* What a frame says, as the one who wrote it meant it.
Meant(f) ==
  LET said == SelectSeq(f.lines, LAMBDA l : l[1] = Data)
      Text(l) == IF l = <<Data, "x">> THEN <<"x">>
                 ELSE IF l = <<Data, Space, Half1, Half2>> THEN <<Whole>>
                 ELSE SubSeq(l, 3, Len(l))
  IN  CASE said = <<>>      -> <<>>
        [] Len(said) = 1    -> Text(said[1])
        [] OTHER            -> Text(said[1]) \o <<LF>> \o Text(said[2])

\* However the bytes are cut, and whichever line ends a proxy has put in, what
\* has been yielded is what was written and has arrived whole: no frame twice,
\* none torn, none lost but those that were never ended
\* (openai-transport.ts:29-57,140-164, internal/sse.ts:28-69,85-120).
FramesArriveWhole ==
  LET End(i)  == Len(FlattenSeq([j \in 1..i |-> Bytes(written[j])]))
      arrived == SelectSeq([i \in DOMAIN written |-> i], LAMBDA i : End(i) <= at)
      meant   == [k \in DOMAIN arrived |-> Meant(written[arrived[k]])]
  IN  frames = SelectSeq(meant, LAMBDA p :
                 p # <<>> /\ ~(reader = "browser" /\ Unreadable(p)))

=============================================================================
