------------------------ MODULE HttpResponseMachine ------------------------
(***************************************************************************)
(* The state machine of httpclient_parser.cpp: a response head, or the     *)
(* header line of a chunk.  Three headers are known by name; for each the  *)
(* machine follows, in parallel, the plain reading of the line (a name and *)
(* any value) and the special one (a value of the expected form, possibly  *)
(* after folded lines).  Names and numbers as in HttpRequestMachine.       *)
(***************************************************************************)
EXTENDS HttpBytes

Edge(to, acts) == [to |-> to, acts |-> acts]
Go(to) == Edge(to, <<>>)
Error == <<"error">>
Reject == Go(Error)

RToken ==
  Alpha \cup Digit \cup {"!", "#", "$", "%", "&", "'", "*", "+", "-", ".", "^",
                         "_", "x60", "|", "~"}
Blank == Space \ {"\r", "\n"}

\* The headers with a meaning, and the value that gives it to them; the value
\* of Content-Length is any number.
Names ==
  [conn |-> <<"c", "o", "n", "n", "e", "c", "t", "i", "o", "n">>,
   te |-> <<"t", "r", "a", "n", "s", "f", "e", "r", "-", "e", "n", "c", "o",
            "d", "i", "n", "g">>,
   cl |-> <<"c", "o", "n", "t", "e", "n", "t", "-", "l", "e", "n", "g", "t", "h">>]
Kinds == DOMAIN Names
Word == [conn |-> <<"c", "l", "o", "s", "e">>,
         te |-> <<"c", "h", "u", "n", "k", "e", "d">>]

\* Does c continue the special value of this kind after n of its bytes?
Continues(kind, n, c) ==
  IF kind = "cl" THEN c \in Digit
  ELSE n < Len(Word[kind]) /\ ToLower(c) = Word[kind][n + 1]
Complete(kind, n) == IF kind = "cl" THEN n > 0 ELSE n = Len(Word[kind])
\* Digits are not counted.
Count(kind, n) == IF kind = "cl" THEN 1 ELSE n + 1

\* 1 to 3: a chunk begins with its size in hexadecimal, a response with "H".
FirstStep(c) ==
  CASE c = "H"     -> Edge(<<"rversion", 2>>, <<"mark">>)
    [] c \in Hex   -> Edge(<<"size">>, <<"mark">>)
    [] OTHER       -> Reject

\* What may follow the size, a name or a value of a chunk extension.
ChunkEnd(acts, c) ==
  CASE c = "\n" -> Edge(<<"done", "all">>, acts \o <<"done">>)
    [] c = "\r" -> Edge(<<"endLf">>, acts)
    [] c = ";"  -> Edge(<<"extName", 0>>, acts)
    [] OTHER    -> Reject

SizeStep(c) == IF c \in Hex THEN Go(<<"size">>) ELSE ChunkEnd(<<"chunkSize">>, c)

\* 4 to 7: chunk extensions.
ExtNameStep(n, c) ==
  CASE c \in RToken -> Edge(<<"extName", 1>>, IF n = 0 THEN <<"startField">> ELSE <<>>)
    [] n = 1 /\ c = "=" -> Edge(<<"extValue", 0>>, <<"writeField", "mark">>)
    [] n = 1 -> ChunkEnd(<<"writeField", "mark", "field">>, c)
    [] OTHER -> Reject

ExtValueStep(n, c) ==
  CASE c \in RToken -> Edge(<<"extValue", 1>>, IF n = 0 THEN <<"mark">> ELSE <<>>)
    [] n = 1 -> ChunkEnd(<<"field">>, c)
    [] OTHER -> Reject

EndLfStep(c) == IF c = "\n" THEN Edge(<<"done", "all">>, <<"done">>) ELSE Reject

\* 8 to 15: "HTTP/", digits, ".", digits.
RVersionStep(n, c) ==
  LET text == <<"H", "T", "T", "P", "/">>
  IN  CASE n <= 5 /\ c = text[n] -> Go(<<"rversion", n + 1>>)
        [] n \in {6, 7} /\ c \in Digit -> Go(<<"rversion", 7>>)
        [] n = 7 /\ c = "."           -> Go(<<"rversion", 8>>)
        [] n \in {8, 9} /\ c \in Digit -> Go(<<"rversion", 9>>)
        [] n = 9 /\ c = " "           -> Edge(<<"status", 0>>, <<"version">>)
        [] OTHER                      -> Reject

\* 16, 17: the status code.
StatusStep(n, c) ==
  CASE c \in Digit -> Edge(<<"status", 1>>, IF n = 0 THEN <<"mark">> ELSE <<>>)
    [] n = 1 /\ c = " " -> Edge(<<"reason", 0>>, <<"status">>)
    [] OTHER -> Reject

\* 18, 19: the reason phrase, at least one byte; its first may be CR.
ReasonStep(n, c) ==
  CASE c = "\n" /\ n = 0 -> Reject
    [] c = "\n" -> Edge(<<"rline">>, <<"reason">>)
    [] c = "\r" /\ n = 1 -> Edge(<<"rlf">>, <<"reason">>)
    [] OTHER -> Edge(<<"reason", 1>>, IF n = 0 THEN <<"mark">> ELSE <<>>)

\* A name of which w was seen, all lower case, and nothing once it can no
\* longer become one of Names.
NameState(w) ==
  <<"rname", IF \E k \in Kinds : IsPrefix(w, Names[k]) THEN w ELSE <<>>>>

\* 20: the start of a header line.
RLineStep(c) ==
  CASE c = "\n" -> Edge(<<"done", "all">>, <<"done">>)
    [] c = "\r" -> Go(<<"endLf">>)
    [] c \in RToken -> Edge(NameState(<<ToLower(c)>>), <<"startField">>)
    [] OTHER -> Reject

\* 21, 25 to 34, 44 to 60, 101 to 111: a name.
RNameStep(w, c) ==
  CASE c = ":" /\ \E k \in Kinds : Names[k] = w ->
            Edge(<<"special", CHOOSE k \in Kinds : Names[k] = w>>, <<"writeField">>)
    [] c = ":" -> Edge(<<"rvalue", 0>>, <<"writeField">>)
    [] c \in RToken /\ w = <<>> -> Go(<<"rname", <<>>>>)
    [] c \in RToken -> Go(NameState(Append(w, ToLower(c))))
    [] OTHER -> Reject

\* 22 to 24: any value.
RValueStep(n, c) ==
  LET start == IF n = 0 THEN <<"mark">> ELSE <<>>
  IN  CASE c = "\n" -> Edge(<<"rline">>, start \o <<"field">>)
        [] c = "\r" -> Edge(<<"rlf">>, start \o <<"field">>)
        [] c \in Blank /\ n = 0 -> Edge(<<"rvalue", 0>>, start)
        [] OTHER -> Edge(<<"rvalue", 1>>, start)

RLfStep(c) == IF c = "\n" THEN Go(<<"rline">>) ELSE Reject

\* 35, 61, 112: the value of a known header, only blanks so far.
SpecialStep(kind, c) ==
  CASE c = "\n" -> Edge(<<"folded", kind>>, <<"mark", "field">>)
    [] c = "\r" -> Edge(<<"foldCr", kind>>, <<"mark", "field">>)
    [] c \in Blank -> Edge(<<"special", kind>>, <<"mark">>)
    [] Continues(kind, 0, c) -> Edge(<<"word", kind, 1>>, <<"mark">>)
    [] OTHER -> Edge(<<"rvalue", 1>>, <<"mark">>)

\* The end of the line after the whole special value: Connection is noted one
\* byte later, in "closed".  The field is reported if plain is.
WordEnd(kind, plain, c) ==
  LET acts == CASE kind = "cl" -> <<"contentLen", "field">>
                [] kind = "te" -> <<"field">>
                [] kind = "conn" -> IF plain THEN <<"field">> ELSE <<>>
  IN  CASE c = "\n" /\ kind = "conn" -> Edge(<<"closed">>, acts)
        [] c = "\n" /\ kind = "te"   -> Edge(<<"rline">>, acts \o <<"chunked">>)
        [] c = "\n"                  -> Edge(<<"rline">>, acts)
        [] c = "\r" /\ kind = "conn" -> Edge(<<"closeLf">>, acts)
        [] c = "\r" /\ kind = "te"   -> Edge(<<"chunkedLf">>, acts)
        [] c = "\r"                  -> Edge(<<"rlf">>, acts)

\* 81 to 87, 96 to 100, 119: n bytes of the special value right after the name.
WordStep(kind, n, c) ==
  CASE Continues(kind, n, c) -> Go(<<"word", kind, Count(kind, n)>>)
    [] c \in {"\r", "\n"} /\ Complete(kind, n) -> WordEnd(kind, TRUE, c)
    [] OTHER -> RValueStep(1, c)

\* 37, 63, 114 and 38 to 42, 64 to 70, 115: the special value in a later line.
StrictStep(kind, n, c) ==
  CASE n = 0 /\ c \in Space -> Go(<<"strict", kind, 0>>)
    [] Continues(kind, n, c) ->
            Edge(<<"strict", kind, Count(kind, n)>>,
                 IF n = 0 /\ kind # "conn" THEN <<"mark">> ELSE <<>>)
    [] c \in {"\r", "\n"} /\ Complete(kind, n) -> WordEnd(kind, FALSE, c)
    [] OTHER -> Reject

\* 36, 62, 113: the line after an empty value of a known header goes on with
\* blanks, is the last one, or is the next header, whose name may at the same
\* time be the special value.
FoldedStep(kind, c) ==
  CASE c \in Blank -> Go(<<"strict", kind, 0>>)
    [] c = "\n" -> Edge(<<"done", kind>>, <<"done">>)
    [] c = "\r" -> Go(<<"foldEnd", kind>>)
    [] Continues(kind, 0, c) ->
            Edge(<<"nameOrWord", kind, NameState(<<ToLower(c)>>)[2], 1>>,
                 (IF kind = "conn" THEN <<>> ELSE <<"mark">>) \o <<"startField">>)
    [] OTHER -> RLineStep(c)

\* 73 to 79, 90 to 94, 117.
NameOrWordStep(kind, w, n, c) ==
  CASE Continues(kind, n, c) -> Go(<<"nameOrWord", kind, <<>>, Count(kind, n)>>)
    [] c \in {"\r", "\n"} /\ Complete(kind, n) -> WordEnd(kind, FALSE, c)
    [] OTHER -> RNameStep(w, c)

\* 80, 95, 118 and 72, 89, 116: after a CR that ended an empty value or an empty
\* line.
FoldCrStep(region, kind, c) ==
  CASE c = "\n" /\ region = "foldCr" -> Go(<<"folded", kind>>)
    [] c = "\n" /\ region = "foldEnd" -> Edge(<<"done", kind>>, <<"done">>)
    [] OTHER -> StrictStep(kind, 0, c)

\* 43: a line that follows "Connection: close".
ClosedStep(c) == [RLineStep(c) EXCEPT !.acts = <<"close">> \o @]

RStep(cs, c) ==
  CASE cs[1] = "first"      -> FirstStep(c)
    [] cs[1] = "size"       -> SizeStep(c)
    [] cs[1] = "extName"    -> ExtNameStep(cs[2], c)
    [] cs[1] = "extValue"   -> ExtValueStep(cs[2], c)
    [] cs[1] = "endLf"      -> EndLfStep(c)
    [] cs[1] = "rversion"   -> RVersionStep(cs[2], c)
    [] cs[1] = "status"     -> StatusStep(cs[2], c)
    [] cs[1] = "reason"     -> ReasonStep(cs[2], c)
    [] cs[1] = "rline"      -> RLineStep(c)
    [] cs[1] = "rname"      -> RNameStep(cs[2], c)
    [] cs[1] = "rvalue"     -> RValueStep(cs[2], c)
    [] cs[1] = "rlf"        -> RLfStep(c)
    [] cs[1] = "special"    -> SpecialStep(cs[2], c)
    [] cs[1] = "word"       -> WordStep(cs[2], cs[3], c)
    [] cs[1] = "strict"     -> StrictStep(cs[2], cs[3], c)
    [] cs[1] = "folded"     -> FoldedStep(cs[2], c)
    [] cs[1] = "nameOrWord" -> NameOrWordStep(cs[2], cs[3], cs[4], c)
    [] cs[1] \in {"foldCr", "foldEnd"} -> FoldCrStep(cs[1], cs[2], c)
    [] cs[1] = "closed"     -> ClosedStep(c)
    [] cs[1] = "closeLf"    -> IF c = "\n" THEN Go(<<"closed">>) ELSE Reject
    [] cs[1] = "chunkedLf"  -> IF c = "\n" THEN Edge(<<"rline">>, <<"chunked">>) ELSE Reject
    [] cs[1] = "done" /\ cs[2] # "all" -> StrictStep(cs[2], 0, c)
    [] OTHER                -> Reject

\* httpclient_parser_is_finished compares with the first final state only: 121
\* to 123, the ends after an empty value of a known header, are not it.
RFinished(cs) == cs = <<"done", "all">>
=============================================================================
