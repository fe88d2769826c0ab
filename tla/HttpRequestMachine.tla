------------------------ MODULE HttpRequestMachine ------------------------
(***************************************************************************)
(* The state machine of http11_parser.cpp, which ragel compiled from       *)
(* http11_parser.rl: the compiled transitions, not the grammar, are the    *)
(* reference (the two differ where the grammar writes 6(h16 ":") or        *)
(* "0"-"4": ragel reads a byte of value 6, and a set difference).          *)
(*                                                                         *)
(* A control state is a tuple <<region, ...>>.  Every region operator maps *)
(* a byte to an edge: the next state and the actions that the code runs on *)
(* that byte, in their order.  The numbers in the comments are the labels  *)
(* of the generated code (case 19 is state 19).                            *)
(***************************************************************************)
EXTENDS HttpBytes

Edge(to, acts) == [to |-> to, acts |-> acts]
Go(to) == Edge(to, <<>>)
Error == <<"error">>
Reject == Go(Error)

\* more_delims are accepted when parser->uri_relaxed, a member that nothing
\* initialises.
SubDelims(relaxed) ==
  {"!", "$", "&", "'", "(", ")", "*", "+", ",", ";", "="}
    \cup IF relaxed THEN {"{", "}", "^"} ELSE {}
Unreserved == Alpha \cup Digit \cup {"-", ".", "_", "~"}
RegName(relaxed) == Unreserved \cup SubDelims(relaxed)
Pchar(relaxed) == RegName(relaxed) \cup {":", "@", "x80"}

\* Bytes of a header name.  The grammar's (0 - 31) is the byte 0, so the
\* control bytes but HT are name bytes, CR and LF included.
Token ==
  Alpha \cup Digit \cup PlainCtl \cup LowCtl \cup (Space \ {"\t", " "})
    \cup {"!", "#", "$", "%", "&", "'", "*", "+", "-", ".", "^", "_", "x60",
          "|", "~"}

\* 1, 2 and 175 to 193: a method of one to twenty upper case letters or digits.
MethodStep(n, c) ==
  CASE c = " "                          -> Edge(<<"target">>, <<"method">>)
    [] c \in Upper \cup Digit /\ n < 20 -> Go(<<"method", n + 1>>)
    [] OTHER                            -> Reject

StartStep(c) ==
  CASE c = "<"                 -> Edge(<<"xml", 1>>, <<"mark">>)
    [] c = "@"                 -> Edge(<<"jsonTarget">>, <<"mark">>)
    [] c \in Upper \cup Digit  -> Edge(<<"method", 1>>, <<"mark">>)
    [] OTHER                   -> Reject

\* What ends a path: in a request line " ", "#" and "?" (all the tr that call
\* request_path), in a JSON message only " ".
PathEnd(mode, c) ==
  CASE mode = "json" /\ c = " " -> Edge(<<"json", 0>>, <<"path">>)
    [] mode = "req" /\ c = " "  -> Edge(<<"version", 1>>, <<"path", "uri">>)
    [] mode = "req" /\ c = "#"  -> Edge(<<"fragment", 0>>, <<"path", "uri">>)
    [] mode = "req" /\ c = "?"  -> Edge(<<"query", 0>>, <<"path">>)
    [] OTHER                    -> Reject

Marked(e) == [e EXCEPT !.acts = <<"mark">> \o @]

\* A "%" and two hexadecimal digits, then back to the loop it stands in.
PercentStep(n, back, c) ==
  CASE c \in Hex /\ n = 1 -> Go(<<"pct", 2, back>>)
    [] c \in Hex /\ n = 2 -> Go(back)
    [] OTHER              -> Reject

\* 3: the first byte of the request target; a letter may begin a scheme.
TargetStep(relaxed, c) ==
  Marked(CASE c \in Alpha  -> Go(<<"scheme">>)
           [] c \in RegName(relaxed) \cup {"@"} -> Go(<<"first", "req">>)
           [] c = "%"      -> Go(<<"pct", 1, <<"first", "req">>>>)
           [] c = "/"      -> Go(<<"slash", "req">>)
           [] OTHER        -> PathEnd("req", c))

\* 173: letters that are a scheme if ":" follows and a first segment if not.
SchemeStep(relaxed, c) ==
  CASE c \in Alpha \cup Digit \cup {"+", "-", "."} -> Go(<<"scheme">>)
    [] c \in RegName(relaxed) \cup {"@"} -> Go(<<"first", "req">>)
    [] c = "%" -> Go(<<"pct", 1, <<"first", "req">>>>)
    [] c = "/" -> Go(<<"segment", "req">>)
    [] c = ":" -> Go(<<"hier">>)
    [] OTHER   -> PathEnd("req", c)

\* 174: after "scheme:" the target is marked again.
HierStep(relaxed, c) ==
  Marked(CASE c \in Pchar(relaxed) -> Go(<<"segment", "req">>)
           [] c = "%" -> Go(<<"pct", 1, <<"segment", "req">>>>)
           [] c = "/" -> Go(<<"slash", "req">>)
           [] OTHER   -> PathEnd("req", c))

\* 19 (202 in a JSON message): a first segment without a colon.
FirstSegmentStep(mode, relaxed, c) ==
  CASE c \in RegName(relaxed) \cup {"@"} -> Go(<<"first", mode>>)
    [] c = "%" -> Go(<<"pct", 1, <<"first", mode>>>>)
    [] c = "/" -> Go(<<"segment", mode>>)
    [] OTHER   -> PathEnd(mode, c)

\* 198: the first byte after the "@" of a JSON message.
JsonTargetStep(relaxed, c) ==
  IF c = "/" THEN Go(<<"slash", "json">>)
             ELSE FirstSegmentStep("json", relaxed, c)

\* 26 (205): the segments after the first.
SegmentStep(mode, relaxed, c) ==
  CASE c \in Pchar(relaxed) \cup {"/"} -> Go(<<"segment", mode>>)
    [] c = "%" -> Go(<<"pct", 1, <<"segment", mode>>>>)
    [] OTHER   -> PathEnd(mode, c)

\* 33 (208): a path that began with "/"; a second "/" begins an authority.
SlashStep(mode, relaxed, c) ==
  IF c = "/" THEN Go(<<"authority", mode, 0>>)
             ELSE SegmentStep(mode, relaxed, c)

\* 29 to 32: the query, n = 0 before its first byte.
QueryStep(n, relaxed, c) ==
  LET start == IF n = 0 THEN <<"startQuery">> ELSE <<>>
      end == start \o <<"query", "uri">>
  IN  CASE c \in Pchar(relaxed) \cup {"/", "?"} -> Edge(<<"query", 1>>, start)
        [] c = "%" -> Edge(<<"pct", 1, <<"query", 1>>>>, start)
        [] c = " " -> Edge(<<"version", 1>>, end)
        [] c = "#" -> Edge(<<"fragment", 0>>, end)
        [] OTHER   -> Reject

\* 20 to 23: the fragment.
FragmentStep(n, relaxed, c) ==
  LET start == IF n = 0 THEN <<"mark">> ELSE <<>>
  IN  CASE c \in Pchar(relaxed) \cup {"/", "?"} -> Edge(<<"fragment", 1>>, start)
        [] c = "%" -> Edge(<<"pct", 1, <<"fragment", 1>>>>, start)
        [] c = " " -> Edge(<<"version", 1>>, start \o <<"fragment">>)
        [] OTHER   -> Reject

\* 34 to 37 (209 to 212): a registered name or a user name, which of the two
\* an "@" decides.  Only the first byte may open an IP literal.
AuthorityStep(mode, n, relaxed, c) ==
  CASE c \in RegName(relaxed) -> Go(<<"authority", mode, 1>>)
    [] c = "%" -> Go(<<"pct", 1, <<"authority", mode, 1>>>>)
    [] c = "/" -> Go(<<"segment", mode>>)
    [] c = ":" -> Go(<<"portOrUser", mode>>)
    [] c = "@" -> Go(<<"host", mode, 0>>)
    [] c = "[" /\ n = 0 -> Go(<<"literal", mode>>)
    [] OTHER   -> PathEnd(mode, c)

\* 38 to 41 (213 to 216): digits after ":" are a port until another byte of a
\* user name shows that they were not.
PortOrUserStep(mode, relaxed, c) ==
  CASE c \in Digit -> Go(<<"portOrUser", mode>>)
    [] c \in RegName(relaxed) \cup {":"} -> Go(<<"user", mode>>)
    [] c = "%" -> Go(<<"pct", 1, <<"user", mode>>>>)
    [] c = "/" -> Go(<<"segment", mode>>)
    [] c = "@" -> Go(<<"host", mode, 0>>)
    [] OTHER   -> PathEnd(mode, c)

UserStep(mode, relaxed, c) ==
  CASE c \in RegName(relaxed) \cup {":"} -> Go(<<"user", mode>>)
    [] c = "%" -> Go(<<"pct", 1, <<"user", mode>>>>)
    [] c = "@" -> Go(<<"host", mode, 0>>)
    [] OTHER   -> Reject

\* 42 to 45 (217 to 220): the host after a user name.
HostStep(mode, n, relaxed, c) ==
  CASE c \in RegName(relaxed) -> Go(<<"host", mode, 1>>)
    [] c = "%" -> Go(<<"pct", 1, <<"host", mode, 1>>>>)
    [] c = "/" -> Go(<<"segment", mode>>)
    [] c = ":" -> Go(<<"port", mode>>)
    [] c = "[" /\ n = 0 -> Go(<<"literal", mode>>)
    [] OTHER   -> PathEnd(mode, c)

\* 46 and 61 (221 and 236): the port, and what may follow an IP literal.
PortStep(mode, c) ==
  CASE c \in Digit -> Go(<<"port", mode>>)
    [] c = "/"     -> Go(<<"segment", mode>>)
    [] OTHER       -> PathEnd(mode, c)

LiteralEndStep(mode, c) ==
  CASE c = ":" -> Go(<<"port", mode>>)
    [] c = "/" -> Go(<<"segment", mode>>)
    [] OTHER   -> PathEnd(mode, c)

\* The dec_octet that the compiled machine knows: d, 1d, 1dd, 20d, 250.
IsOctet(w) ==
  \/ Len(w) = 1 /\ w[1] \in Digit
  \/ Len(w) \in {2, 3} /\ w[1] = "1" /\ ToSet(w) \subseteq Digit
  \/ Len(w) = 3 /\ w[1] = "2" /\ w[2] = "0" /\ w[3] \in Digit
  \/ w = <<"2", "5", "0">>

IsOctetPrefix(w) == IsOctet(w) \/ w \in {<<"2", "0">>, <<"2", "5">>}

\* 55 to 60, 62 to 76 (230 to 251): octets k = 2 to 4 of a dotted quad.
OctetStep(mode, k, w, c) ==
  CASE c = "." /\ IsOctet(w) /\ k < 4 -> Go(<<"octet", mode, k + 1, <<>>>>)
    [] c = "]" /\ IsOctet(w) /\ k = 4 -> Go(<<"literalEnd", mode>>)
    [] IsOctetPrefix(Append(w, c))     -> Go(<<"octet", mode, k, Append(w, c)>>)
    [] OTHER                           -> Reject

\* 47 and 167 to 172 (222, 342 to 347): how an IP literal begins; "v" begins an
\* IPvFuture, and 6(h16 ":") asks for a byte of value 6.
LiteralStep(mode, c) ==
  CASE c = "x06"   -> Go(<<"group", mode, "ls32", 0>>)
    [] c \in Hex   -> Go(<<"leading", mode, 1, 1>>)
    [] c = ":"     -> Go(<<"colon", mode>>)
    [] c = "v"     -> Go(<<"future", mode, 0>>)
    [] OTHER       -> Reject

\* n = 0 to 1: "v" and hexadecimal digits, n = 2 to 3: what follows the dot.
FutureStep(mode, n, relaxed, c) ==
  CASE n < 2 /\ c \in Hex                             -> Go(<<"future", mode, 1>>)
    [] n = 1 /\ c = "."                               -> Go(<<"future", mode, 2>>)
    [] n > 1 /\ c \in RegName(relaxed) \cup {":"}     -> Go(<<"future", mode, 3>>)
    [] n = 3 /\ c = "]"                               -> Go(<<"literalEnd", mode>>)
    [] OTHER                                          -> Reject

\* 48 to 52 (223 to 227): the one h16 ":" before ls32.  80 to 83 (255 to 258):
\* the h16 that ends the literal.
GroupStep(mode, next, n, c) ==
  CASE c \in Hex /\ n < 4                     -> Go(<<"group", mode, next, n + 1>>)
    [] c = ":" /\ n > 0 /\ next = "ls32"      -> Go(<<"number", mode, "ls32", <<>>>>)
    [] c = "]" /\ n > 0 /\ next = "last"      -> Go(<<"literalEnd", mode>>)
    [] OTHER                                  -> Reject

\* 91 to 125 (266 to 300): the groups before "::", k of them (7 for more),
\* n digits in the last one and n = 0 after its colon.
LeadingStep(mode, k, n, c) ==
  CASE c \in Hex /\ n = 0         -> Go(<<"leading", mode, IF k < 7 THEN k + 1 ELSE 7, 1>>)
    [] c \in Hex /\ n \in 1 .. 3  -> Go(<<"leading", mode, k, n + 1>>)
    [] c = ":" /\ n > 0           -> Go(<<"leading", mode, k, 0>>)
    [] c = ":" /\ n = 0           -> Go(<<"elided", mode, k>>)
    [] OTHER                      -> Reject

\* 126, 150, 151, 163 to 166 and 168 (301, 325, 326, 338 to 341, 343): right
\* after "::", by the number of groups before it.  5(h16 ":") and its like ask
\* for a byte of that value.
RepeatBytes(k) ==
  CASE k = 0 -> {"x02", "x03", "x04", "x05"}
    [] k = 1 -> {"x04"}
    [] k = 2 -> {"x03"}
    [] OTHER -> {"x02", "x03"}

ElidedStep(mode, k, c) ==
  CASE c \in RepeatBytes(k)             -> Go(<<"group", mode, "ls32", 0>>)
    [] c \in Hex /\ k = 4               -> Go(<<"group", mode, "ls32", 1>>)
    [] c \in Hex /\ k = 5               -> Go(<<"number", mode, "h16ls32", <<c>>>>)
    [] c \in Hex /\ k \in {0, 6, 7}     -> Go(<<"number", mode, "h16", <<c>>>>)
    [] c = "]" /\ k \in {0, 7}          -> Go(<<"literalEnd", mode>>)
    [] OTHER                            -> Reject

\* 53, 54, 77 to 79, 84 to 90 and 127 to 162: digits that may still be a group
\* or the first octet of a dotted quad.  What may follow depends on the place:
\* "ls32" and "h16ls32" do not end the literal here, "ls32" and "ls32End" have
\* one more group to come.
NumberStep(mode, place, w, c) ==
  CASE c \in Hex /\ Len(w) < 4 -> Go(<<"number", mode, place, Append(w, c)>>)
    [] c = "." /\ IsOctet(w)   -> Go(<<"octet", mode, 2, <<>>>>)
    [] c = ":" /\ w # <<>> /\ place \in {"ls32", "ls32End"}
                               -> Go(<<"group", mode, "last", 0>>)
    [] c = ":" /\ w # <<>> /\ place \in {"h16ls32", "h16"}
                               -> Go(<<"number", mode, "ls32End", <<>>>>)
    [] c = "]" /\ w # <<>> /\ place \in {"h16", "ls32End"}
                               -> Go(<<"literalEnd", mode>>)
    [] OTHER                   -> Reject

\* 4 to 12: "HTTP/1.0" or "HTTP/1.1" and the end of the request line.
VersionStep(n, c) ==
  LET text == <<"H", "T", "T", "P", "/", "1", ".">>
  IN  CASE n <= 7 /\ c = text[n] ->
                Edge(<<"version", n + 1>>, IF n = 1 THEN <<"mark">> ELSE <<>>)
        [] n = 8 /\ c \in {"0", "1"} -> Go(<<"version", 9>>)
        [] n = 9 /\ c = "\n" -> Edge(<<"line">>, <<"version">>)
        [] n = 9 /\ c = "\r" -> Edge(<<"lf">>, <<"version">>)
        [] OTHER -> Reject

\* 13, 18, 348: the start of a header line.  LF ends the head, though it is a
\* name byte too; CR is the first byte of a name unless LF follows.
LineStep(c) ==
  CASE c = "\n"       -> Edge(<<"done", "http">>, <<"startField", "done">>)
    [] c = "\r"       -> Edge(<<"cr">>, <<"startField">>)
    [] c \in Token    -> Edge(<<"name">>, <<"startField">>)
    [] OTHER          -> Reject

\* 14, and 18 after a CR, and 348 should the machine be run on after the end.
NameStep(region, c) ==
  CASE c = "\n" /\ region = "cr" -> Edge(<<"done", "http">>, <<"done">>)
    [] c = ":"    -> Edge(<<"value", 0>>, <<"writeField">>)
    [] c \in Token -> Go(<<"name">>)
    [] OTHER      -> Reject

\* Mutant: blanks before the value do not move the mark.
ValueStep_KeepBlanks(n, c) ==
  CASE c = "\n" -> Edge(<<"line">>, <<"field">>)
    [] c = "\r" -> Edge(<<"lf">>, <<"field">>)
    [] OTHER -> Edge(<<"value", 1>>, IF n = 0 THEN <<"mark">> ELSE <<>>)

\* 15 to 17: the value, n = 0 while only blanks were seen; each of those moves
\* the mark.
ValueStep(n, c) ==
  LET start == IF n = 0 THEN <<"mark">> ELSE <<>>
  IN  CASE c = "\n" -> Edge(<<"line">>, start \o <<"field">>)
        [] c = "\r" -> Edge(<<"lf">>, start \o <<"field">>)
        [] c \in {"\t", " "} /\ n = 0 -> Edge(<<"value", 0>>, start)
        [] c \in {"x00", "x7f"} -> Reject
        [] OTHER -> Edge(<<"value", 1>>, start)

LfStep(c) == IF c = "\n" THEN Go(<<"line">>) ELSE Reject

\* 194 to 197: an XML message "<name ... >" and NUL; n = 3 after a ">".
XmlStep(n, c) ==
  LET name == Alpha \cup Digit \cup {"-", "."}
  IN  CASE n \in {1, 2} /\ c \in name -> Go(<<"xml", 2>>)
        [] n = 2 /\ c \in Space \cup {"/", ">"} -> Edge(<<"xml", 3>>, <<"path">>)
        [] n \in {3, 4} /\ c = ">" -> Go(<<"xml", 4>>)
        [] n = 4 /\ c = "x00" -> Edge(<<"done", "socket">>, <<"xml", "done">>)
        [] n \in {3, 4} -> Go(<<"xml", 3>>)
        [] OTHER -> Reject

\* 199 to 201: the data of a JSON message, "{ ... }" and NUL.
JsonStep(n, c) ==
  CASE n = 0 /\ c = "{" -> Edge(<<"json", 1>>, <<"mark">>)
    [] n > 0 /\ c = "}" -> Go(<<"json", 2>>)
    [] n = 2 /\ c = "x00" -> Edge(<<"done", "socket">>, <<"json", "done">>)
    [] n > 0 -> Go(<<"json", 1>>)
    [] OTHER -> Reject

\* The switch over cs.
Step(cs, relaxed, c) ==
  CASE cs[1] = "start"      -> StartStep(c)
    [] cs[1] = "method"     -> MethodStep(cs[2], c)
    [] cs[1] = "target"     -> TargetStep(relaxed, c)
    [] cs[1] = "pct"        -> PercentStep(cs[2], cs[3], c)
    [] cs[1] = "scheme"     -> SchemeStep(relaxed, c)
    [] cs[1] = "hier"       -> HierStep(relaxed, c)
    [] cs[1] = "first"      -> FirstSegmentStep(cs[2], relaxed, c)
    [] cs[1] = "segment"    -> SegmentStep(cs[2], relaxed, c)
    [] cs[1] = "slash"      -> SlashStep(cs[2], relaxed, c)
    [] cs[1] = "query"      -> QueryStep(cs[2], relaxed, c)
    [] cs[1] = "fragment"   -> FragmentStep(cs[2], relaxed, c)
    [] cs[1] = "authority"  -> AuthorityStep(cs[2], cs[3], relaxed, c)
    [] cs[1] = "portOrUser" -> PortOrUserStep(cs[2], relaxed, c)
    [] cs[1] = "user"       -> UserStep(cs[2], relaxed, c)
    [] cs[1] = "host"       -> HostStep(cs[2], cs[3], relaxed, c)
    [] cs[1] = "port"       -> PortStep(cs[2], c)
    [] cs[1] = "literal"    -> LiteralStep(cs[2], c)
    [] cs[1] = "literalEnd" -> LiteralEndStep(cs[2], c)
    [] cs[1] = "future"     -> FutureStep(cs[2], cs[3], relaxed, c)
    [] cs[1] = "colon"      -> IF c = ":" THEN Go(<<"elided", cs[2], 0>>) ELSE Reject
    [] cs[1] = "leading"    -> LeadingStep(cs[2], cs[3], cs[4], c)
    [] cs[1] = "elided"     -> ElidedStep(cs[2], cs[3], c)
    [] cs[1] = "group"      -> GroupStep(cs[2], cs[3], cs[4], c)
    [] cs[1] = "number"     -> NumberStep(cs[2], cs[3], cs[4], c)
    [] cs[1] = "octet"      -> OctetStep(cs[2], cs[3], cs[4], c)
    [] cs[1] = "version"    -> VersionStep(cs[2], c)
    [] cs[1] = "line"       -> LineStep(c)
    [] cs[1] \in {"name", "cr"} -> NameStep(cs[1], c)
    [] cs[1] = "value"      -> ValueStep(cs[2], c)
    [] cs[1] = "lf"         -> LfStep(c)
    [] cs[1] = "xml"        -> XmlStep(cs[2], c)
    [] cs[1] = "jsonTarget" -> JsonTargetStep(relaxed, c)
    [] cs[1] = "json"       -> JsonStep(cs[2], c)
    [] cs = <<"done", "http">> -> NameStep("name", c)
    [] OTHER                -> Reject

Finished(cs) == cs[1] = "done"
=============================================================================
