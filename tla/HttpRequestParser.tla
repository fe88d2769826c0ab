------------------------- MODULE HttpRequestParser -------------------------
(***************************************************************************)
(* HttpRequestParser (http_parser.cpp) around the state machine.  What     *)
(* lives from one execute to the next is the parser record; mark, field    *)
(* start and field length are offsets into the buffer that every call      *)
(* resets, and query_start is such an offset that no call resets.          *)
(***************************************************************************)
EXTENDS HttpMessage, HttpRequestMachine

\* HttpRequestParser::HttpRequestParser and http_parser_init, which leave
\* uri_relaxed as the allocator found it.
NewParser(relaxed) ==
  [cs |-> <<"start">>, qstart |-> 0, relaxed |-> relaxed, err |-> 0,
   req |-> NewRequest, thrown |-> FALSE]

Version11 == <<"H", "T", "T", "P", "/", "1", ".", "1">>
Version10 == <<"H", "T", "T", "P", "/", "1", ".", "0">>

\* The text between an offset and the current byte i; offsets count from 0.
Text(data, from, i) == SubSeq(data, from + 1, i - 1)

\* on_request_version.  strncmp compares as many bytes as the text has: of a
\* text that is empty, none.
OnRequestVersion(s, text) ==
  CASE text = SubSeq(Version11, 1, Len(text)) -> [s EXCEPT !.req.version = 11]
    [] text = SubSeq(Version10, 1, Len(text)) -> [s EXCEPT !.req.version = 10]
    [] OTHER -> [s EXCEPT !.err = 1001]

\* on_request_method; CharsToHttpMethod looks at the buffer from the mark on.
OnRequestMethod(s, text) ==
  LET m == CharsToHttpMethod(text)
  IN  IF m = "INVALID" THEN [s EXCEPT !.err = 1000] ELSE [s EXCEPT !.req.method = m]

\* on_request_http_field.
OnRequestField(s, name, value) ==
  IF name = <<>> THEN [s EXCEPT !.err = 1002]
  ELSE [s EXCEPT !.req.headers = SetHeader(@, name, value)]

\* on_request_query.  A start behind the current byte is a length that wraps
\* around, and std::string throws.
OnRequestQuery(s, data, i) ==
  IF s.qstart >= i THEN [s EXCEPT !.thrown = TRUE]
  ELSE [s EXCEPT !.req.query = Text(data, s.qstart, i)]

\* One action of the machine on byte i of the buffer.
RunAction(s, a, data, i) ==
  CASE a = "mark"       -> [s EXCEPT !.mark = i - 1]
    [] a = "startField" -> [s EXCEPT !.fstart = i - 1]
    [] a = "writeField" -> [s EXCEPT !.flen = i - 1 - s.fstart]
    [] a = "startQuery" -> [s EXCEPT !.qstart = i - 1]
    [] a = "method"     -> OnRequestMethod(s, SubSeq(data, s.mark + 1, Len(data)))
    [] a = "path"       -> [s EXCEPT !.req.path = Text(data, s.mark, i)]
    [] a = "query"      -> OnRequestQuery(s, data, i)
    [] a = "fragment"   -> [s EXCEPT !.req.fragment = Text(data, s.mark, i)]
    [] a = "version"    -> OnRequestVersion(s, Text(data, s.mark, i))
    [] a = "field"      -> OnRequestField(s, SubSeq(data, s.fstart + 1, s.fstart + s.flen),
                                          Text(data, s.mark, i))
    [] OTHER            -> s

\* One byte, unless the machine has stopped: at the end of the head the byte
\* counts as parsed, at an error it does not.
ParseByte(s, data, i) ==
  IF s.stopped \/ s.thrown THEN s
  ELSE LET e == Step(s.cs, s.relaxed, data[i])
           t == FoldLeft(LAMBDA r, a : RunAction(r, a, data, i), s, e.acts)
       IN  [t EXCEPT !.cs = e.to,
                     !.nread = IF e.to = Error THEN @ ELSE i,
                     !.stopped = e.to = Error \/ Finished(e.to)]

\* http_parser_execute: the parser afterwards and how much it consumed.
Execute(parser, data) ==
  LET begin == [mark |-> 0, fstart |-> 0, flen |-> 0, nread |-> 0, stopped |-> FALSE]
               @@ parser
      after[i \in 0 .. Len(data)] ==
        IF i = 0 THEN begin ELSE ParseByte(after[i - 1], data, i)
      end == after[Len(data)]
  IN  [parser |-> [k \in DOMAIN parser |-> end[k]], nread |-> end.nread]

HasError(parser) == parser.err # 0 \/ parser.cs = Error
IsFinished(parser) == Finished(parser.cs)
GetContentLength(parser) == GetHeaderAs(parser.req.headers, ContentLength, 0)
=============================================================================
