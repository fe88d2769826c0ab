------------------------ MODULE HttpResponseParser ------------------------
(***************************************************************************)
(* HttpResponseParser (http_parser.cpp) around the state machine of        *)
(* httpclient_parser.cpp, the client's side of a connection.               *)
(***************************************************************************)
EXTENDS HttpMessage, HttpResponseMachine

\* HttpResponseParser::HttpResponseParser and httpclient_parser_init.
NewParser ==
  [cs |-> <<"first">>, contentLen |-> 0 - 1, chunked |-> FALSE, chunksDone |-> FALSE,
   close |-> FALSE, err |-> 0, rsp |-> NewResponse(11, TRUE)]

Text(data, from, i) == SubSeq(data, from + 1, i - 1)

Version11 == <<"H", "T", "T", "P", "/", "1", ".", "1">>
Version10 == <<"H", "T", "T", "P", "/", "1", ".", "0">>

\* on_response_version.
OnResponseVersion(s, text) ==
  CASE text = SubSeq(Version11, 1, Len(text)) -> [s EXCEPT !.rsp.version = 11]
    [] text = SubSeq(Version10, 1, Len(text)) -> [s EXCEPT !.rsp.version = 10]
    [] OTHER -> [s EXCEPT !.err = 1001]

\* on_response_http_field.
OnResponseField(s, name, value) ==
  IF name = <<>> THEN [s EXCEPT !.err = 1002]
  ELSE [s EXCEPT !.rsp.headers = SetHeader(@, name, value)]

\* The size of a chunk: strtol in base 16.
OnChunkSize(s, text) ==
  LET size == FoldLeft(LAMBDA n, c : 16 * n + HexValue(c), 0, text)
  IN  [s EXCEPT !.chunked = TRUE, !.contentLen = size, !.chunksDone = size = 0]

RunAction(s, a, data, i) ==
  CASE a = "mark"       -> [s EXCEPT !.mark = i - 1]
    [] a = "startField" -> [s EXCEPT !.fstart = i - 1]
    [] a = "writeField" -> [s EXCEPT !.flen = i - 1 - s.fstart]
    [] a = "version"    -> OnResponseVersion(s, Text(data, s.mark, i))
    [] a = "status"     -> [s EXCEPT !.rsp.status = Number(Text(data, s.mark, i))]
    [] a = "reason"     -> [s EXCEPT !.rsp.reason = Text(data, s.mark, i)]
    [] a = "field"      -> OnResponseField(s, SubSeq(data, s.fstart + 1, s.fstart + s.flen),
                                           Text(data, s.mark, i))
    [] a = "contentLen" -> [s EXCEPT !.contentLen = Number(Text(data, s.mark, i))]
    [] a = "chunkSize"  -> OnChunkSize(s, Text(data, s.mark, i))
    [] a = "chunked"    -> [s EXCEPT !.chunked = TRUE]
    [] a = "close"      -> [s EXCEPT !.close = TRUE]
    [] OTHER            -> s

ParseByte(s, data, i) ==
  IF s.stopped THEN s
  ELSE LET e == RStep(s.cs, data[i])
           t == FoldLeft(LAMBDA r, a : RunAction(r, a, data, i), s, e.acts)
       IN  [t EXCEPT !.cs = e.to,
                     !.nread = IF e.to = Error THEN @ ELSE i,
                     !.stopped = e.to = Error \/ e.to[1] = "done"]

\* HttpResponseParser::execute; for a chunk the machine starts anew, and the
\* response collected so far is kept.
Execute(parser, data, chunk) ==
  LET fresh == [NewParser EXCEPT !.err = parser.err, !.rsp = parser.rsp]
      begin == [mark |-> 0, fstart |-> 0, flen |-> 0, nread |-> 0, stopped |-> FALSE]
               @@ (IF chunk THEN fresh ELSE parser)
      after[i \in 0 .. Len(data)] ==
        IF i = 0 THEN begin ELSE ParseByte(after[i - 1], data, i)
      end == after[Len(data)]
  IN  [parser |-> [k \in DOMAIN parser |-> end[k]], nread |-> end.nread]

HasError(parser) == parser.err # 0 \/ parser.cs = Error
IsFinished(parser) == RFinished(parser.cs)
=============================================================================
