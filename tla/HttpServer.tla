----------------------------- MODULE HttpServer -----------------------------
(***************************************************************************)
(* One connection of HttpServer: the client, the fiber in handleClient     *)
(* with its HttpStream, and another thread that changes the servlets of    *)
(* the ServletDispatch.  A read of the hooked socket returns any number of *)
(* the bytes that have arrived, so a request reaches the parser in pieces. *)
(***************************************************************************)
EXTENDS HttpRequestParser

Client == INSTANCE HttpResponseParser

CONSTANTS
  Requests,      \* the requests a client may send, with params and cookies
  Paths, Globs,  \* uris of exact servlets, and patterns
  ServerName,    \* value of the Server header
  Keepalive,     \* HttpServer::m_keepalive
  Pipelining,    \* does the client send a request before the last answer?
  BufSize,       \* http.request.buffer_size
  Broken,        \* bound: how many bytes of a request may be missing when the
                 \* client goes away in the midst of it
  MaxReads,      \* bound: reads of one request head
  MaxRequests,   \* bound: requests of the client
  MaxChanges     \* bound: changes of the servlets

ASSUME BufAssumption == BufSize \in Nat \ {0} /\ MaxReads \in Nat \ {0}

VARIABLES
  pc,        \* where the fiber is
  parser,    \* the HttpRequestParser of this request
  data,      \* recvRequest: the unparsed rest, then the body so far
  reads,     \* reads of this head
  atTokens,  \* history: every cut so far fell between two tokens
  slt,       \* the servlet found
  stable,    \* history: the entries that matched from the lookup's start on
  answer,    \* the response under way to the client, if any
  wire, ended, sent, count,      \* client: bytes under way, has it closed, the
                                 \* requests not yet answered, how many it sent
  datas, globs, lock, adding, changes  \* ServletDispatch, its lock and the pattern
                                       \* addGlobServlet is about to append

vars == <<pc, parser, data, reads, atTokens, slt, stable, answer, wire, ended,
          sent, count, datas, globs, lock, adding, changes>>
dispatch == <<datas, globs, lock, adding, changes>>
client == <<wire, ended, sent, count>>
request == <<parser, data, reads, atTokens>>
found == <<slt, stable>>

Default == <<"default", <<>>>>

\* fnmatch without flags, for patterns whose only special byte is a "*" at the
\* end.
Fnmatch(glob, path) ==
  IF glob # <<>> /\ Last(glob) = "*" THEN IsPrefix(Front(glob), path) ELSE glob = path

Matching(d, g, path) ==
  {e \in {<<"exact", u>> : u \in d} \cup {<<"glob", u>> : u \in ToSet(g)} :
     IF e[1] = "exact" THEN e[2] = path ELSE Fnmatch(e[2], path)}

Init ==
  /\ pc = "recv" /\ parser \in {NewParser(b) : b \in BOOLEAN} /\ data = <<>>
  /\ reads = 0 /\ atTokens = TRUE /\ slt = Default /\ stable = {} /\ answer = <<>>
  /\ wire = <<>> /\ ended = FALSE /\ sent = <<>> /\ count = 0
  /\ datas = {} /\ globs \in {<<g>> : g \in Globs}
  /\ lock = "free" /\ adding = <<>> /\ changes = 0

(***************************************************************************)
(* The client.                                                             *)
(***************************************************************************)

RequestText == [r \in Requests |-> DumpRequest(r)]

ClientSend(r) ==
  /\ ~ended /\ count < MaxRequests /\ pc \notin {"closed", "terminated"}
  /\ Pipelining \/ sent = <<>>
  /\ wire' = wire \o RequestText[r]
  /\ sent' = Append(sent, r)
  /\ count' = count + 1
  /\ answer' = <<>>
  /\ UNCHANGED <<ended, pc, request, found, dispatch>>

\* The client goes away, perhaps with the last k bytes of a request unsent.
ClientEnds ==
  /\ ~ended /\ ended' = TRUE
  /\ UNCHANGED <<wire, sent, count, pc, request, found, answer, dispatch>>

ClientBreaks(r, k) ==
  /\ ~ended /\ count < MaxRequests /\ pc \notin {"closed", "terminated"}
  /\ sent = <<>>
  /\ wire' = wire \o SubSeq(RequestText[r], 1, Len(RequestText[r]) - k)
  /\ ended' = TRUE
  /\ answer' = <<>>
  /\ UNCHANGED <<sent, count, pc, request, found, dispatch>>

(***************************************************************************)
(* HttpStream::recvRequest.                                                *)
(***************************************************************************)

\* Bytes a read may return.
Lengths(room) ==
  LET most == IF Len(wire) < room THEN Len(wire) ELSE room
  IN  IF reads + 1 >= MaxReads THEN {most} \ {0} ELSE 1 .. most

\* Between two tokens nothing is lost when the offsets of the parser are reset.
BetweenTokens(cs) ==
  \/ cs[1] \in {"start", "target", "line", "lf", "cr"}
  \/ cs \in {<<"version", 1>>, <<"query", 0>>, <<"fragment", 0>>}

\* The request is complete: HttpRequest::init, and getMatchedServlet begins.
Received(p, body) ==
  LET req == InitRequest([p.req EXCEPT !.body = body])
  IN  /\ pc' = "find"
      /\ parser' = [p EXCEPT !.req = req]
      /\ data' = <<>>
      /\ stable' = Matching(datas, globs, parser'.req.path)

\* Mutant: a body that came whole is waited for all the same.
AfterExecute_WaitMore(buffer, r) ==
  LET rest == SubSeq(buffer, r.nread + 1, Len(buffer))
      length == GetContentLength(r.parser)
      Stop(state) == pc' = state /\ parser' = r.parser /\ data' = rest /\ UNCHANGED stable
  IN  CASE r.parser.thrown           -> Stop("terminated")
        [] HasError(r.parser)        -> Stop("closed")
        [] Len(rest) = BufSize       -> Stop("closed")
        [] ~IsFinished(r.parser)     -> Stop("recv")
        [] length > 0 /\ length >= Len(rest) -> Stop("body")
        [] OTHER                     -> Received(r.parser, SubSeq(rest, 1, length))

\* The loop of recvRequest: a read of n bytes, execute, the checks in their
\* order, and the part of the body that came with the head.
AfterExecute(buffer, r) ==
  LET rest == SubSeq(buffer, r.nread + 1, Len(buffer))
      length == GetContentLength(r.parser)
      Stop(state) == pc' = state /\ parser' = r.parser /\ data' = rest /\ UNCHANGED stable
  IN  CASE r.parser.thrown         -> Stop("terminated")
        [] HasError(r.parser)      -> Stop("closed")
        [] Len(rest) = BufSize     -> Stop("closed")
        [] ~IsFinished(r.parser)   -> Stop("recv")
        [] length > Len(rest)      -> Stop("body")
        [] OTHER                   -> Received(r.parser, SubSeq(rest, 1, length))

Read(n) ==
  /\ pc = "recv"
  /\ n \in Lengths(BufSize - Len(data))
  /\ wire' = SubSeq(wire, n + 1, Len(wire))
  /\ reads' = reads + 1
  /\ \E buffer \in {data \o SubSeq(wire, 1, n)} : \E r \in {Execute(parser, buffer)} :
       /\ atTokens' = (atTokens /\ (IsFinished(r.parser) \/ BetweenTokens(r.parser.cs)))
       /\ AfterExecute(buffer, r)
  /\ UNCHANGED <<slt, answer, ended, sent, count, dispatch>>

\* readFixSize for the rest of the body.
ReadBody(n) ==
  LET length == GetContentLength(parser)
      body == data \o SubSeq(wire, 1, n)
  IN  /\ pc = "body"
      /\ n \in Lengths(length - Len(data))
      /\ wire' = SubSeq(wire, n + 1, Len(wire))
      /\ reads' = reads + 1
      /\ IF Len(body) = length THEN Received(parser, body)
         ELSE pc' = "body" /\ data' = body /\ UNCHANGED <<parser, stable>>
      /\ UNCHANGED <<atTokens, slt, answer, ended, sent, count, dispatch>>

\* read returns 0 when the client has closed, -1 after the receive timeout that
\* startAccept sets; either way recvRequest closes the connection.
ReadFails ==
  /\ pc \in {"recv", "body"} /\ wire = <<>>
  /\ pc' = "closed"
  /\ UNCHANGED <<request, found, answer, client, dispatch>>

(***************************************************************************)
(* ServletDispatch: the lookup, in up to three sections of the read lock,  *)
(* and its changes under the write lock.  The default servlet is the one   *)
(* of the constructor: nothing calls setDefault, which takes no lock.      *)
(***************************************************************************)

\* Mutant: without an exact servlet the patterns are not looked at.
GetServlet_NoGlobs ==
  /\ pc = "find" /\ lock # "held"
  /\ slt' = IF parser.req.path \in datas THEN <<"exact", parser.req.path>> ELSE Default
  /\ pc' = "handle"
  /\ UNCHANGED <<request, stable, answer, client, dispatch>>

GetServlet ==
  /\ pc = "find" /\ lock # "held"
  /\ IF parser.req.path \in datas
     THEN pc' = "handle" /\ slt' = <<"exact", parser.req.path>>
     ELSE pc' = "glob" /\ UNCHANGED slt
  /\ UNCHANGED <<request, stable, answer, client, dispatch>>

GetGlobServlet ==
  /\ pc = "glob" /\ lock # "held"
  /\ LET hits == {i \in DOMAIN globs : Fnmatch(globs[i], parser.req.path)}
     IN  IF hits # {}
         THEN pc' = "handle" /\ slt' = <<"glob", globs[Min(hits)]>>
         ELSE pc' = "default" /\ UNCHANGED slt
  /\ UNCHANGED <<request, stable, answer, client, dispatch>>

GetDefault ==
  /\ pc = "default" /\ lock # "held"
  /\ pc' = "handle" /\ slt' = Default
  /\ UNCHANGED <<request, stable, answer, client, dispatch>>

\* What every change shares; d and g are the entries after it.
Change(d, g) ==
  /\ lock \in {"free", "owed"}
  /\ datas' = d /\ globs' = g
  /\ stable' = stable \cap Matching(d, g, parser.req.path)
  /\ UNCHANGED <<pc, request, slt, answer, client>>

Counted == changes < MaxChanges /\ changes' = changes + 1

AddServlet(u) == Counted /\ Change(datas \cup {u}, globs) /\ UNCHANGED <<lock, adding>>
DelServlet(u) == u \in datas /\ Counted /\ Change(datas \ {u}, globs) /\ UNCHANGED <<lock, adding>>

\* delGlobServlet erases the first entry of that pattern.
Without(g) ==
  LET at == {i \in DOMAIN globs : globs[i] = g}
  IN  IF at = {} THEN globs ELSE RemoveAt(globs, Min(at))

DelGlobServlet(g) ==
  /\ Counted /\ Change(datas, Without(g)) /\ UNCHANGED <<lock, adding>>

\* addGlobServlet takes the lock twice: to erase, then to append.
AddGlobErase(g) ==
  /\ adding = <<>> /\ Counted
  /\ Change(datas, Without(g)) /\ adding' = g /\ UNCHANGED lock

AddGlobAppend ==
  /\ adding # <<>>
  /\ Change(datas, Append(globs, adding))
  /\ lock' = IF lock = "owed" THEN "skewed" ELSE lock
  /\ adding' = <<>> /\ UNCHANGED changes

\* addGlobServlet with a function calls the other one with the write lock held.
\* pthread_rwlock_wrlock may then wait for its own thread; where it returns
\* EDEADLK, which RWMutex ignores, the old entry is erased and the unlock of
\* delGlobServlet gives the lock away ("owed"); the new one is appended under a
\* lock of its own, after which the lock is released once too often and the next
\* writer waits for a reader that does not exist ("skewed").
AddGlobFunction(g) ==
  /\ adding = <<>> /\ Counted
  /\ \/ Change(datas, globs) /\ lock' = "held" /\ UNCHANGED adding
     \/ Change(datas, Without(g)) /\ lock' = "owed" /\ adding' = g

(***************************************************************************)
(* HttpServer::handleClient after recvRequest.                             *)
(***************************************************************************)

\* Servlet::handle: NotFoundServlet, or an application's servlet that answers
\* with the path.
Respond(s, req) ==
  LET rsp == [NewResponse(req.version, req.close \/ ~Keepalive)
                EXCEPT !.headers = SetHeader(@, <<"S", "e", "r", "v", "e", "r">>, ServerName)]
  IN  IF s = Default
      THEN [rsp EXCEPT !.status = 404, !.body = <<"<", ">">>,
                       !.headers = SetHeader(@, ContentType, <<"t", "/", "h">>)]
      ELSE [rsp EXCEPT !.body = IF req.query = <<>> THEN <<>> ELSE req.path]

\* The servlet runs, sendResponse writes, whose result nobody looks at, and the
\* loop goes on with a new parser unless the connection is to be closed.
Handle ==
  /\ pc = "handle"
  /\ answer' = <<Respond(slt, parser.req)>>
  /\ sent' = IF sent = <<>> THEN <<>> ELSE Tail(sent)
  /\ IF ~Keepalive \/ parser.req.close
     THEN pc' = "closed" /\ UNCHANGED request
     ELSE /\ pc' = "recv" /\ data' = <<>> /\ reads' = 0 /\ UNCHANGED atTokens
          /\ \E b \in BOOLEAN : parser' = NewParser(b)
  /\ slt' = Default /\ stable' = {}
  /\ UNCHANGED <<wire, ended, count, dispatch>>

Reads == \E n \in 1 .. BufSize : Read(n) \/ ReadBody(n)
Others == ReadFails \/ GetServlet \/ GetGlobServlet \/ GetDefault \/ Handle
Fiber == Reads \/ Others

Clients ==
  \/ ClientEnds
  \/ \E r \in Requests : ClientSend(r) \/ \E k \in Broken : ClientBreaks(r, k)

Admin ==
  \/ \E u \in Paths : AddServlet(u) \/ DelServlet(u)
  \/ \E g \in Globs : DelGlobServlet(g) \/ AddGlobErase(g) \/ AddGlobFunction(g)
  \/ AddGlobAppend

Next == Fiber \/ Clients \/ Admin

\* Weak fairness of Reads with its ENABLED written out: the fiber waits for a
\* read, and there are bytes.
ReadsGoOn == []<>(pc \notin {"recv", "body"} \/ wire = <<>>) \/ []<><<Reads>>_vars

\* A fiber that can go on is scheduled, and a read returns at the latest when the
\* receive timeout is over.
Spec == Init /\ [][Next]_vars /\ WF_vars(Others) /\ ReadsGoOn

(***************************************************************************)
(* Properties.                                                             *)
(***************************************************************************)

\* What a servlet can see of a request is what was put into it; r also has the
\* parameters and cookies from which the client made query, body and header.
Same(req, r) ==
  /\ req.method = r.method /\ req.version = r.version /\ req.path = r.path
  /\ req.query = r.query /\ req.fragment = r.fragment /\ req.body = r.body
  /\ req.close = r.close /\ Params(req) = r.params /\ Cookies(req) = r.cookies
  /\ \A k \in DOMAIN r.headers : k \in DOMAIN req.headers /\ req.headers[k] = r.headers[k]

\* The servlet gets the request that the client sent, whatever the reads of the
\* socket were; in particular it gets no request that was not sent to its end.
HandledAsSent ==
  pc = "handle" => sent # <<>> /\ Same(parser.req, Head(sent))

\* It does where every cut of the head falls between two tokens: of the head's
\* bytes, no other state survives from read to read, and the body may be cut
\* anywhere.
IntactAtTokenCuts == atTokens => HandledAsSent

\* A servlet that is registered for the path, and stays so during the lookup, is
\* not passed over for the default servlet.
StableServletFound == pc = "handle" /\ slt = Default => stable = {}

\* What HttpResponse::dump writes, HttpResponseParser reads back, up to the
\* header names' case, and it leaves exactly the body unread.
ResponseRoundTrip ==
  \A rspSent \in ToSet(answer) :
    LET text == DumpResponse(rspSent)
        r == Client!Execute(Client!NewParser, text, FALSE)
        rsp == r.parser.rsp
    IN  /\ Client!IsFinished(r.parser) /\ ~Client!HasError(r.parser)
        /\ SubSeq(text, r.nread + 1, Len(text)) = rspSent.body
        /\ rsp.version = rspSent.version /\ rsp.status = rspSent.status
        /\ rsp.reason = HttpStatusToString(rspSent.status)
        /\ r.parser.close = rspSent.close
        /\ GetHeaderAs(rsp.headers, ContentLength, 0) = Len(rspSent.body)
        /\ \A k \in DOMAIN rspSent.headers : k \in DOMAIN rsp.headers /\ rsp.headers[k] = rspSent.headers[k]

\* A request that was sent to its end is answered, unless a cut in the midst of a
\* token spoilt it or addGlobServlet has left the lock taken.
Answered == (sent # <<>>) ~> (sent = <<>> \/ ~atTokens \/ lock = "held")
=============================================================================
