---------------------------- MODULE HttpMessage ----------------------------
(***************************************************************************)
(* HttpRequest and HttpResponse (http.hpp, http.cpp) and the string        *)
(* functions they use (util.cpp).  A text is a sequence of bytes.          *)
(***************************************************************************)
EXTENDS HttpBytes, FiniteSets

CONSTANTS
  Methods,   \* the strings of HTTP_METHOD_MAP, as texts by name
  FormType   \* application/x-www-form-urlencoded

Digits == <<"0", "1", "2", "3", "4", "5", "6", "7", "8", "9">>
CRLF == <<"\r", "\n">>
Colon == <<":", " ">>
ConnectionName == <<"c", "o", "n", "n", "e", "c", "t", "i", "o", "n">>
KeepAlive == <<"k", "e", "e", "p", "-", "a", "l", "i", "v", "e">>
CloseWord == <<"c", "l", "o", "s", "e">>
ContentType == <<"c", "o", "n", "t", "e", "n", "t", "-", "t", "y", "p", "e">>
ContentLength == <<"c", "o", "n", "t", "e", "n", "t", "-", "l", "e", "n", "g", "t", "h">>

\* operator<< of an unsigned number.
Decimal(n) ==
  LET d[k \in 0 .. n] == (IF k < 10 THEN <<>> ELSE d[k \div 10]) \o <<Digits[(k % 10) + 1]>>
  IN  d[n]

DigitValue(c) == CHOOSE d \in 0 .. 9 : Digits[d + 1] = c
Number(w) == FoldLeft(LAMBDA n, c : 10 * n + DigitValue(c), 0, w)

\* A header map: its keys differ in more than case, and setHeader overwrites.
NoHeaders == [k \in {} |-> <<>>]
SetHeader(h, key, val) ==
  LET k == LowerCase(key)
  IN  [x \in DOMAIN h \cup {k} |-> IF x = k THEN val ELSE h[x]]
GetHeader(h, key, def) == IF key \in DOMAIN h THEN h[key] ELSE def

\* getHeaderAs<uint64_t>: a value that is not a number counts as the default
\* (lexical_cast also takes a sign, which no text of the model has).
GetHeaderAs(h, key, def) ==
  LET v == GetHeader(h, key, <<>>)
  IN  IF v # <<>> /\ ToSet(v) \subseteq Digit THEN Number(v) ELSE def

\* HttpRequest::HttpRequest.
NewRequest ==
  [method |-> "GET", version |-> 11, path |-> <<"/">>, query |-> <<>>,
   fragment |-> <<>>, headers |-> NoHeaders, body |-> <<>>, close |-> TRUE]

\* CharsToHttpMethod: the method whose name the text begins with.
CharsToHttpMethod(at) ==
  IF \E m \in DOMAIN Methods : IsPrefix(Methods[m], at)
  THEN CHOOSE m \in DOMAIN Methods : IsPrefix(Methods[m], at)
  ELSE "INVALID"

\* HttpRequest::init: the connection header decides whether the connection is
\* kept; without one it is closed.
InitRequest(req) ==
  LET conn == GetHeader(req.headers, ConnectionName, <<>>)
  IN  IF conn = <<>> THEN req
      ELSE [req EXCEPT !.close = ~SameIgnoringCase(conn, KeepAlive)]

\* HttpResponse::HttpResponse.
NewResponse(version, close) ==
  [version |-> version, status |-> 200, reason |-> <<>>,
   headers |-> NoHeaders, body |-> <<>>, close |-> close]

\* HttpStatusToString, for the two statuses that the server itself sets.
HttpStatusToString(status) ==
  CASE status = 200 -> <<"O", "K">>
    [] status = 404 -> <<"N", "o", "t", " ", "F", "o", "u", "n", "d">>
    [] OTHER        -> <<"<", "u", "n", "k", "n", "o", "w", "n", ">">>

\* HttpResponse::dump.  The connection header is written from m_close, the
\* content-length from the body.
HeaderLines(h) ==
  LET keys == SetToSeq(DOMAIN h \ {ConnectionName})
  IN  FoldLeft(LAMBDA acc, k : acc \o k \o Colon \o h[k] \o CRLF, <<>>, keys)

\* Mutant: the length is announced but the head is not ended.
DumpResponse_NoBlankLine(rsp) ==
  <<"H", "T", "T", "P", "/">>
    \o Decimal(rsp.version \div 10) \o <<".">> \o Decimal(rsp.version % 10)
    \o <<" ">> \o Decimal(rsp.status) \o <<" ">> \o HttpStatusToString(rsp.status) \o CRLF
    \o HeaderLines(rsp.headers)
    \o (IF rsp.body # <<>>
        THEN ContentLength \o Colon \o Decimal(Len(rsp.body)) \o CRLF \o rsp.body
        ELSE CRLF)

DumpResponse(rsp) ==
  <<"H", "T", "T", "P", "/">>
    \o Decimal(rsp.version \div 10) \o <<".">> \o Decimal(rsp.version % 10)
    \o <<" ">> \o Decimal(rsp.status) \o <<" ">>
    \o (IF rsp.reason = <<>> THEN HttpStatusToString(rsp.status) ELSE rsp.reason) \o CRLF
    \o HeaderLines(rsp.headers)
    \o ConnectionName \o Colon \o (IF rsp.close THEN CloseWord ELSE KeepAlive) \o CRLF
    \o (IF rsp.body # <<>>
        THEN ContentLength \o Colon \o Decimal(Len(rsp.body)) \o CRLF
        ELSE <<>>)
    \o CRLF \o rsp.body

\* HttpRequest::dump.
DumpRequest(req) ==
  Methods[req.method] \o <<" ">> \o req.path
    \o (IF req.query = <<>> THEN <<>> ELSE <<"?">> \o req.query)
    \o (IF req.fragment = <<>> THEN <<>> ELSE <<"#">> \o req.fragment)
    \o <<" ", "H", "T", "T", "P", "/">>
    \o Decimal(req.version \div 10) \o <<".">> \o Decimal(req.version % 10) \o CRLF
    \o ConnectionName \o Colon \o (IF req.close THEN CloseWord ELSE KeepAlive) \o CRLF
    \o HeaderLines(req.headers)
    \o (IF req.body # <<>>
        THEN ContentLength \o Colon \o Decimal(Len(req.body)) \o CRLF
        ELSE <<>>)
    \o CRLF \o req.body

(***************************************************************************)
(* Parameters: PARSE_PARAM and UrlDecode.                                  *)
(***************************************************************************)

\* str.find(c, from), positions from 1; Len(w) + 1 stands for npos.
Find(w, c, from) ==
  LET at == {i \in from .. Len(w) : w[i] = c}
  IN  IF at = {} THEN Len(w) + 1 ELSE CHOOSE i \in at : \A j \in at : i <= j

HexDigits == <<"0", "1", "2", "3", "4", "5", "6", "7", "8", "9",
               "A", "B", "C", "D", "E", "F">>
HexValue(c) ==
  CASE c \in Digit -> DigitValue(c)
    [] c \in Upper -> 9 + CHOOSE i \in 1 .. 6 : Uppers[i] = c
    [] c \in Lower -> 9 + CHOOSE i \in 1 .. 6 : Lowers[i] = c

\* The characters among the bytes that the model writes as code points.
Ascii == [c \in {"%", "+", "&", "=", " "} |->
            CASE c = "%" -> 37 [] c = "+" -> 43 [] c = "&" -> 38
              [] c = "=" -> 61 [] c = " " -> 32]

\* uri_chars: what UrlEncode leaves alone ("=" is marked there, too).
UriChars == Alpha \cup Digit \cup {"-", ".", "=", "_", "~"}

UrlEncode(w) ==
  FoldLeft(LAMBDA acc, c :
             acc \o (CASE c \in UriChars -> <<c>>
                       [] c = " "        -> <<"+">>
                       [] OTHER -> <<"%", HexDigits[Ascii[c] \div 16 + 1],
                                          HexDigits[(Ascii[c] % 16) + 1]>>),
           <<>>, w)

\* UrlDecode, from position i on.
UrlDecode(w) ==
  LET Char(n) == IF n \in {Ascii[c] : c \in DOMAIN Ascii}
                 THEN CHOOSE c \in DOMAIN Ascii : Ascii[c] = n ELSE "x01"
      d[i \in 1 .. Len(w) + 3] ==
        CASE i > Len(w) -> <<>>
          [] w[i] = "+" -> <<" ">> \o d[i + 1]
          [] w[i] = "%" /\ i + 2 <= Len(w) /\ {w[i + 1], w[i + 2]} \subseteq Hex ->
               <<Char(16 * HexValue(w[i + 1]) + HexValue(w[i + 2]))>> \o d[i + 3]
          [] OTHER -> <<w[i]>> \o d[i + 1]
  IN  d[1]

\* Trim with the default delimiters.
Trim(w) ==
  LET at == {i \in DOMAIN w : w[i] \notin {" ", "\t", "\r", "\n"}}
  IN  IF at = {} THEN <<>>
      ELSE SubSeq(w, CHOOSE i \in at : \A j \in at : i <= j,
                     CHOOSE i \in at : \A j \in at : i >= j)

\* PARSE_PARAM: pairs up to the separator; std::map::insert keeps the first
\* value of a key (trimmed for cookies), the map ignores the case of keys, and
\* only values are decoded.
ParseParams(w, flag, trim) ==
  LET p[pos \in 1 .. Len(w) + 2] ==
        LET key == Find(w, "=", pos)
            end == Find(w, flag, key)
            text == SubSeq(w, pos, key - 1)
            name == LowerCase(IF trim THEN Trim(text) ELSE text)
            val == UrlDecode(SubSeq(w, key + 1, end - 1))
            rest == IF end > Len(w) THEN NoHeaders ELSE p[end + 1]
        IN  IF key > Len(w) THEN NoHeaders
            ELSE [k \in DOMAIN rest \cup {name} |-> IF k = name THEN val ELSE rest[k]]
  IN  p[1]

\* initQueryParam, initBodyParam and initCookies.
IsForm(req) ==
  LET t == LowerCase(GetHeader(req.headers, ContentType, <<>>))
  IN  \E i \in 0 .. Len(t) : IsPrefix(FormType, SubSeq(t, i + 1, Len(t)))
Params(req) ==
  ParseParams(req.query, "&", FALSE)
    @@ (IF IsForm(req) THEN ParseParams(req.body, "&", FALSE) ELSE NoHeaders)
Cookies(req) == ParseParams(GetHeader(req.headers, <<"c", "o", "o", "k", "i", "e">>, <<>>), ";", TRUE)
=============================================================================
