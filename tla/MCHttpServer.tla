---------------------------- MODULE MCHttpServer ----------------------------
(* Requests with and without query, fragment, header and body for TLC. *)
EXTENDS HttpServer

MCMethods ==
  [GET |-> <<"G", "E", "T">>, LOCK |-> <<"L", "O", "C", "K">>,
   UNLOCK |-> <<"U", "N", "L", "O", "C", "K">>]

MCFormType == <<"f">>

\* One parameter as a client of this library encodes it.
Pair(k, v) == <<k, "=">> \o UrlEncode(v)
Value == <<"1", "&", " ", "=">>

MCRequests ==
  {[NewRequest EXCEPT !.path = <<"/", "a">>, !.close = FALSE,
                      !.query = Pair("k", Value), !.fragment = <<"f">>,
                      !.headers = SetHeader(@, <<"C", "o", "o", "k", "i", "e">>,
                                            <<"a", "=", "b", ";", " ", "c", "=", "d">>)]
      @@ [params |-> (<<"k">> :> Value),
          cookies |-> (<<"a">> :> <<"b">> @@ <<"c">> :> <<"d">>)],
   [NewRequest EXCEPT !.method = "UNLOCK", !.version = 10, !.path = <<"/", "b">>,
                      !.headers = SetHeader(@, ContentType, FormType),
                      !.body = Pair("z", <<"+">>)]
      @@ [params |-> (<<"z">> :> <<"+">>), cookies |-> NoHeaders]}

MCPaths == {<<"/", "a">>}
MCGlobs == {<<"/", "*">>}
MCServerName == <<"w">>
=============================================================================
