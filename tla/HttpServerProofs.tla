--------------------------- MODULE HttpServerProofs ---------------------------
(***************************************************************************)
(* A proof about HttpServer, for any requests, servlets and patterns, any  *)
(* cuts of the reads and any number of changes: the lookup of the servlet, *)
(* which takes the lock of ServletDispatch up to three times, passes over  *)
(* no servlet that is registered throughout.                               *)
(***************************************************************************)
EXTENDS HttpServer, TLAPS

\* What is known of the entries registered throughout the lookup: they match the
\* path, after the first section of the lookup none of them is exact, and after
\* the second there is none.
LookupInv ==
  /\ pc \in {"find", "glob"} => stable \subseteq Matching(datas, globs, parser.req.path)
  /\ pc = "glob" => \A e \in stable : e[1] = "glob"
  /\ pc = "default" => stable = {}
  /\ StableServletFound

\* No pattern matches: no entry that is not exact does.
LEMMA NoHit ==
  ASSUME NEW d, NEW g, NEW path, \A i \in DOMAIN g : ~Fnmatch(g[i], path)
  PROVE  \A e \in Matching(d, g, path) : e[1] # "glob"
BY DEF Matching, ToSet

LEMMA ExactIsRegistered ==
  ASSUME NEW d, NEW g, NEW path, path \notin d
  PROVE  \A e \in Matching(d, g, path) : e[1] = "glob"
BY DEF Matching

LEMMA LookupRead ==
  ASSUME LookupInv, NEW n, Read(n) \/ ReadBody(n) PROVE LookupInv'
<1>1. \/ pc' \in {"terminated", "closed", "recv", "body"}
      \/ /\ pc' = "find" /\ UNCHANGED dispatch
         /\ stable' = Matching(datas, globs, parser'.req.path)
  BY DEF Read, ReadBody, AfterExecute, Received
<1>2. QED BY <1>1 DEF LookupInv, StableServletFound, dispatch

LEMMA LookupGet ==
  ASSUME LookupInv, GetServlet PROVE LookupInv'
<1>0. pc = "find" /\ UNCHANGED <<parser, stable, datas, globs>>
  BY DEF GetServlet, request, dispatch
<1>1. CASE parser.req.path \in datas
  <2>1. pc' = "handle" /\ slt' = <<"exact", parser.req.path>>
    BY <1>1 DEF GetServlet
  <2>2. slt' # Default
    BY <2>1 DEF Default
  <2>3. QED BY <2>1, <2>2 DEF LookupInv, StableServletFound
<1>2. CASE parser.req.path \notin datas
  <2>1. pc' = "glob"
    BY <1>2 DEF GetServlet
  <2>2. \A e \in stable : e[1] = "glob"
    BY <1>0, <1>2, ExactIsRegistered DEF LookupInv
  <2>3. QED BY <1>0, <2>1, <2>2 DEF LookupInv, StableServletFound
<1>3. QED BY <1>1, <1>2

LEMMA LookupGlob ==
  ASSUME LookupInv, GetGlobServlet PROVE LookupInv'
<1>0. pc = "glob" /\ UNCHANGED stable
  BY DEF GetGlobServlet
<1> DEFINE hits == {i \in DOMAIN globs : Fnmatch(globs[i], parser.req.path)}
<1>1. CASE hits = {}
  <2>1. \A e \in stable : e[1] = "glob" /\ e[1] # "glob"
    BY <1>0, <1>1, NoHit DEF LookupInv
  <2>2. pc' = "default"
    BY <1>1 DEF GetGlobServlet
  <2>3. QED BY <1>0, <2>1, <2>2 DEF LookupInv, StableServletFound
<1>2. CASE hits # {}
  <2>1. pc' = "handle" /\ slt' = <<"glob", globs[Min(hits)]>>
    BY <1>2 DEF GetGlobServlet
  <2>2. slt' # Default
    BY <2>1 DEF Default
  <2>3. QED BY <2>1, <2>2 DEF LookupInv, StableServletFound
<1>3. QED BY <1>1, <1>2

LEMMA LookupDefault ==
  ASSUME LookupInv, GetDefault PROVE LookupInv'
BY DEF GetDefault, LookupInv, StableServletFound

\* A change takes entries out of stable, never in.
LEMMA LookupChange ==
  ASSUME LookupInv, NEW d, NEW g, Change(d, g) PROVE LookupInv'
<1>1. /\ datas' = d /\ globs' = g /\ UNCHANGED <<pc, parser, slt>>
      /\ stable' = stable \cap Matching(d, g, parser.req.path)
  BY DEF Change, request
<1>2. QED BY <1>1 DEF LookupInv, StableServletFound

LEMMA LookupKept ==
  ASSUME LookupInv, UNCHANGED <<pc, parser, slt, stable, datas, globs>> PROVE LookupInv'
BY DEF LookupInv, StableServletFound

LEMMA LookupStep ==
  ASSUME LookupInv, [Next]_vars PROVE LookupInv'
<1>1. CASE UNCHANGED vars
  BY <1>1, LookupKept DEF vars
<1>2. CASE Reads
  BY <1>2, LookupRead DEF Reads
<1>3. CASE ReadFails
  BY <1>3 DEF ReadFails, LookupInv, StableServletFound
<1>4. CASE GetServlet
  BY <1>4, LookupGet
<1>5. CASE GetGlobServlet \/ GetDefault
  BY <1>5, LookupGlob, LookupDefault
<1>6. CASE Handle
  <2>1. pc' \in {"closed", "recv"}
    BY <1>6 DEF Handle
  <2>2. QED BY <2>1 DEF LookupInv, StableServletFound
<1>7. CASE Clients
  <2>1. UNCHANGED <<pc, request, found, dispatch>>
    BY <1>7 DEF Clients, ClientEnds, ClientSend, ClientBreaks
  <2>2. QED BY <2>1, LookupKept DEF request, found, dispatch
<1>8. CASE Admin
  <2>1. \E d, g : Change(d, g)
    BY <1>8 DEF Admin, AddServlet, DelServlet, DelGlobServlet, AddGlobErase, AddGlobAppend,
                AddGlobFunction
  <2>2. QED BY <2>1, LookupChange
<1>9. QED BY <1>1, <1>2, <1>3, <1>4, <1>5, <1>6, <1>7, <1>8 DEF Next, Fiber, Others

\* A servlet that is registered for the path of the request from the start of
\* getMatchedServlet to its end is found, although the exact servlets, the
\* patterns and the default one are looked up in three sections of the lock with
\* changes in between, and addGlobServlet erases and appends in two: the default
\* servlet gets no request that is another's.
THEOREM RegisteredServletFound == Spec => []StableServletFound
<1>1. Init => LookupInv
  BY DEF Init, LookupInv, StableServletFound
<1>2. LookupInv /\ [Next]_vars => LookupInv'
  BY LookupStep
<1>3. LookupInv => StableServletFound
  BY DEF LookupInv
<1>4. QED BY <1>1, <1>2, <1>3, PTL DEF Spec
=============================================================================
