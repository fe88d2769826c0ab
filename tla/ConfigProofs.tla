---------------------------- MODULE ConfigProofs ----------------------------
(***************************************************************************)
(* Proofs about Config, for any threads, names, levels and texts: types;   *)
(* a message is lost only at the root logger, in the cases the property    *)
(* names, with one thread that loads; none is lost, with any number of     *)
(* threads that load, as long as no text defines the root; and the         *)
(* listeners go by the stored value, with static initialisers and one      *)
(* thread that loads.                                                      *)
(***************************************************************************)
EXTENDS Config, SequenceTheorems, TLAPS

InitPC == {"create", "found", "read"}
CallPC == {"notify", "rebuild", "clear"}   \* with the read lock of the variable

\* What a thread knows where it is.
PlaceInv ==
  /\ \A l \in Listeners :
       /\ pc[l] \in InitPC \cup {"start", "listening", "gone"}
       /\ pc[l] \in {"found", "read", "listening"} => held[l] \in Vars
  /\ \A s \in Setters :
       /\ pc[s] \in CallPC \cup {"start", "set", "store"}
       /\ pc[s] # "start" => var[s] \in Vars
       /\ pc[s] \in CallPC => cb[s] >= 1
  /\ \A w \in Writers :
       /\ pc[w] \in {"start", "log", "own", "root", "done"}
       /\ pc[w] # "start" => msg[w] \in [logger : Loggers, level : Levels]

CoreInv == TypeOK /\ PlaceInv

\* Nothing touches the root logger.
RootInv ==
  /\ m_level[Root] = 1 /\ m_appenders[Root] # {}
  /\ \A v \in Vars : Root \notin DOMAIN m_value[v]
  /\ \A s \in Setters : Root \notin DOMAIN new[s] /\ Root \notin names[s] /\ logger[s] # Root

\* Initialisers come one after the other, so they find or make one variable, and
\* loads come when all of them listen.
OneVarInv ==
  /\ \A k, l \in Listeners : pc[k] \in InitPC /\ pc[l] \in InitPC => k = l
  /\ \A l \in Listeners : pc[l] = "create" => datas = Nothing
  /\ \A l \in Listeners : pc[l] \in {"found", "read", "listening"} => held[l] = datas
  /\ \A l \in Listeners : pc[l] = "listening" => \E i \in DOMAIN m_cbs[datas] : m_cbs[datas][i] = l
  /\ \A s \in Setters : pc[s] # "start" =>
       var[s] = datas /\ \A l \in Listeners : pc[l] \in {"listening", "gone"}

\* Setter s has called listener l, which the variable has.
Told(s, l) ==
  \/ pc[s] = "store"
  \/ pc[s] \in CallPC /\ \E i \in DOMAIN m_cbs[datas] : i < cb[s] /\ m_cbs[datas][i] = l

\* The value a listener goes by.
ToldInv ==
  \A l \in Listeners \ {LogIniter} :
    /\ pc[l] \in {"read", "listening"} /\ (\A s \in Setters : ~Told(s, l))
         => copy[l] = m_value[datas]
    /\ pc[l] = "listening" => \A s \in Setters : Told(s, l) => copy[l] = new[s]

\* A setter that rebuilds loggers is in the call of LogIniter's listener.
CallInv ==
  \A s \in Setters : pc[s] \in {"rebuild", "clear"} =>
    cb[s] \in DOMAIN m_cbs[datas] /\ m_cbs[datas][cb[s]] = LogIniter

SyncInv == OneVarInv /\ ToldInv /\ CallInv

-----------------------------------------------------------------------------
(***************************************************************************)
(* Values of the variable, and its listeners.                              *)
(***************************************************************************)
LEMMA ValueFacts ==
  ASSUME NEW v \in Values
  PROVE  /\ DOMAIN v \subseteq Loggers
         /\ \A n \in DOMAIN v : /\ v[n].level \in {0} \cup Levels
                               /\ v[n].appenders \subseteq AppenderTypes
<1>1. PICK S \in SUBSET Loggers :
        v \in [S -> [level : {0} \cup Levels, appenders : SUBSET AppenderTypes]]
  BY DEF Values
<1>2. QED BY <1>1

LEMMA NoDefsValue == NoDefs \in Values
<1>1. NoDefs \in [{} -> [level : {0} \cup Levels, appenders : SUBSET AppenderTypes]]
  BY DEF NoDefs
<1>2. {} \in SUBSET Loggers
  OBVIOUS
<1>3. QED BY <1>1, <1>2 DEF Values

LEMMA FromStrValue ==
  ASSUME NEW text \in Texts, ~Throws(text)
  PROVE  FromStr(text) \in Values /\ DOMAIN FromStr(text) = DOMAIN text
<1>1. \A n \in DOMAIN text : n \in Loggers /\ text[n].level \in {0} \cup Levels
  BY ConfigAssumption DEF Throws
<1>2. FromStr(text) \in [DOMAIN text -> [level : {0} \cup Levels, appenders : SUBSET AppenderTypes]]
  BY <1>1 DEF FromStr
<1>3. DOMAIN text \in SUBSET Loggers
  BY <1>1
<1>4. QED BY <1>2, <1>3 DEF Values

LEMMA Removed ==
  ASSUME NEW S, NEW q \in Seq(S), NEW i \in DOMAIN q
  PROVE  /\ RemoveAt(q, i) \in Seq(S)
         /\ \A j \in DOMAIN q : j # i =>
              \E k \in DOMAIN RemoveAt(q, i) : RemoveAt(q, i)[k] = q[j]
<1>0. i \in 1..Len(q) /\ Len(q) \in Nat
  OBVIOUS
<1> DEFINE a == SubSeq(q, 1, i - 1)
           b == SubSeq(q, i + 1, Len(q))
<1>1. /\ a \in Seq(S) /\ Len(a) = i - 1 /\ (\A k \in 1..(i - 1) : a[k] = q[k])
      /\ b \in Seq(S) /\ Len(b) = Len(q) - i /\ (\A k \in 1..(Len(q) - i) : b[k] = q[i + k])
  BY <1>0
<1>2. RemoveAt(q, i) = a \o b
  BY DEF RemoveAt
<1> HIDE DEF a, b
<1>3. /\ a \o b \in Seq(S) /\ DOMAIN (a \o b) = 1..(Len(q) - 1)
      /\ \A k \in 1..(i - 1) : (a \o b)[k] = q[k]
      /\ \A k \in i..(Len(q) - 1) : (a \o b)[k] = q[k + 1]
  BY <1>0, <1>1
<1>4. ASSUME NEW j \in DOMAIN q, j # i
      PROVE  \E k \in DOMAIN (a \o b) : (a \o b)[k] = q[j]
  <2>1. CASE j < i
    <3>1. j \in 1..(i - 1) /\ j \in DOMAIN (a \o b)
      BY <1>0, <1>3, <2>1
    <3>2. QED BY <1>3, <3>1
  <2>2. CASE j > i
    <3>1. j - 1 \in i..(Len(q) - 1) /\ j - 1 \in DOMAIN (a \o b) /\ j = (j - 1) + 1
      BY <1>0, <1>3, <2>2
    <3>2. QED BY <1>3, <3>1
  <2>3. QED BY <1>0, <1>4, <2>1, <2>2
<1>5. QED BY <1>2, <1>3, <1>4

-----------------------------------------------------------------------------
LEMMA CoreInit == ASSUME Init PROVE CoreInv
<1>1. /\ m_value \in [Vars -> Values] /\ copy \in [Listeners -> Values]
      /\ new \in [Setters -> Values]
  BY NoDefsValue DEF Init
<1>2. m_level \in [Loggers -> {0} \cup Levels]
  BY ConfigAssumption DEF Init
<1>3. TypeOK
  BY <1>1, <1>2 DEF Init, TypeOK, AppenderTypes, Threads
<1>4. PlaceInv
  BY DEF Init, PlaceInv, InitPC, CallPC, Threads
<1>5. QED BY <1>3, <1>4 DEF CoreInv

LEMMA CoreLookupFind ==
  ASSUME CoreInv, NEW l \in Listeners, LookupFind(l) PROVE CoreInv'
<1>0. UNCHANGED <<datas, m_value, m_cbs, copy, new, var, loads, cb, names, logger, left,
                  m_level, m_appenders, holder, msg, got>>
  BY DEF LookupFind, confVars, setVars, callVars, logVars, msgVars
<1>1. CASE datas # Nothing
  <2>1. held' = [held EXCEPT ![l] = datas] /\ pc' = [pc EXCEPT ![l] = "found"] /\ pc[l] = "start"
    BY <1>1 DEF LookupFind, Goto
  <2>2. TypeOK'
    BY <1>0, <1>1, <2>1 DEF CoreInv, TypeOK, PlaceInv, Threads, Vars, InitPC, CallPC
  <2>3. PlaceInv'
    BY <1>0, <1>1, <2>1, ConfigAssumption
       DEF CoreInv, TypeOK, PlaceInv, Threads, Vars, InitPC, CallPC
  <2>4. QED BY <2>2, <2>3 DEF CoreInv
<1>2. CASE datas = Nothing
  <2>1. held' = held /\ pc' = [pc EXCEPT ![l] = "create"] /\ pc[l] = "start"
    BY <1>2 DEF LookupFind, Goto
  <2>2. TypeOK'
    BY <1>0, <1>2, <2>1 DEF CoreInv, TypeOK, PlaceInv, Threads, Vars, InitPC, CallPC
  <2>3. PlaceInv'
    BY <1>0, <1>2, <2>1, ConfigAssumption
       DEF CoreInv, TypeOK, PlaceInv, Threads, Vars, InitPC, CallPC
  <2>4. QED BY <2>2, <2>3 DEF CoreInv
<1>3. QED BY <1>1, <1>2

LEMMA CoreLookupCreate ==
  ASSUME CoreInv, NEW l \in Listeners, LookupCreate(l) PROVE CoreInv'
<1>1. TypeOK'
  BY DEF CoreInv, TypeOK, PlaceInv, LookupCreate, Goto, Threads, Vars, InitPC, CallPC,
         confVars, setVars, callVars, logVars, msgVars
<1>2. PlaceInv'
  BY ConfigAssumption
     DEF CoreInv, TypeOK, PlaceInv, LookupCreate, Goto, Threads, Vars, InitPC, CallPC,
         confVars, setVars, callVars, logVars, msgVars
<1>3. QED BY <1>1, <1>2 DEF CoreInv

LEMMA CoreGetValue ==
  ASSUME CoreInv, NEW l \in Listeners, GetValue(l) PROVE CoreInv'
<1>1. TypeOK'
  BY DEF CoreInv, TypeOK, PlaceInv, GetValue, Goto, Threads, Vars, InitPC, CallPC, confVars,
         setVars, callVars, logVars, msgVars
<1>2. PlaceInv'
  BY ConfigAssumption
     DEF CoreInv, TypeOK, PlaceInv, GetValue, Goto, Threads, Vars, InitPC, CallPC, confVars,
         setVars, callVars, logVars, msgVars
<1>3. QED BY <1>1, <1>2 DEF CoreInv

LEMMA CoreAddListener ==
  ASSUME CoreInv, NEW l \in Listeners, AddListener(l) PROVE CoreInv'
<1>1. TypeOK'
  BY DEF CoreInv, TypeOK, PlaceInv, AddListener, Goto, Threads, Vars, InitPC, CallPC,
         confVars, setVars, callVars, logVars, msgVars
<1>2. PlaceInv'
  BY ConfigAssumption
     DEF CoreInv, TypeOK, PlaceInv, AddListener, Goto, Threads, Vars, InitPC, CallPC,
         confVars, setVars, callVars, logVars, msgVars
<1>3. QED BY <1>1, <1>2 DEF CoreInv

LEMMA CoreDelListener ==
  ASSUME CoreInv, NEW l \in Listeners, DelListener(l) PROVE CoreInv'
<1>1. TypeOK'
  BY Removed
     DEF CoreInv, TypeOK, PlaceInv, DelListener, Goto, Threads, Vars, InitPC, CallPC,
         confVars, setVars, callVars, logVars, msgVars
<1>2. PlaceInv'
  BY ConfigAssumption
     DEF CoreInv, TypeOK, PlaceInv, DelListener, Goto, Threads, Vars, InitPC, CallPC,
         confVars, setVars, callVars, logVars, msgVars
<1>3. QED BY <1>1, <1>2 DEF CoreInv

LEMMA CoreClearListener ==
  ASSUME CoreInv, NEW v \in Vars, ClearListener(v) PROVE CoreInv'
<1>0. /\ UNCHANGED <<datas, m_value, held, copy, new, var, loads, cb, names, logger, left, m_level,
                     m_appenders, holder, msg, got>>
      /\ m_cbs' = [m_cbs EXCEPT ![v] = <<>>]
      /\ pc' = [t \in Threads |-> IF t \in ToSet(m_cbs[v]) THEN "gone" ELSE pc[t]]
  BY DEF ClearListener, confVars, setVars, callVars, logVars, msgVars
<1>1. TypeOK'
  BY <1>0 DEF CoreInv, TypeOK
<1>2. ToSet(m_cbs[v]) \subseteq Listeners
  BY DEF CoreInv, TypeOK, ToSet
<1>3. PlaceInv'
  <2>1. ASSUME NEW l \in Listeners
        PROVE  /\ pc'[l] \in InitPC \cup {"start", "listening", "gone"}
               /\ pc'[l] \in {"found", "read", "listening"} => held'[l] \in Vars
    BY <1>0 DEF CoreInv, PlaceInv, Threads
  <2>2. \A t \in Setters \cup Writers : pc'[t] = pc[t]
    BY <1>0, <1>2, ConfigAssumption DEF Threads
  <2>3. QED BY <1>0, <2>1, <2>2 DEF CoreInv, PlaceInv
<1>4. QED BY <1>1, <1>3 DEF CoreInv

LEMMA CoreLoad ==
  ASSUME CoreInv, NEW s \in Setters, NEW text \in Texts, Load(s, text) PROVE CoreInv'
<1>0. UNCHANGED <<datas, m_value, m_cbs, held, copy, cb, names, logger, left, m_level,
                  m_appenders, holder, msg, got>>
  BY DEF Load, confVars, setVars, callVars, logVars, msgVars
<1>1. CASE datas = Nothing \/ Throws(text)
  <2>1. UNCHANGED <<pc, new, var>> /\ loads' = loads + 1
    BY <1>1 DEF Load, Goto
  <2>2. TypeOK'
    BY <1>0, <1>1, <2>1, FromStrValue DEF CoreInv, TypeOK, PlaceInv, Threads, Vars, InitPC, CallPC
  <2>3. PlaceInv'
    BY <1>0, <1>1, <2>1, ConfigAssumption
       DEF CoreInv, TypeOK, PlaceInv, Threads, Vars, InitPC, CallPC
  <2>4. QED BY <2>2, <2>3 DEF CoreInv
<1>2. CASE ~(datas = Nothing \/ Throws(text))
  <2>1. /\ pc' = [pc EXCEPT ![s] = "set"] /\ new' = [new EXCEPT ![s] = FromStr(text)]
        /\ var' = [var EXCEPT ![s] = datas] /\ loads' = loads + 1
    BY <1>2 DEF Load, Goto
  <2>2. TypeOK'
    BY <1>0, <1>2, <2>1, FromStrValue DEF CoreInv, TypeOK, PlaceInv, Threads, Vars, InitPC, CallPC
  <2>3. PlaceInv'
    BY <1>0, <1>2, <2>1, ConfigAssumption
       DEF CoreInv, TypeOK, PlaceInv, Threads, Vars, InitPC, CallPC
  <2>4. QED BY <2>2, <2>3 DEF CoreInv
<1>3. QED BY <1>1, <1>2

LEMMA CoreSetValue ==
  ASSUME CoreInv, NEW s \in Setters, SetValue(s) PROVE CoreInv'
<1>0. UNCHANGED <<datas, m_value, m_cbs, held, copy, new, var, loads, names, logger, left,
                  m_level, m_appenders, holder, msg, got>>
  BY DEF SetValue, confVars, setVars, callVars, logVars, msgVars
<1>1. CASE Equal(m_value[var[s]], new[s])
  <2>1. pc' = [pc EXCEPT ![s] = "start"] /\ cb' = cb /\ pc[s] = "set"
    BY <1>1 DEF SetValue, Goto
  <2>2. TypeOK'
    BY <1>0, <1>1, <2>1 DEF CoreInv, TypeOK, PlaceInv, Threads, Vars, InitPC, CallPC
  <2>3. PlaceInv'
    BY <1>0, <1>1, <2>1, ConfigAssumption
       DEF CoreInv, TypeOK, PlaceInv, Threads, Vars, InitPC, CallPC
  <2>4. QED BY <2>2, <2>3 DEF CoreInv
<1>2. CASE ~Equal(m_value[var[s]], new[s])
  <2>1. pc' = [pc EXCEPT ![s] = "notify"] /\ cb' = [cb EXCEPT ![s] = 1] /\ pc[s] = "set"
    BY <1>2 DEF SetValue, Goto
  <2>2. TypeOK'
    BY <1>0, <1>2, <2>1 DEF CoreInv, TypeOK, PlaceInv, Threads, Vars, InitPC, CallPC
  <2>3. PlaceInv'
    BY <1>0, <1>2, <2>1, ConfigAssumption
       DEF CoreInv, TypeOK, PlaceInv, Threads, Vars, InitPC, CallPC
  <2>4. QED BY <2>2, <2>3 DEF CoreInv
<1>3. QED BY <1>1, <1>2

LEMMA CoreNotify ==
  ASSUME CoreInv, NEW s \in Setters, Notify(s) PROVE CoreInv'
<1> DEFINE l == m_cbs[var[s]][cb[s]]
           old == DOMAIN m_value[var[s]]
<1>0. /\ UNCHANGED <<datas, m_value, m_cbs, held, new, var, loads, logger, left, m_level,
                     m_appenders, holder, msg, got>>
      /\ pc[s] = "notify" /\ cb[s] <= Len(m_cbs[var[s]])
  BY DEF Notify, confVars, setVars, callVars, logVars, msgVars
<1>1. var[s] \in Vars /\ cb[s] \in Nat /\ cb[s] >= 1 /\ s \in Threads
  BY <1>0 DEF CoreInv, TypeOK, PlaceInv, CallPC, Threads
<1>2. l \in Listeners /\ old \subseteq Loggers /\ DOMAIN new[s] \subseteq Loggers
      /\ new[s] \in Values
  <2>1. m_cbs[var[s]] \in Seq(Listeners) /\ m_value[var[s]] \in Values /\ new[s] \in Values
    BY <1>1 DEF CoreInv, TypeOK
  <2>2. QED BY <1>0, <1>1, <2>1, ValueFacts
<1>3. CASE l = LogIniter
  <2>1. /\ names' = [names EXCEPT ![s] = (DOMAIN new[s] \ old) \cup (old \ DOMAIN new[s])]
        /\ pc' = [pc EXCEPT ![s] = "rebuild"] /\ copy' = copy /\ cb' = cb
    BY <1>3 DEF Notify, Goto
  <2> HIDE DEF l, old
  <2>2. TypeOK'
    BY <1>0, <1>2, <2>1 DEF CoreInv, TypeOK
  <2>3. PlaceInv'
    BY <1>0, <1>1, <2>1, ConfigAssumption
       DEF CoreInv, TypeOK, PlaceInv, Threads, Vars, InitPC, CallPC
  <2>4. QED BY <2>2, <2>3 DEF CoreInv
<1>4. CASE l # LogIniter
  <2>1. /\ copy' = [copy EXCEPT ![l] = new[s]] /\ cb' = [cb EXCEPT ![s] = @ + 1]
        /\ names' = names /\ pc' = pc
    BY <1>4 DEF Notify
  <2> HIDE DEF l, old
  <2>2. TypeOK'
    BY <1>0, <1>2, <2>1 DEF CoreInv, TypeOK
  <2>3. cb'[s] >= 1 /\ \A r \in Setters : r # s => cb'[r] = cb[r]
    BY <1>1, <2>1 DEF CoreInv, TypeOK
  <2>4. PlaceInv'
    BY <1>0, <2>1, <2>3 DEF CoreInv, PlaceInv
  <2>5. QED BY <2>2, <2>4 DEF CoreInv
<1>5. QED BY <1>3, <1>4

LEMMA CoreSetLevel ==
  ASSUME CoreInv, NEW s \in Setters, NEW n \in Loggers, SetLevel(s, n) PROVE CoreInv'
<1>1. TypeOK'
  BY ValueFacts
     DEF CoreInv, TypeOK, PlaceInv, SetLevel, Goto, Threads, Vars, InitPC, CallPC, confVars,
         setVars, callVars, logVars, msgVars
<1>2. PlaceInv'
  BY ConfigAssumption
     DEF CoreInv, TypeOK, PlaceInv, SetLevel, Goto, Threads, Vars, InitPC, CallPC, confVars,
         setVars, callVars, logVars, msgVars
<1>3. QED BY <1>1, <1>2 DEF CoreInv

LEMMA CoreClearAppenders ==
  ASSUME CoreInv, NEW s \in Setters, ClearAppenders(s) PROVE CoreInv'
<1>1. TypeOK'
  BY ValueFacts
     DEF CoreInv, TypeOK, PlaceInv, ClearAppenders, Goto, Threads, Vars, InitPC, CallPC,
         confVars, setVars, callVars, logVars, msgVars
<1>2. PlaceInv'
  BY ConfigAssumption
     DEF CoreInv, TypeOK, PlaceInv, ClearAppenders, Goto, Threads, Vars, InitPC, CallPC,
         confVars, setVars, callVars, logVars, msgVars
<1>3. QED BY <1>1, <1>2 DEF CoreInv

LEMMA CoreAddAppender ==
  ASSUME CoreInv, NEW s \in Setters, NEW a \in AppenderTypes, AddAppender(s, a) PROVE CoreInv'
<1>0. UNCHANGED <<datas, m_value, m_cbs, held, copy, new, var, loads, cb, names, logger,
                  m_level, holder, msg, got>>
  BY DEF AddAppender, confVars, setVars, callVars, logVars, msgVars
<1>1. CASE m_appenders' = m_appenders
  <2>1. left' = [left EXCEPT ![s] = @ \ {a}] /\ pc' = pc
    BY <1>1 DEF AddAppender, Goto
  <2>2. TypeOK'
    BY <1>0, <1>1, <2>1 DEF CoreInv, TypeOK, PlaceInv, Threads, Vars, InitPC, CallPC
  <2>3. PlaceInv'
    BY <1>0, <1>1, <2>1, ConfigAssumption
       DEF CoreInv, TypeOK, PlaceInv, Threads, Vars, InitPC, CallPC
  <2>4. QED BY <2>2, <2>3 DEF CoreInv
<1>2. CASE m_appenders' = [m_appenders EXCEPT ![logger[s]] = @ \cup {a}]
  <2>1. left' = [left EXCEPT ![s] = @ \ {a}] /\ pc' = pc
    BY <1>2 DEF AddAppender, Goto
  <2>2. TypeOK'
    <3>1. m_appenders' \in [Loggers -> SUBSET AppenderTypes]
      BY <1>2 DEF CoreInv, TypeOK
    <3>2. left' \in [Setters -> SUBSET AppenderTypes]
      BY <2>1 DEF CoreInv, TypeOK
    <3>3. QED BY <1>0, <2>1, <3>1, <3>2 DEF CoreInv, TypeOK
  <2>3. PlaceInv'
    BY <1>0, <1>2, <2>1, ConfigAssumption
       DEF CoreInv, TypeOK, PlaceInv, Threads, Vars, InitPC, CallPC
  <2>4. QED BY <2>2, <2>3 DEF CoreInv
<1>3. QED BY <1>1, <1>2 DEF AddAppender

LEMMA CoreRebuilt ==
  ASSUME CoreInv, NEW s \in Setters, Rebuilt(s) PROVE CoreInv'
<1>1. TypeOK'
  BY NoDefsValue
     DEF CoreInv, TypeOK, PlaceInv, Rebuilt, Goto, Threads, Vars, InitPC, CallPC, confVars,
         setVars, callVars, logVars, msgVars
<1>2. PlaceInv'
  BY ConfigAssumption
     DEF CoreInv, TypeOK, PlaceInv, Rebuilt, Goto, Threads, Vars, InitPC, CallPC, confVars,
         setVars, callVars, logVars, msgVars
<1>3. QED BY <1>1, <1>2 DEF CoreInv

LEMMA CoreUnlock ==
  ASSUME CoreInv, NEW s \in Setters, Unlock(s) PROVE CoreInv'
<1>1. TypeOK'
  BY NoDefsValue
     DEF CoreInv, TypeOK, PlaceInv, Unlock, Goto, Threads, Vars, InitPC, CallPC, confVars,
         setVars, callVars, logVars, msgVars
<1>2. PlaceInv'
  BY ConfigAssumption
     DEF CoreInv, TypeOK, PlaceInv, Unlock, Goto, Threads, Vars, InitPC, CallPC, confVars,
         setVars, callVars, logVars, msgVars
<1>3. QED BY <1>1, <1>2 DEF CoreInv

LEMMA CoreStore ==
  ASSUME CoreInv, NEW s \in Setters, Store(s) PROVE CoreInv'
<1>1. TypeOK'
  BY NoDefsValue
     DEF CoreInv, TypeOK, PlaceInv, Store, Goto, Threads, Vars, InitPC, CallPC, confVars,
         setVars, callVars, logVars, msgVars
<1>2. PlaceInv'
  BY ConfigAssumption
     DEF CoreInv, TypeOK, PlaceInv, Store, Goto, Threads, Vars, InitPC, CallPC, confVars,
         setVars, callVars, logVars, msgVars
<1>3. QED BY <1>1, <1>2 DEF CoreInv

LEMMA CoreLogMacro ==
  ASSUME CoreInv, NEW w \in Writers, NEW n \in Loggers, NEW level \in Levels,
         LogMacro(w, n, level)
  PROVE  CoreInv'
<1>0. /\ UNCHANGED <<datas, m_value, m_cbs, held, copy, new, var, loads, cb, names, logger, left,
                     m_level, m_appenders, holder>>
      /\ msg' = [msg EXCEPT ![w] = [logger |-> n, level |-> level]]
      /\ got' = [got EXCEPT ![w] = {}] /\ pc' = [pc EXCEPT ![w] = "log"]
  BY DEF LogMacro, Goto, confVars, setVars, callVars, logVars, msgVars
<1>1. TypeOK'
  BY <1>0 DEF CoreInv, TypeOK
<1>2. msg'[w] \in [logger : Loggers, level : Levels] /\ w \in Threads
  BY <1>0 DEF CoreInv, TypeOK, Threads
<1>3. PlaceInv'
  <2>1. \A t \in Threads : pc'[t] = IF t = w THEN "log" ELSE pc[t]
    BY <1>0 DEF CoreInv, TypeOK
  <2>2. \A x \in Writers : x # w => msg'[x] = msg[x]
    BY <1>0 DEF CoreInv, TypeOK
  <2>3. QED BY <1>0, <1>2, <2>1, <2>2, ConfigAssumption DEF CoreInv, PlaceInv, Threads, Vars
<1>4. QED BY <1>1, <1>3 DEF CoreInv

LEMMA CoreTestLevel ==
  ASSUME CoreInv, NEW w \in Writers, TestLevel(w) PROVE CoreInv'
<1>1. TypeOK'
  BY DEF CoreInv, TypeOK, PlaceInv, TestLevel, Goto, Threads, Vars, InitPC, CallPC, confVars,
         setVars, callVars, logVars, msgVars
<1>2. PlaceInv'
  BY ConfigAssumption
     DEF CoreInv, TypeOK, PlaceInv, TestLevel, Goto, Threads, Vars, InitPC, CallPC, confVars,
         setVars, callVars, logVars, msgVars
<1>3. QED BY <1>1, <1>2 DEF CoreInv

LEMMA CoreOwnAppenders ==
  ASSUME CoreInv, NEW w \in Writers, OwnAppenders(w) PROVE CoreInv'
<1>0. UNCHANGED <<datas, m_value, m_cbs, held, copy, new, var, loads, cb, names, logger, left,
                  m_level, m_appenders, msg>>
  BY DEF OwnAppenders, confVars, setVars, callVars, logVars, msgVars
<1>1. CASE m_appenders[msg[w].logger] # {} \/ msg[w].logger = Root
  <2>1. /\ pc' = [pc EXCEPT ![w] = "done"] /\ pc[w] = "own" /\ holder' = holder
        /\ got' = [got EXCEPT ![w] = m_appenders[msg[w].logger]]
    BY <1>1 DEF OwnAppenders, Goto
  <2>2. TypeOK'
    BY <1>0, <1>1, <2>1 DEF CoreInv, TypeOK, PlaceInv, Threads, Vars, InitPC, CallPC
  <2>3. PlaceInv'
    BY <1>0, <1>1, <2>1, ConfigAssumption
       DEF CoreInv, TypeOK, PlaceInv, Threads, Vars, InitPC, CallPC
  <2>4. QED BY <2>2, <2>3 DEF CoreInv
<1>2. CASE ~(m_appenders[msg[w].logger] # {} \/ msg[w].logger = Root)
  <2>1. /\ pc' = [pc EXCEPT ![w] = "root"] /\ pc[w] = "own" /\ got' = got
        /\ holder' = [holder EXCEPT ![msg[w].logger] = w]
    BY <1>2 DEF OwnAppenders, Goto
  <2>2. TypeOK'
    BY <1>0, <1>2, <2>1 DEF CoreInv, TypeOK, PlaceInv, Threads, Vars, InitPC, CallPC
  <2>3. PlaceInv'
    BY <1>0, <1>2, <2>1, ConfigAssumption
       DEF CoreInv, TypeOK, PlaceInv, Threads, Vars, InitPC, CallPC
  <2>4. QED BY <2>2, <2>3 DEF CoreInv
<1>3. QED BY <1>1, <1>2

LEMMA CoreRootAppenders ==
  ASSUME CoreInv, NEW w \in Writers, RootAppenders(w) PROVE CoreInv'
<1>0. /\ UNCHANGED <<datas, m_value, m_cbs, held, copy, new, var, loads, cb, names, logger, left,
                     m_level, m_appenders, msg>>
      /\ pc[w] = "root" /\ pc' = [pc EXCEPT ![w] = "done"]
      /\ got' = [got EXCEPT ![w] = IF msg[w].level >= m_level[Root] THEN m_appenders[Root] ELSE {}]
      /\ holder' = [holder EXCEPT ![msg[w].logger] = Nothing]
  BY DEF RootAppenders, Goto, confVars, setVars, callVars, logVars, msgVars
<1>1. TypeOK'
  <2>1. (IF msg[w].level >= m_level[Root] THEN m_appenders[Root] ELSE {}) \in SUBSET AppenderTypes
    BY DEF CoreInv, TypeOK, Loggers
  <2>2. got' \in [Writers -> SUBSET AppenderTypes]
    BY <1>0, <2>1 DEF CoreInv, TypeOK
  <2>3. holder' \in [Loggers -> Writers \cup {Nothing}]
    BY <1>0 DEF CoreInv, TypeOK
  <2>4. QED BY <1>0, <2>2, <2>3 DEF CoreInv, TypeOK
<1>2. PlaceInv'
  BY <1>0, ConfigAssumption DEF CoreInv, TypeOK, PlaceInv, Threads, Vars, InitPC, CallPC
<1>3. QED BY <1>1, <1>2 DEF CoreInv

LEMMA CoreWritten ==
  ASSUME CoreInv, NEW w \in Writers, Written(w) PROVE CoreInv'
<1>1. TypeOK'
  BY DEF CoreInv, TypeOK, PlaceInv, Written, Goto, Threads, Vars, InitPC, CallPC, confVars,
         setVars, callVars, logVars, msgVars
<1>2. PlaceInv'
  BY ConfigAssumption
     DEF CoreInv, TypeOK, PlaceInv, Written, Goto, Threads, Vars, InitPC, CallPC, confVars,
         setVars, callVars, logVars, msgVars
<1>3. QED BY <1>1, <1>2 DEF CoreInv

-----------------------------------------------------------------------------
LEMMA CoreStep == ASSUME CoreInv, [Next]_vars PROVE CoreInv'
<1>1. CASE UNCHANGED vars
  BY <1>1 DEF CoreInv, TypeOK, PlaceInv, vars, confVars, setVars, callVars, logVars, msgVars
<1>2. CASE \E l \in Listeners : InitStep(l)
  BY <1>2, CoreLookupFind, CoreLookupCreate, CoreGetValue, CoreAddListener, CoreDelListener
     DEF InitStep
<1>3. CASE \E v \in Vars : ClearListener(v)
  BY <1>3, CoreClearListener
<1>4. CASE \E s \in Setters : SetStep(s)
  BY <1>4, CoreLoad, CoreSetValue, CoreNotify, CoreSetLevel, CoreClearAppenders, CoreAddAppender,
     CoreRebuilt, CoreUnlock, CoreStore DEF SetStep
<1>5. CASE \E w \in Writers : WriteStep(w)
  BY <1>5, CoreLogMacro, CoreTestLevel, CoreOwnAppenders, CoreRootAppenders, CoreWritten
     DEF WriteStep
<1>6. QED BY <1>1, <1>2, <1>3, <1>4, <1>5 DEF Next

LEMMA CoreInvariant == Spec => []CoreInv
<1>1. Init => CoreInv
  BY CoreInit
<1>2. CoreInv /\ [Next]_vars => CoreInv'
  BY CoreStep
<1>3. QED BY <1>1, <1>2, PTL DEF Spec

\* The types of the variables: what FromStr makes of any text is a value, and the
\* listeners call, rebuild and log with what is there.
THEOREM ConfigTypeCorrect == Spec => []TypeOK
<1>1. CoreInv => TypeOK
  BY DEF CoreInv
<1>2. QED BY <1>1, CoreInvariant, PTL

-----------------------------------------------------------------------------
(***************************************************************************)
(* No message is lost as long as no text defines the root.                 *)
(***************************************************************************)
NoRootText == \A text \in Texts : Root \notin DOMAIN text

LossInv == RootInv /\ NotLost

LEMMA LossInit == ASSUME Init PROVE LossInv
<1>1. Root \notin DOMAIN NoDefs
  BY DEF NoDefs
<1>2. RootInv
  BY <1>1, ConfigAssumption DEF Init, RootInv, Loggers
<1>3. QED BY <1>2 DEF Init, LossInv, NotLost, Threads

\* Steps of initialisers and setters leave the messages alone.
LEMMA MessagesKept ==
  ASSUME CoreInv, NotLost, UNCHANGED msgVars, \A w \in Writers : pc'[w] = pc[w]
  PROVE  NotLost'
BY DEF NotLost, msgVars

LEMMA RootKept ==
  ASSUME RootInv, UNCHANGED <<m_level, m_appenders, m_value, new, names, logger>>
  PROVE  RootInv'
BY DEF RootInv

\* The pc of one thread changes only.
LEMMA PcKept ==
  ASSUME CoreInv, NEW t \in Setters \cup Listeners, NEW p, pc' = [pc EXCEPT ![t] = p]
  PROVE  \A w \in Writers : pc'[w] = pc[w]
BY ConfigAssumption DEF CoreInv, TypeOK, Threads

LEMMA LossInitStep ==
  ASSUME CoreInv, LossInv, NEW l \in Listeners, InitStep(l) PROVE LossInv'
<1>1. UNCHANGED <<m_value, setVars, callVars, logVars, msgVars>>
  BY DEF InitStep, LookupFind, LookupCreate, GetValue, AddListener, DelListener
<1>2. RootInv'
  BY <1>1, RootKept DEF LossInv, setVars, callVars, logVars
<1>3. \E p : pc' = [pc EXCEPT ![l] = p]
  BY DEF InitStep, LookupFind, LookupCreate, GetValue, AddListener, DelListener, Goto
<1>4. NotLost'
  BY <1>1, <1>3, PcKept, MessagesKept DEF LossInv
<1>5. QED BY <1>2, <1>4 DEF LossInv

LEMMA LossClear ==
  ASSUME CoreInv, LossInv, NEW v \in Vars, ClearListener(v) PROVE LossInv'
<1>1. RootInv'
  BY RootKept DEF ClearListener, LossInv, setVars, callVars, logVars
<1>2. ToSet(m_cbs[v]) \subseteq Listeners
  BY DEF CoreInv, TypeOK, ToSet
<1>3. \A w \in Writers : pc'[w] = pc[w]
  BY <1>2, ConfigAssumption DEF ClearListener, Threads
<1>4. NotLost'
  BY <1>3, MessagesKept DEF LossInv, ClearListener
<1>5. QED BY <1>1, <1>4 DEF LossInv

\* A setter rebuilds loggers of the names that texts define: never the root.
LEMMA LossSetStep ==
  ASSUME NoRootText, CoreInv, LossInv, NEW s \in Setters, SetStep(s) PROVE LossInv'
<1>1. UNCHANGED msgVars /\ \E p : pc' = [pc EXCEPT ![s] = p]
  <2>1. UNCHANGED msgVars
    BY DEF SetStep, Load, SetValue, Notify, SetLevel, ClearAppenders, AddAppender, Rebuilt,
           Unlock, Store
  <2>2. \/ \E p : pc' = [pc EXCEPT ![s] = p]
        \/ pc' = pc
    BY DEF SetStep, Load, SetValue, Notify, SetLevel, ClearAppenders, AddAppender, Rebuilt,
           Unlock, Store, Goto
  <2>3. pc = [pc EXCEPT ![s] = pc[s]]
    BY DEF CoreInv, TypeOK
  <2>4. QED BY <2>1, <2>2, <2>3
<1>2. NotLost'
  BY <1>1, PcKept, MessagesKept DEF LossInv
<1>3. RootInv'
  <2>1. CASE \E text \in Texts : Load(s, text)
    <3>1. PICK text \in Texts : Load(s, text)
      BY <2>1
    <3>2. UNCHANGED <<m_level, m_appenders, m_value, names, logger>>
      BY <3>1 DEF Load, confVars, callVars, logVars
    <3>3. CASE new' = new
      BY <3>2, <3>3, RootKept DEF LossInv
    <3>4. CASE new' = [new EXCEPT ![s] = FromStr(text)] /\ ~Throws(text)
      <4>1. Root \notin DOMAIN FromStr(text)
        BY <3>4, FromStrValue DEF NoRootText
      <4>2. \A r \in Setters : Root \notin DOMAIN new'[r]
        BY <3>4, <4>1 DEF CoreInv, TypeOK, LossInv, RootInv
      <4>3. QED BY <3>2, <4>2 DEF LossInv, RootInv
    <3>5. QED BY <3>1, <3>3, <3>4 DEF Load
  <2>2. CASE SetValue(s) \/ Unlock(s)
    BY <2>2, RootKept DEF SetValue, Unlock, LossInv, confVars, setVars, logVars
  <2>3. CASE Notify(s)
    <3>1. CASE names' = names
      BY <2>3, <3>1, RootKept DEF Notify, LossInv, setVars, logVars
    <3>2. CASE names' = [names EXCEPT ![s] = (DOMAIN new[s] \ DOMAIN m_value[var[s]])
                                              \cup (DOMAIN m_value[var[s]] \ DOMAIN new[s])]
      <4>1. var[s] \in Vars
        BY <2>3 DEF CoreInv, PlaceInv, Notify
      <4>2. Root \notin DOMAIN new[s] /\ Root \notin DOMAIN m_value[var[s]]
        BY <4>1 DEF LossInv, RootInv
      <4>3. \A r \in Setters : Root \notin names'[r]
        BY <3>2, <4>2 DEF CoreInv, TypeOK, LossInv, RootInv
      <4>4. UNCHANGED <<m_level, m_appenders, m_value, new, logger>>
        BY <2>3 DEF Notify, setVars, logVars
      <4>5. QED BY <4>3, <4>4 DEF LossInv, RootInv
    <3>3. QED BY <2>3, <3>1, <3>2 DEF Notify
  <2>4. CASE \E n \in Loggers : SetLevel(s, n)
    <3>1. PICK n \in Loggers : SetLevel(s, n)
      BY <2>4
    <3>2. n # Root /\ UNCHANGED <<m_appenders, m_value, new>>
      BY <3>1 DEF SetLevel, LossInv, RootInv, confVars, setVars
    <3>3. m_level'[Root] = m_level[Root]
      BY <3>1, <3>2 DEF SetLevel, CoreInv, TypeOK
    <3>4. \A r \in Setters : Root \notin names'[r] /\ logger'[r] # Root
      BY <3>1, <3>2 DEF SetLevel, CoreInv, TypeOK, LossInv, RootInv
    <3>5. QED BY <3>2, <3>3, <3>4 DEF LossInv, RootInv
  <2>5. CASE ClearAppenders(s) \/ \E a \in AppenderTypes : AddAppender(s, a)
    <3>1. logger[s] # Root /\ UNCHANGED <<m_level, m_value, new, names, logger>>
      BY <2>5 DEF ClearAppenders, AddAppender, LossInv, RootInv, confVars, setVars
    <3>2. m_appenders'[Root] = m_appenders[Root]
      <4>1. \/ m_appenders' = m_appenders
            \/ \E x : m_appenders' = [m_appenders EXCEPT ![logger[s]] = x]
        BY <2>5 DEF ClearAppenders, AddAppender
      <4>2. QED BY <3>1, <4>1 DEF CoreInv, TypeOK, Loggers
    <3>3. QED BY <3>1, <3>2 DEF LossInv, RootInv
  <2>6. CASE Rebuilt(s)
    <3>1. UNCHANGED <<m_level, m_appenders, m_value, new, names>>
      BY <2>6 DEF Rebuilt, confVars, setVars, logVars
    <3>2. Nothing # Root
      BY ConfigAssumption DEF Loggers
    <3>3. \A r \in Setters : logger'[r] # Root
      BY <2>6, <3>2 DEF Rebuilt, CoreInv, TypeOK, LossInv, RootInv
    <3>4. QED BY <3>1, <3>3 DEF LossInv, RootInv
  <2>7. CASE Store(s)
    <3>1. UNCHANGED <<m_level, m_appenders, names, logger>>
      BY <2>7 DEF Store, callVars, logVars
    <3>2. Root \notin DOMAIN NoDefs
      BY DEF NoDefs
    <3>3. \A v \in Vars : Root \notin DOMAIN m_value'[v]
      BY <2>7 DEF Store, CoreInv, TypeOK, LossInv, RootInv
    <3>4. \A r \in Setters : Root \notin DOMAIN new'[r]
      BY <2>7, <3>2 DEF Store, CoreInv, TypeOK, LossInv, RootInv
    <3>5. QED BY <3>1, <3>3, <3>4 DEF LossInv, RootInv
  <2>8. QED BY <2>1, <2>2, <2>3, <2>4, <2>5, <2>6, <2>7 DEF SetStep
<1>4. QED BY <1>2, <1>3 DEF LossInv

\* A logger without appenders asks the root, which has one and lets every level
\* pass.
LEMMA LossWriteStep ==
  ASSUME CoreInv, LossInv, NEW w \in Writers, WriteStep(w) PROVE LossInv'
<1>1. UNCHANGED <<m_value, setVars, callVars, m_level, m_appenders>>
  BY DEF WriteStep, LogMacro, TestLevel, OwnAppenders, RootAppenders, Written, confVars, logVars
<1>2. RootInv'
  BY <1>1, RootKept DEF LossInv, setVars, callVars
<1>3. ASSUME NEW x \in Writers, pc'[x] = "done" PROVE got'[x] # {}
  <2>1. CASE x # w
    <3>1. pc'[x] = pc[x] /\ got'[x] = got[x]
      BY <2>1 DEF WriteStep, LogMacro, TestLevel, OwnAppenders, RootAppenders, Written, Goto,
                  msgVars, CoreInv, TypeOK, Threads
    <3>2. QED BY <1>3, <3>1 DEF LossInv, NotLost
  <2>2. CASE x = w
    <3>1. w \in Threads
      BY DEF Threads
    <3>2. OwnAppenders(w) \/ RootAppenders(w)
      BY <1>3, <2>2, <3>1 DEF WriteStep, LogMacro, TestLevel, Written, Goto, CoreInv, TypeOK
    <3>3. CASE OwnAppenders(w)
      <4>1. m_appenders[msg[w].logger] # {} \/ msg[w].logger = Root
        BY <1>3, <2>2, <3>1, <3>3 DEF OwnAppenders, Goto, CoreInv, TypeOK
      <4>2. got'[w] = m_appenders[msg[w].logger]
        BY <3>3, <4>1 DEF OwnAppenders, CoreInv, TypeOK
      <4>3. QED BY <2>2, <4>1, <4>2 DEF LossInv, RootInv
    <3>4. CASE RootAppenders(w)
      <4>1. msg[w] \in [logger : Loggers, level : Levels]
        BY <3>4 DEF RootAppenders, CoreInv, PlaceInv
      <4>2. msg[w].level >= m_level[Root]
        <5>1. msg[w].level \in Levels
          BY <4>1
        <5>2. msg[w].level \in Nat \ {0}
          BY <5>1, ConfigAssumption
        <5>3. QED BY <5>2 DEF LossInv, RootInv
      <4>3. got'[w] = m_appenders[Root]
        BY <3>4, <4>2 DEF RootAppenders, CoreInv, TypeOK
      <4>4. QED BY <2>2, <4>3 DEF LossInv, RootInv
    <3>5. QED BY <3>2, <3>3, <3>4
  <2>3. QED BY <2>1, <2>2
<1>4. QED BY <1>2, <1>3 DEF LossInv, NotLost

\* Where the root is never rebuilt, whatever passes the level test of a logger is
\* written at least once, although any number of setters take the other loggers
\* apart and build them again meanwhile: the level, the appenders and the root's
\* are read in steps of their own.
THEOREM NothingLostWithoutRootText ==
  ASSUME NoRootText PROVE Spec => []NotLost
<1>1. Init => LossInv
  BY LossInit
<1>2. CoreInv /\ LossInv /\ [Next]_vars => LossInv'
  <2> SUFFICES ASSUME CoreInv, LossInv, [Next]_vars PROVE LossInv'
    OBVIOUS
  <2>1. CASE UNCHANGED vars
    BY <2>1 DEF LossInv, RootInv, NotLost, vars, confVars, setVars, callVars, logVars, msgVars
  <2>2. QED BY <2>1, LossInitStep, LossClear, LossSetStep, LossWriteStep DEF Next
<1>3. LossInv => NotLost
  BY DEF LossInv
<1>4. QED BY <1>1, <1>2, <1>3, CoreInvariant, PTL DEF Spec

-----------------------------------------------------------------------------
(***************************************************************************)
(* With texts that do define the root: messages are lost only there.       *)
(***************************************************************************)
OneSetter == \A r, s \in Setters : r = s

\* The appenders of a definition that the process gets.
Usable(appenders) == IF Daemon THEN appenders \ {"StdoutLogAppender"} ELSE appenders

\* A definition of the root gives it an appender.
RootTextsWrite ==
  \A text \in Texts :
    Root \in DOMAIN text => Usable(text[Root].appenders \cap AppenderTypes) # {}

\* The root has no appender only after its definition was removed, or until the
\* setter that rebuilds it has added one.
RootSilentInv ==
  m_appenders[Root] = {} =>
    \/ m_level[Root] = 0
    \/ \E s \in Setters :
         logger[s] = Root /\ (pc[s] = "clear" \/ Usable(left[s]) # {})

\* A setter that is about to take the root's appenders away has others for it, or
\* has set its level to 0; and where it adds appenders nothing else is left over.
RootSetterInv ==
  \A s \in Setters :
    /\ Root \in DOMAIN new[s] => Usable(new[s][Root].appenders) # {}
    /\ pc[s] = "clear" /\ logger[s] = Root /\ Root \notin DOMAIN new[s] => m_level[Root] = 0
    /\ pc[s] # "rebuild" => left[s] = {}

AtRootInv == RootSilentInv /\ RootSetterInv

LEMMA AtRootInit == ASSUME Init PROVE AtRootInv
<1>1. Root \notin DOMAIN NoDefs
  BY DEF NoDefs
<1>2. \A s \in Setters : pc[s] = "start" /\ new[s] = NoDefs /\ left[s] = {}
  BY DEF Init, Threads
<1>3. RootSetterInv
  BY <1>1, <1>2 DEF RootSetterInv
<1>4. m_appenders[Root] # {}
  BY DEF Init, Loggers
<1>5. QED BY <1>3, <1>4 DEF AtRootInv, RootSilentInv

\* Steps of initialisers and writers leave the root and the setters alone.
LEMMA AtRootKept ==
  ASSUME AtRootInv, UNCHANGED <<m_level, m_appenders, new, logger, left>>,
         \A s \in Setters : pc'[s] = pc[s]
  PROVE  AtRootInv'
<1>1. RootSilentInv'
  BY DEF AtRootInv, RootSilentInv
<1>2. RootSetterInv'
  BY DEF AtRootInv, RootSetterInv
<1>3. QED BY <1>1, <1>2 DEF AtRootInv

LEMMA AtRootOthers ==
  ASSUME CoreInv, AtRootInv,
         \/ \E l \in Listeners : InitStep(l)
         \/ \E v \in Vars : ClearListener(v)
         \/ \E w \in Writers : WriteStep(w)
  PROVE  AtRootInv'
<1>1. ASSUME NEW t \in Listeners \cup Writers, NEW p, pc' = [pc EXCEPT ![t] = p]
      PROVE  \A s \in Setters : pc'[s] = pc[s]
  BY <1>1, ConfigAssumption DEF CoreInv, TypeOK, Threads
<1>2. ASSUME NEW l \in Listeners, InitStep(l) PROVE AtRootInv'
  <2>1. UNCHANGED <<m_level, m_appenders, new, logger, left>> /\ \E p : pc' = [pc EXCEPT ![l] = p]
    BY <1>2 DEF InitStep, LookupFind, LookupCreate, GetValue, AddListener, DelListener, Goto,
                setVars, callVars, logVars
  <2>2. QED BY <1>1, <2>1, AtRootKept
<1>3. ASSUME NEW w \in Writers, WriteStep(w) PROVE AtRootInv'
  <2>1. UNCHANGED <<m_level, m_appenders, new, logger, left>> /\ \E p : pc' = [pc EXCEPT ![w] = p]
    BY <1>3 DEF WriteStep, LogMacro, TestLevel, OwnAppenders, RootAppenders, Written, Goto,
                setVars, callVars, logVars
  <2>2. QED BY <1>1, <2>1, AtRootKept
<1>4. ASSUME NEW v \in Vars, ClearListener(v) PROVE AtRootInv'
  <2>1. ToSet(m_cbs[v]) \subseteq Listeners
    BY DEF CoreInv, TypeOK, ToSet
  <2>2. \A s \in Setters : pc'[s] = pc[s]
    BY <1>4, <2>1, ConfigAssumption DEF ClearListener, Threads
  <2>3. UNCHANGED <<m_level, m_appenders, new, logger, left>>
    BY <1>4 DEF ClearListener, setVars, callVars, logVars
  <2>4. QED BY <2>2, <2>3, AtRootKept
<1>5. QED BY <1>2, <1>3, <1>4

\* The steps of the setter.
LEMMA AtRootSet ==
  ASSUME OneSetter, RootTextsWrite, CoreInv, AtRootInv, NEW s \in Setters, SetStep(s)
  PROVE  AtRootInv'
<1>0. /\ \A r \in Setters : r = s
      /\ pc \in [Threads -> {"start", "create", "found", "read", "listening", "gone", "set",
                         "notify", "rebuild", "clear", "store", "log", "own", "root", "done"}]
      /\ s \in Threads /\ Root \in Loggers /\ Nothing # Root
      /\ new \in [Setters -> Values] /\ left \in [Setters -> SUBSET AppenderTypes]
      /\ logger \in [Setters -> Loggers \cup {Nothing}]
      /\ m_level \in [Loggers -> {0} \cup Levels]
      /\ m_appenders \in [Loggers -> SUBSET AppenderTypes]
  BY ConfigAssumption DEF OneSetter, CoreInv, TypeOK, Threads, Loggers
<1>1. ASSUME NEW text \in Texts, Load(s, text) PROVE AtRootInv'
  <2>1. pc[s] = "start" /\ UNCHANGED <<m_level, m_appenders, logger, left>>
    BY <1>1 DEF Load, callVars, logVars
  <2>2. CASE UNCHANGED <<pc, new>>
    BY <2>1, <2>2, AtRootKept
  <2>3. CASE /\ ~Throws(text) /\ pc' = [pc EXCEPT ![s] = "set"]
             /\ new' = [new EXCEPT ![s] = FromStr(text)]
    <3>1. pc'[s] = "set" /\ new'[s] = FromStr(text)
      BY <1>0, <2>3
    <3>2. Root \in DOMAIN FromStr(text) => Usable(FromStr(text)[Root].appenders) # {}
      BY <2>3 DEF RootTextsWrite, FromStr
    <3>3. RootSetterInv'
      BY <1>0, <2>1, <3>1, <3>2 DEF AtRootInv, RootSetterInv
    <3>4. RootSilentInv'
      BY <1>0, <2>1, <3>1 DEF AtRootInv, RootSilentInv
    <3>5. QED BY <3>3, <3>4 DEF AtRootInv
  <2>4. QED BY <1>1, <2>2, <2>3 DEF Load, Goto
\* Steps between the rebuilds.
<1>2. ASSUME UNCHANGED <<m_level, m_appenders, left>>, left[s] = {}, pc[s] # "clear",
             pc'[s] # "clear",
             new'[s] = new[s] \/ Root \notin DOMAIN new'[s]
      PROVE  AtRootInv'
  <2>1. Usable(left[s]) = {}
    BY <1>2 DEF Usable
  <2>2. RootSilentInv'
    BY <1>0, <1>2, <2>1 DEF AtRootInv, RootSilentInv
  <2>3. RootSetterInv'
    BY <1>0, <1>2 DEF AtRootInv, RootSetterInv
  <2>4. QED BY <2>2, <2>3 DEF AtRootInv
<1>3. CASE SetValue(s) \/ Notify(s) \/ Rebuilt(s) \/ Unlock(s)
  <2>1. UNCHANGED <<m_level, m_appenders, left, new>>
    BY <1>3 DEF SetValue, Notify, Rebuilt, Unlock, setVars, callVars, logVars
  <2>2. left[s] = {}
    BY <1>0, <1>3 DEF SetValue, Notify, Rebuilt, Unlock, AtRootInv, RootSetterInv
  <2>3. pc[s] # "clear" /\ pc'[s] # "clear"
    BY <1>0, <1>3 DEF SetValue, Notify, Rebuilt, Unlock, Goto
  <2>4. QED BY <1>2, <2>1, <2>2, <2>3
<1>4. CASE Store(s)
  <2>1. UNCHANGED <<m_level, m_appenders, left>> /\ pc[s] = "store" /\ pc'[s] = "start"
    BY <1>0, <1>4 DEF Store, Goto, callVars, logVars
  <2>2. new'[s] = NoDefs /\ Root \notin DOMAIN NoDefs
    BY <1>0, <1>4 DEF Store, NoDefs
  <2>3. left[s] = {}
    BY <2>1 DEF AtRootInv, RootSetterInv
  <2>4. QED BY <1>2, <2>1, <2>2, <2>3
<1>5. ASSUME NEW n \in Loggers, SetLevel(s, n) PROVE AtRootInv'
  <2>1. /\ pc[s] = "rebuild" /\ pc'[s] = "clear" /\ left[s] = {} /\ logger'[s] = n
        /\ m_level' = [m_level EXCEPT ![n] = IF n \in DOMAIN new[s] THEN new[s][n].level ELSE 0]
        /\ UNCHANGED <<m_appenders, new, left>>
    BY <1>0, <1>5 DEF SetLevel, Goto, confVars, setVars
  <2>2. n # Root => m_level'[Root] = m_level[Root]
    BY <1>0, <2>1
  <2>3. n = Root /\ Root \notin DOMAIN new[s] => m_level'[Root] = 0
    BY <1>0, <2>1
  <2>4. RootSetterInv'
    BY <1>0, <2>1, <2>2, <2>3 DEF AtRootInv, RootSetterInv
  <2>5. RootSilentInv'
    <3>1. Usable(left[s]) = {}
      BY <2>1 DEF Usable
    <3>2. CASE n = Root
      BY <2>1, <3>2 DEF RootSilentInv
    <3>3. CASE n # Root
      <4>1. m_appenders[Root] = {} => m_level[Root] = 0
        BY <1>0, <2>1, <3>1 DEF AtRootInv, RootSilentInv
      <4>2. QED BY <2>1, <2>2, <3>3, <4>1 DEF RootSilentInv
    <3>4. QED BY <3>2, <3>3
  <2>6. QED BY <2>4, <2>5 DEF AtRootInv
<1>6. CASE ClearAppenders(s)
  <2>1. /\ pc[s] = "clear" /\ pc'[s] = "rebuild"
        /\ m_appenders' = [m_appenders EXCEPT ![logger[s]] = {}]
        /\ left'[s] = IF logger[s] \in DOMAIN new[s] THEN new[s][logger[s]].appenders ELSE {}
        /\ UNCHANGED <<m_level, new, logger>>
    BY <1>0, <1>6 DEF ClearAppenders, Goto, confVars, setVars
  <2>2. RootSetterInv'
    BY <1>0, <2>1 DEF AtRootInv, RootSetterInv
  <2>3. RootSilentInv'
    <3>1. CASE logger[s] = Root /\ Root \in DOMAIN new[s]
      <4>1. Usable(left'[s]) # {}
        BY <2>1, <3>1 DEF AtRootInv, RootSetterInv
      <4>2. QED BY <2>1, <3>1, <4>1 DEF RootSilentInv
    <3>2. CASE logger[s] = Root /\ Root \notin DOMAIN new[s]
      BY <2>1, <3>2 DEF AtRootInv, RootSetterInv, RootSilentInv
    <3>3. CASE logger[s] # Root
      <4>1. m_appenders'[Root] = m_appenders[Root]
        BY <1>0, <2>1, <3>3
      <4>2. m_appenders[Root] = {} => m_level[Root] = 0
        BY <1>0, <3>3 DEF AtRootInv, RootSilentInv
      <4>3. QED BY <2>1, <4>1, <4>2 DEF RootSilentInv
    <3>4. QED BY <3>1, <3>2, <3>3
  <2>4. QED BY <2>2, <2>3 DEF AtRootInv
<1>7. ASSUME NEW a \in AppenderTypes, AddAppender(s, a) PROVE AtRootInv'
  <2>1. /\ pc[s] = "rebuild" /\ a \in left[s] /\ left'[s] = left[s] \ {a}
        /\ UNCHANGED <<m_level, new, logger, pc>>
    BY <1>0, <1>7 DEF AddAppender, confVars, setVars
  <2>2. RootSetterInv'
    BY <1>0, <2>1 DEF AtRootInv, RootSetterInv
  <2>3. RootSilentInv'
    <3>1. CASE Daemon /\ a = "StdoutLogAppender"
      <4>1. m_appenders' = m_appenders
        BY <1>7, <3>1 DEF AddAppender
      <4>2. Usable(left'[s]) = Usable(left[s])
        BY <2>1, <3>1 DEF Usable
      <4>3. QED BY <1>0, <2>1, <4>1, <4>2 DEF AtRootInv, RootSilentInv
    <3>2. CASE ~(Daemon /\ a = "StdoutLogAppender")
      <4>1. m_appenders' = [m_appenders EXCEPT ![logger[s]] = @ \cup {a}]
        BY <1>7, <3>2 DEF AddAppender
      <4>2. CASE logger[s] = Root
        <5>1. m_appenders'[Root] # {}
          BY <1>0, <4>1, <4>2
        <5>2. QED BY <5>1 DEF RootSilentInv
      <4>3. CASE logger[s] # Root
        <5>1. m_appenders'[Root] = m_appenders[Root]
          BY <1>0, <4>1, <4>3
        <5>2. m_appenders[Root] = {} => m_level[Root] = 0
          BY <1>0, <4>3 DEF AtRootInv, RootSilentInv
        <5>3. QED BY <2>1, <5>1, <5>2 DEF RootSilentInv
      <4>4. QED BY <4>2, <4>3
    <3>3. QED BY <3>1, <3>2
  <2>4. QED BY <2>2, <2>3 DEF AtRootInv
<1>8. QED BY <1>1, <1>3, <1>4, <1>5, <1>6, <1>7 DEF SetStep

\* A writer that ends with nothing written asked the root in vain.
LEMMA LossAtRoot ==
  ASSUME CoreInv, AtRootInv, [Next]_vars, NEW w \in Writers,
         pc[w] # "done", pc'[w] = "done", got'[w] = {}
  PROVE  \/ msg[w].level < m_level[Root]
         \/ m_level[Root] = 0
         \/ \E s \in Setters : Rebuilding(s, Root)
<1>0. w \in Threads
  BY DEF Threads
<1>1. ASSUME m_appenders[Root] = {}
      PROVE  m_level[Root] = 0 \/ \E s \in Setters : Rebuilding(s, Root)
  <2>1. \A s \in Setters : left[s] = {} => Usable(left[s]) = {}
    BY DEF Usable
  <2>2. QED BY <1>1, <2>1 DEF AtRootInv, RootSilentInv, Rebuilding
<1>2. OwnAppenders(w) \/ RootAppenders(w)
  <2>1. ASSUME NEW t \in Threads, t # w, NEW p, pc' = [pc EXCEPT ![t] = p] PROVE FALSE
    BY <1>0, <2>1 DEF CoreInv, TypeOK
  <2>2. pc' # pc
    OBVIOUS
  <2>3. ASSUME NEW l \in Listeners, InitStep(l) PROVE FALSE
    <3>1. l \in Threads /\ l # w
      BY ConfigAssumption DEF Threads
    <3>2. \E p : pc' = [pc EXCEPT ![l] = p]
      BY <2>3 DEF InitStep, LookupFind, LookupCreate, GetValue, AddListener, DelListener, Goto
    <3>3. QED BY <2>1, <3>1, <3>2
  <2>4. ASSUME NEW s \in Setters, SetStep(s) PROVE FALSE
    <3>1. s \in Threads /\ s # w
      BY ConfigAssumption DEF Threads
    <3>2. pc' = pc \/ \E p : pc' = [pc EXCEPT ![s] = p]
      BY <2>4 DEF SetStep, Load, SetValue, Notify, SetLevel, ClearAppenders, AddAppender, Rebuilt,
             Unlock, Store, Goto
    <3>3. QED BY <2>1, <2>2, <3>1, <3>2
  <2>5. ASSUME NEW v \in Vars, ClearListener(v) PROVE FALSE
    BY <1>0, <2>5 DEF ClearListener
  <2>6. ASSUME NEW x \in Writers, x # w, WriteStep(x) PROVE FALSE
    <3>1. x \in Threads
      BY DEF Threads
    <3>2. \E p : pc' = [pc EXCEPT ![x] = p]
      BY <2>6 DEF WriteStep, LogMacro, TestLevel, OwnAppenders, RootAppenders, Written, Goto
    <3>3. QED BY <2>1, <2>6, <3>1, <3>2
  <2>7. CASE WriteStep(w)
    BY <1>0, <2>7 DEF WriteStep, LogMacro, TestLevel, Written, Goto, CoreInv, TypeOK
  <2>8. QED BY <2>2, <2>3, <2>4, <2>5, <2>6, <2>7 DEF Next, vars
<1>3. CASE OwnAppenders(w)
  <2>1. m_appenders[msg[w].logger] # {} \/ msg[w].logger = Root
    BY <1>0, <1>3 DEF OwnAppenders, Goto, CoreInv, TypeOK
  <2>2. got'[w] = m_appenders[msg[w].logger]
    BY <1>3, <2>1 DEF OwnAppenders, CoreInv, TypeOK
  <2>3. QED BY <1>1, <2>1, <2>2
<1>4. CASE RootAppenders(w)
  <2>1. got'[w] = IF msg[w].level >= m_level[Root] THEN m_appenders[Root] ELSE {}
    BY <1>4 DEF RootAppenders, CoreInv, TypeOK
  <2>2. msg[w].level \in Nat /\ m_level[Root] \in Nat
    <3>1. msg[w] \in [logger : Loggers, level : Levels]
      BY <1>4 DEF RootAppenders, CoreInv, PlaceInv
    <3>2. m_level[Root] \in {0} \cup Levels
      BY DEF CoreInv, TypeOK, Loggers
    <3>3. Levels \subseteq Nat
      BY ConfigAssumption
    <3>4. msg[w].level \in Levels
      BY <3>1
    <3>5. msg[w].level \in Nat
      BY <3>3, <3>4
    <3>6. m_level[Root] \in Nat
      <4>1. m_level[Root] = 0 \/ m_level[Root] \in Levels
        BY <3>2
      <4>2. CASE m_level[Root] = 0
        BY <4>2
      <4>3. CASE m_level[Root] \in Levels
        BY <4>3, <3>3
      <4>4. QED BY <4>1, <4>2, <4>3
    <3>7. QED BY <3>5, <3>6
  <2>3. QED BY <1>1, <2>1, <2>2
<1>5. QED BY <1>2, <1>3, <1>4

\* With one thread that loads, and definitions of the root, if there are any,
\* that give it an appender the process can use (as tests/logs.yml does), a
\* message that passed the level test is lost only at the root: filtered by the
\* root's level, or after the root's definition was removed, or while the
\* listener of LogIniter rebuilds the root.  Any number of threads may log.
THEOREM MessagesLostOnlyAtRoot ==
  ASSUME OneSetter, RootTextsWrite PROVE Spec => LostOnlyAtRoot
<1>1. Init => AtRootInv
  BY AtRootInit
<1>2. CoreInv /\ AtRootInv /\ [Next]_vars => AtRootInv'
  <2> SUFFICES ASSUME CoreInv, AtRootInv, [Next]_vars PROVE AtRootInv'
    OBVIOUS
  <2>1. CASE UNCHANGED vars
    BY <2>1, AtRootKept DEF vars, setVars, callVars, logVars
  <2>2. QED BY <2>1, AtRootOthers, AtRootSet DEF Next
<1>3. CoreInv /\ AtRootInv /\ [Next]_vars =>
        [\A w \in Writers :
           pc[w] # "done" /\ pc'[w] = "done" /\ got'[w] = {} =>
             \/ msg[w].level < m_level[Root]
             \/ m_level[Root] = 0
             \/ \E s \in Setters : Rebuilding(s, Root)]_vars
  BY LossAtRoot
<1>4. QED BY <1>1, <1>2, <1>3, CoreInvariant, PTL DEF Spec, LostOnlyAtRoot

-----------------------------------------------------------------------------
(***************************************************************************)
(* The listeners go by the stored value.                                   *)
(***************************************************************************)
LEMMA SyncInit == ASSUME Init PROVE SyncInv
<1>1. \A t \in Threads : pc[t] = "start"
  BY DEF Init
<1>2. QED BY <1>1 DEF SyncInv, OneVarInv, ToldInv, CallInv, InitPC, Threads

\* Steps that no listener and no variable sees.
LEMMA SyncKept ==
  ASSUME CoreInv, SyncInv, UNCHANGED <<datas, m_value, m_cbs, held, copy, new, var, cb>>,
         \A l \in Listeners : pc'[l] = pc[l],
         \A s \in Setters : \/ pc'[s] = pc[s]
                            \/ pc[s] \in {"rebuild", "clear"} /\ pc'[s] \in {"rebuild", "clear"}
  PROVE  SyncInv'
<1>1. \A s \in Setters, l \in Listeners : Told(s, l)' <=> Told(s, l)
  BY DEF Told, CallPC
<1>2. OneVarInv'
  BY DEF SyncInv, OneVarInv
<1>3. ToldInv'
  BY <1>1 DEF SyncInv, ToldInv
<1>4. CallInv'
  BY DEF SyncInv, CallInv
<1>5. QED BY <1>2, <1>3, <1>4 DEF SyncInv

\* As long as an initialiser is not done no load is under way.
LEMMA NoLoad ==
  ASSUME SyncInv, NEW l \in Listeners, pc[l] \notin {"listening", "gone"}
  PROVE  \A s \in Setters : pc[s] = "start" /\ \A k : ~Told(s, k)
BY DEF SyncInv, OneVarInv, Told, CallPC

\* Where an initialiser goes, and what the others and the setters do not see of it.
LEMMA InitPlaces ==
  ASSUME CoreInv, NEW l \in Listeners, NEW p, pc' = [pc EXCEPT ![l] = p]
  PROVE  /\ pc'[l] = p /\ \A k \in Listeners : k # l => pc'[k] = pc[k]
         /\ \A s \in Setters : pc'[s] = pc[s]
BY ConfigAssumption DEF CoreInv, TypeOK, Threads

LEMMA SyncFind ==
  ASSUME MainWaits, CoreInv, SyncInv, NEW l \in Listeners, LookupFind(l) PROVE SyncInv'
<1>0. /\ UNCHANGED <<datas, m_value, m_cbs, copy, new, var, cb>> /\ pc[l] = "start"
      /\ \A k \in Listeners \ {l} : pc[k] \notin InitPC
  BY DEF LookupFind, MayInit, setVars, callVars, InitPC
<1>1. PICK p \in {"found", "create"} : pc' = [pc EXCEPT ![l] = p]
  BY DEF LookupFind, Goto
<1>2. /\ pc'[l] = p /\ \A k \in Listeners : k # l => pc'[k] = pc[k] /\ held'[k] = held[k]
      /\ \A s \in Setters : pc'[s] = pc[s]
      /\ p = "create" => datas = Nothing
      /\ p = "found" => held'[l] = datas
  <2>1. /\ pc'[l] = p /\ \A k \in Listeners : k # l => pc'[k] = pc[k]
        /\ \A s \in Setters : pc'[s] = pc[s]
    BY <1>1, InitPlaces
  <2>2. CASE datas # Nothing
    <3>1. held' = [held EXCEPT ![l] = datas] /\ pc' = [pc EXCEPT ![l] = "found"]
      BY <2>2 DEF LookupFind, Goto
    <3>2. p = "found"
      BY <2>1, <3>1, InitPlaces
    <3>3. QED BY <2>1, <3>1, <3>2 DEF CoreInv, TypeOK
  <2>3. CASE datas = Nothing
    <3>1. held' = held /\ pc' = [pc EXCEPT ![l] = "create"]
      BY <2>3 DEF LookupFind, Goto
    <3>2. p = "create"
      BY <2>1, <3>1, InitPlaces
    <3>3. QED BY <2>1, <2>3, <3>1, <3>2
  <2>4. QED BY <2>2, <2>3
<1>3. \A s \in Setters : pc[s] = "start"
  BY <1>0, NoLoad
<1>4. OneVarInv'
  BY <1>0, <1>2, <1>3 DEF SyncInv, OneVarInv, InitPC
<1>5. \A s \in Setters, k \in Listeners : ~Told(s, k) /\ ~Told(s, k)'
  BY <1>2, <1>3 DEF Told, CallPC
<1>6. ToldInv' /\ CallInv'
  BY <1>0, <1>2, <1>3, <1>5 DEF SyncInv, ToldInv, CallInv
<1>7. QED BY <1>4, <1>6 DEF SyncInv

LEMMA SyncCreate ==
  ASSUME CoreInv, SyncInv, NEW l \in Listeners, LookupCreate(l) PROVE SyncInv'
<1>0. /\ UNCHANGED <<m_value, m_cbs, copy, new, var, cb>> /\ pc[l] = "create"
      /\ datas' = l /\ held' = [held EXCEPT ![l] = l] /\ pc' = [pc EXCEPT ![l] = "found"]
  BY DEF LookupCreate, Goto, setVars, callVars
<1>1. /\ pc'[l] = "found" /\ held'[l] = l /\ \A k \in Listeners : k # l => pc'[k] = pc[k]
      /\ \A s \in Setters : pc'[s] = pc[s]
  BY <1>0, InitPlaces DEF CoreInv, TypeOK
<1>2. \A s \in Setters : pc[s] = "start"
  BY <1>0, NoLoad
<1>3. \A k \in Listeners : k # l => pc[k] \in {"start", "gone"}
  <2>1. SUFFICES ASSUME NEW k \in Listeners, k # l PROVE pc[k] \in {"start", "gone"}
    OBVIOUS
  <2>2. pc[k] \notin InitPC
    BY <1>0, <2>1 DEF SyncInv, OneVarInv, InitPC
  <2>3. pc[k] = "listening" => held[k] = Nothing /\ held[k] \in Listeners
    BY <1>0 DEF SyncInv, OneVarInv, CoreInv, PlaceInv, Vars
  <2>4. pc[k] # "listening"
    BY <2>3, ConfigAssumption DEF Threads
  <2>5. QED BY <2>2, <2>4 DEF CoreInv, PlaceInv
<1>4. OneVarInv'
  BY <1>0, <1>1, <1>2, <1>3 DEF OneVarInv, InitPC
<1>5. ToldInv' /\ CallInv'
  BY <1>1, <1>2, <1>3 DEF ToldInv, CallInv
<1>6. QED BY <1>4, <1>5 DEF SyncInv

LEMMA SyncGet ==
  ASSUME CoreInv, SyncInv, NEW l \in Listeners, GetValue(l) PROVE SyncInv'
<1>0. /\ UNCHANGED <<datas, m_value, m_cbs, held, new, var, cb>> /\ pc[l] = "found"
      /\ copy' = [copy EXCEPT ![l] = m_value[held[l]]] /\ pc' = [pc EXCEPT ![l] = "read"]
  BY DEF GetValue, Goto, setVars, callVars
<1>1. /\ pc'[l] = "read" /\ \A k \in Listeners : k # l => pc'[k] = pc[k] /\ copy'[k] = copy[k]
      /\ \A s \in Setters : pc'[s] = pc[s]
  BY <1>0, InitPlaces DEF CoreInv, TypeOK
<1>2. \A s \in Setters : pc[s] = "start"
  BY <1>0, NoLoad
<1>3. held[l] = datas /\ copy'[l] = m_value[datas]
  BY <1>0 DEF SyncInv, OneVarInv, CoreInv, TypeOK
<1>4. OneVarInv'
  BY <1>0, <1>1, <1>2 DEF SyncInv, OneVarInv, InitPC
<1>5. \A s \in Setters, k \in Listeners : ~Told(s, k) /\ ~Told(s, k)'
  BY <1>1, <1>2 DEF Told, CallPC
<1>6. ToldInv' /\ CallInv'
  BY <1>0, <1>1, <1>2, <1>3, <1>5 DEF SyncInv, ToldInv, CallInv
<1>7. QED BY <1>4, <1>6 DEF SyncInv

LEMMA SyncAdd ==
  ASSUME CoreInv, SyncInv, NEW l \in Listeners, AddListener(l) PROVE SyncInv'
<1>0. /\ UNCHANGED <<datas, m_value, held, copy, new, var, cb>> /\ pc[l] = "read"
      /\ m_cbs' = [m_cbs EXCEPT ![held[l]] = Append(@, l)] /\ pc' = [pc EXCEPT ![l] = "listening"]
  BY DEF AddListener, Goto, setVars, callVars
<1>1. /\ pc'[l] = "listening" /\ \A k \in Listeners : k # l => pc'[k] = pc[k]
      /\ \A s \in Setters : pc'[s] = pc[s]
  BY <1>0, InitPlaces
<1>2. \A s \in Setters : pc[s] = "start"
  BY <1>0, NoLoad
<1>3. held[l] = datas /\ datas \in Vars
  BY <1>0 DEF SyncInv, OneVarInv, CoreInv, PlaceInv
<1>4. m_cbs'[datas] = Append(m_cbs[datas], l) /\ m_cbs[datas] \in Seq(Listeners)
  BY <1>0, <1>3 DEF CoreInv, TypeOK
<1>5. /\ \A i \in DOMAIN m_cbs[datas] : i \in DOMAIN m_cbs'[datas] /\ m_cbs'[datas][i] = m_cbs[datas][i]
      /\ Len(m_cbs[datas]) + 1 \in DOMAIN m_cbs'[datas]
      /\ m_cbs'[datas][Len(m_cbs[datas]) + 1] = l
  BY <1>4
<1>6. \A k \in Listeners : pc'[k] = "listening" => \E i \in DOMAIN m_cbs'[datas] : m_cbs'[datas][i] = k
  BY <1>1, <1>5 DEF SyncInv, OneVarInv
<1>7. OneVarInv'
  BY <1>0, <1>1, <1>2, <1>3, <1>6 DEF SyncInv, OneVarInv, InitPC
<1>8. \A s \in Setters, k \in Listeners : ~Told(s, k) /\ ~Told(s, k)'
  BY <1>1, <1>2 DEF Told, CallPC
<1>9. ToldInv' /\ CallInv'
  BY <1>0, <1>1, <1>2, <1>8 DEF SyncInv, ToldInv, CallInv
<1>10. QED BY <1>7, <1>9 DEF SyncInv

LEMMA SyncDel ==
  ASSUME CoreInv, SyncInv, NEW l \in Listeners, DelListener(l) PROVE SyncInv'
<1>0. /\ UNCHANGED <<datas, m_value, held, copy, new, var, cb>> /\ pc[l] = "listening"
      /\ Unread(held[l]) /\ pc' = [pc EXCEPT ![l] = "gone"]
  BY DEF DelListener, Goto, setVars, callVars
<1>1. /\ pc'[l] = "gone" /\ \A k \in Listeners : k # l => pc'[k] = pc[k]
      /\ \A s \in Setters : pc'[s] = pc[s]
  BY <1>0, InitPlaces
<1>2. held[l] = datas /\ datas \in Vars
  BY <1>0 DEF SyncInv, OneVarInv, CoreInv, PlaceInv
<1>3. \A s \in Setters : pc[s] \notin CallPC
  BY <1>0, <1>2 DEF Unread, CallPC, SyncInv, OneVarInv
<1>4. PICK i \in DOMAIN m_cbs[datas] :
        m_cbs[datas][i] = l /\ m_cbs' = [m_cbs EXCEPT ![datas] = RemoveAt(@, i)]
  BY <1>2 DEF DelListener
<1>5. m_cbs'[datas] = RemoveAt(m_cbs[datas], i) /\ m_cbs[datas] \in Seq(Listeners)
  BY <1>2, <1>4 DEF CoreInv, TypeOK
<1>6. ASSUME NEW k \in Listeners, pc'[k] = "listening"
      PROVE  \E j \in DOMAIN m_cbs'[datas] : m_cbs'[datas][j] = k
  <2>1. k # l /\ pc[k] = "listening"
    BY <1>1, <1>6
  <2>2. PICK j \in DOMAIN m_cbs[datas] : m_cbs[datas][j] = k
    BY <2>1 DEF SyncInv, OneVarInv
  <2>3. j # i
    BY <1>4, <2>1, <2>2
  <2>4. QED BY <1>5, <2>2, <2>3, Removed
<1>7. OneVarInv'
  BY <1>0, <1>1, <1>6 DEF SyncInv, OneVarInv, InitPC
<1>8. \A s \in Setters, k \in Listeners : Told(s, k)' <=> Told(s, k)
  BY <1>1, <1>3 DEF Told
<1>9. ToldInv' /\ CallInv'
  BY <1>0, <1>1, <1>3, <1>8 DEF SyncInv, ToldInv, CallInv, CallPC
<1>10. QED BY <1>7, <1>9 DEF SyncInv

LEMMA SyncClear ==
  ASSUME CoreInv, SyncInv, NEW v \in Vars, ClearListener(v) PROVE SyncInv'
<1>0. /\ UNCHANGED <<datas, m_value, held, copy, new, var, cb>> /\ Unread(v)
      /\ m_cbs' = [m_cbs EXCEPT ![v] = <<>>]
      /\ pc' = [t \in Threads |-> IF t \in ToSet(m_cbs[v]) THEN "gone" ELSE pc[t]]
  BY DEF ClearListener, setVars, callVars
<1>1. ToSet(m_cbs[v]) \subseteq Listeners
  BY DEF CoreInv, TypeOK, ToSet
<1>2. /\ \A k \in Listeners : pc'[k] = "gone" \/ (pc'[k] = pc[k] /\ k \notin ToSet(m_cbs[v]))
      /\ \A s \in Setters : pc'[s] = pc[s]
  BY <1>0, <1>1, ConfigAssumption DEF Threads
<1>3. \A s \in Setters : pc[s] \in CallPC => datas # v
  BY <1>0 DEF Unread, CallPC, SyncInv, OneVarInv
<1>4. datas # v /\ datas \in Vars => m_cbs'[datas] = m_cbs[datas]
  BY <1>0 DEF CoreInv, TypeOK
<1>5. ASSUME NEW k \in Listeners, pc'[k] = "listening"
      PROVE  \E j \in DOMAIN m_cbs'[datas] : m_cbs'[datas][j] = k
  <2>1. pc[k] = "listening" /\ k \notin ToSet(m_cbs[v])
    BY <1>2, <1>5
  <2>2. PICK j \in DOMAIN m_cbs[datas] : m_cbs[datas][j] = k
    BY <2>1 DEF SyncInv, OneVarInv
  <2>3. datas # v /\ datas \in Vars
    BY <2>1, <2>2 DEF ToSet, SyncInv, OneVarInv, CoreInv, PlaceInv
  <2>4. QED BY <1>4, <2>2, <2>3
<1>6. OneVarInv'
  BY <1>0, <1>2, <1>5 DEF SyncInv, OneVarInv, InitPC
<1>7. \A s \in Setters : pc[s] \in CallPC => m_cbs'[datas] = m_cbs[datas]
  BY <1>3, <1>4 DEF SyncInv, OneVarInv, CoreInv, PlaceInv, CallPC
<1>8. \A s \in Setters, k \in Listeners : Told(s, k)' <=> Told(s, k)
  BY <1>0, <1>2, <1>7 DEF Told
<1>9. ToldInv'
  BY <1>0, <1>2, <1>8 DEF SyncInv, ToldInv
<1>10. CallInv'
  BY <1>0, <1>2, <1>7 DEF SyncInv, CallInv, CallPC
<1>11. QED BY <1>6, <1>9, <1>10 DEF SyncInv

\* The step of the one setter: where it goes, and what the listeners see of it.
LEMMA SetPlaces ==
  ASSUME OneSetter, CoreInv, NEW s \in Setters, NEW p, pc' = [pc EXCEPT ![s] = p]
  PROVE  /\ \A r \in Setters : r = s /\ pc'[r] = p
         /\ \A l \in Listeners : pc'[l] = pc[l]
BY ConfigAssumption DEF OneSetter, CoreInv, TypeOK, Threads

LEMMA SyncLoad ==
  ASSUME MainWaits, OneSetter, CoreInv, SyncInv, NEW s \in Setters, NEW text \in Texts,
         Load(s, text)
  PROVE  SyncInv'
<1>0. /\ UNCHANGED <<datas, m_value, m_cbs, held, copy, cb>> /\ pc[s] = "start"
      /\ \A l \in Listeners : pc[l] \in {"listening", "gone"}
  BY DEF Load, Started, confVars, callVars
<1>1. CASE UNCHANGED <<pc, new, var>>
  BY <1>0, <1>1, SyncKept
<1>2. CASE pc' = [pc EXCEPT ![s] = "set"] /\ var' = [var EXCEPT ![s] = datas]
  <2>1. /\ \A r \in Setters : r = s /\ pc'[r] = "set" /\ var'[r] = datas
        /\ \A l \in Listeners : pc'[l] = pc[l]
    <3>1. /\ \A r \in Setters : r = s /\ pc'[r] = "set"
          /\ \A l \in Listeners : pc'[l] = pc[l]
      BY <1>2, SetPlaces
    <3>2. var'[s] = datas
      BY <1>2 DEF CoreInv, TypeOK
    <3>3. QED BY <3>1, <3>2
  <2>2. \A r \in Setters, l \in Listeners : ~Told(r, l) /\ ~Told(r, l)'
    BY <1>0, <2>1 DEF Told, CallPC
  <2>3. OneVarInv'
    BY <1>0, <2>1 DEF SyncInv, OneVarInv
  <2>4. ToldInv' /\ CallInv'
    BY <1>0, <2>1, <2>2 DEF SyncInv, ToldInv, CallInv
  <2>5. QED BY <2>3, <2>4 DEF SyncInv
<1>3. QED BY <1>1, <1>2 DEF Load, Goto

LEMMA SyncSet ==
  ASSUME OneSetter, CoreInv, SyncInv, NEW s \in Setters, SetValue(s) PROVE SyncInv'
<1>0. UNCHANGED <<datas, m_value, m_cbs, held, copy, new, var>> /\ pc[s] = "set"
  BY DEF SetValue, confVars, setVars
<1>1. PICK p \in {"start", "notify"} :
        pc' = [pc EXCEPT ![s] = p] /\ (p = "notify" => cb' = [cb EXCEPT ![s] = 1])
  BY DEF SetValue, Goto
<1>2. /\ \A r \in Setters : r = s /\ pc'[r] = p
      /\ \A l \in Listeners : pc'[l] = pc[l]
      /\ p = "notify" => cb'[s] = 1
  BY <1>1, SetPlaces DEF CoreInv, TypeOK
<1>3. ASSUME NEW r \in Setters, NEW l \in Listeners PROVE ~Told(r, l) /\ ~Told(r, l)'
  <2>1. ~Told(r, l)
    BY <1>0, <1>2 DEF Told, CallPC
  <2>2. ASSUME p = "notify", NEW i \in DOMAIN m_cbs[datas], i < 1 PROVE FALSE
    <3>1. datas \in Vars
      BY <1>0 DEF SyncInv, OneVarInv, CoreInv, PlaceInv
    <3>2. m_cbs[datas] \in Seq(Listeners)
      BY <3>1 DEF CoreInv, TypeOK
    <3>3. QED BY <2>2, <3>2
  <2>3. ~Told(r, l)'
    BY <1>0, <1>2, <2>2 DEF Told, CallPC
  <2>4. QED BY <2>1, <2>3
<1>4. OneVarInv'
  BY <1>0, <1>2 DEF SyncInv, OneVarInv
<1>5. ToldInv' /\ CallInv'
  BY <1>0, <1>2, <1>3 DEF SyncInv, ToldInv, CallInv
<1>6. QED BY <1>4, <1>5 DEF SyncInv

\* Where a setter in the loop over the listeners is.
LEMMA CallFacts ==
  ASSUME CoreInv, SyncInv, NEW s \in Setters, pc[s] \in CallPC
  PROVE  /\ datas \in Vars /\ var[s] = datas /\ m_cbs[datas] \in Seq(Listeners)
         /\ Len(m_cbs[datas]) \in Nat /\ DOMAIN m_cbs[datas] = 1..Len(m_cbs[datas])
         /\ cb[s] \in Nat /\ cb[s] >= 1
         /\ \A l \in Listeners : pc[l] \in {"listening", "gone"}
<1>1. /\ datas \in Vars /\ var[s] = datas /\ cb[s] >= 1
      /\ \A l \in Listeners : pc[l] \in {"listening", "gone"}
  BY DEF SyncInv, OneVarInv, CoreInv, PlaceInv, CallPC
<1>2. m_cbs[datas] \in Seq(Listeners) /\ cb[s] \in Nat
  BY <1>1 DEF CoreInv, TypeOK
<1>3. QED BY <1>1, <1>2

\* One more listener is called.
LEMMA ToldNext ==
  ASSUME CoreInv, SyncInv, NEW s \in Setters, pc[s] \in CallPC, pc'[s] \in CallPC,
         cb[s] \in DOMAIN m_cbs[datas], cb' = [cb EXCEPT ![s] = @ + 1],
         UNCHANGED <<datas, m_cbs>>, NEW l \in Listeners
  PROVE  Told(s, l)' <=> Told(s, l) \/ l = m_cbs[datas][cb[s]]
<1>1. cb'[s] = cb[s] + 1
  BY DEF CoreInv, TypeOK
<1>2. \A i \in DOMAIN m_cbs[datas] : i < cb[s] + 1 <=> i < cb[s] \/ i = cb[s]
  BY CallFacts
<1>3. Told(s, l)' <=> \E i \in DOMAIN m_cbs[datas] : i < cb[s] + 1 /\ m_cbs[datas][i] = l
  BY <1>1 DEF Told, CallPC
<1>4. Told(s, l) <=> \E i \in DOMAIN m_cbs[datas] : i < cb[s] /\ m_cbs[datas][i] = l
  BY DEF Told, CallPC
<1>5. QED BY <1>2, <1>3, <1>4

LEMMA SyncNotify ==
  ASSUME OneSetter, CoreInv, SyncInv, NEW s \in Setters, Notify(s) PROVE SyncInv'
<1>0. /\ UNCHANGED <<datas, m_value, m_cbs, held, new, var>> /\ pc[s] = "notify"
      /\ cb[s] <= Len(m_cbs[var[s]])
  BY DEF Notify, setVars
<1>1. /\ datas \in Vars /\ var[s] = datas /\ m_cbs[datas] \in Seq(Listeners)
      /\ cb[s] \in Nat /\ cb[s] >= 1 /\ \A l \in Listeners : pc[l] \in {"listening", "gone"}
  BY <1>0, CallFacts DEF CallPC
<1> DEFINE k == m_cbs[datas][cb[s]]
<1>2. cb[s] \in DOMAIN m_cbs[datas] /\ k \in Listeners
  BY <1>0, <1>1
<1>3. CASE k = LogIniter
  <2>1. pc' = [pc EXCEPT ![s] = "rebuild"] /\ copy' = copy /\ cb' = cb
    BY <1>1, <1>3 DEF Notify, Goto
  <2>2. /\ \A r \in Setters : r = s /\ pc'[r] = "rebuild"
        /\ \A l \in Listeners : pc'[l] = pc[l]
    BY <2>1, SetPlaces
  <2>3. \A r \in Setters, l \in Listeners : Told(r, l)' <=> Told(r, l)
    BY <1>0, <2>1, <2>2 DEF Told, CallPC
  <2>4. OneVarInv'
    BY <1>0, <1>1, <2>2 DEF SyncInv, OneVarInv
  <2>5. ToldInv'
    BY <1>0, <2>1, <2>2, <2>3 DEF SyncInv, ToldInv
  <2>6. CallInv'
    BY <1>0, <1>2, <1>3, <2>1, <2>2 DEF CallInv
  <2>7. QED BY <2>4, <2>5, <2>6 DEF SyncInv
<1>4. CASE k # LogIniter
  <2>1. /\ copy' = [copy EXCEPT ![k] = new[s]] /\ cb' = [cb EXCEPT ![s] = @ + 1]
        /\ pc' = pc
    BY <1>1, <1>4 DEF Notify
  <2>2. copy'[k] = new[s] /\ \A l \in Listeners : l # k => copy'[l] = copy[l]
    BY <1>2, <2>1 DEF CoreInv, TypeOK
  <2>3. \A l \in Listeners : Told(s, l)' <=> Told(s, l) \/ l = k
    BY <1>0, <1>2, <2>1, ToldNext DEF CallPC
  <2>4. \A r \in Setters : r = s
    BY DEF OneSetter
  <2> HIDE DEF k
  <2>5. OneVarInv'
    BY <1>0, <2>1 DEF SyncInv, OneVarInv
  <2>6. ToldInv'
    BY <1>0, <2>1, <2>2, <2>3, <2>4 DEF SyncInv, ToldInv
  <2>7. CallInv'
    BY <1>0, <2>1, <2>4 DEF CallInv
  <2>8. QED BY <2>5, <2>6, <2>7 DEF SyncInv
<1>5. QED BY <1>3, <1>4

LEMMA SyncRebuilt ==
  ASSUME OneSetter, CoreInv, SyncInv, NEW s \in Setters, Rebuilt(s) PROVE SyncInv'
<1>0. /\ UNCHANGED <<datas, m_value, m_cbs, held, copy, new, var>> /\ pc[s] = "rebuild"
      /\ pc' = [pc EXCEPT ![s] = "notify"] /\ cb' = [cb EXCEPT ![s] = @ + 1]
  BY DEF Rebuilt, Goto, confVars, setVars
<1>1. /\ \A r \in Setters : r = s /\ pc'[r] = "notify"
      /\ \A l \in Listeners : pc'[l] = pc[l]
  BY <1>0, SetPlaces
<1>2. cb[s] \in DOMAIN m_cbs[datas] /\ m_cbs[datas][cb[s]] = LogIniter
  BY <1>0 DEF SyncInv, CallInv
<1>3. \A r \in Setters, l \in Listeners \ {LogIniter} : Told(r, l)' <=> Told(r, l)
  BY <1>0, <1>1, <1>2, ToldNext DEF CallPC
<1>4. OneVarInv'
  BY <1>0, <1>1 DEF SyncInv, OneVarInv
<1>5. ToldInv' /\ CallInv'
  BY <1>0, <1>1, <1>3 DEF SyncInv, ToldInv, CallInv
<1>6. QED BY <1>4, <1>5 DEF SyncInv

\* At the end of the loop every listener was called ...
LEMMA SyncUnlock ==
  ASSUME OneSetter, CoreInv, SyncInv, NEW s \in Setters, Unlock(s) PROVE SyncInv'
<1>0. /\ UNCHANGED <<datas, m_value, m_cbs, held, copy, new, var>> /\ pc[s] = "notify"
      /\ pc' = [pc EXCEPT ![s] = "store"] /\ cb[s] > Len(m_cbs[var[s]])
  BY DEF Unlock, Goto, confVars, setVars
<1>1. /\ \A r \in Setters : r = s /\ pc'[r] = "store"
      /\ \A l \in Listeners : pc'[l] = pc[l]
  BY <1>0, SetPlaces
<1>2. /\ var[s] = datas /\ DOMAIN m_cbs[datas] = 1..Len(m_cbs[datas]) /\ Len(m_cbs[datas]) \in Nat
      /\ cb[s] \in Nat /\ \A l \in Listeners : pc[l] \in {"listening", "gone"}
  BY <1>0, CallFacts DEF CallPC
<1>3. ASSUME NEW l \in Listeners \ {LogIniter}, pc[l] = "listening" PROVE copy[l] = new[s]
  <2>1. PICK i \in DOMAIN m_cbs[datas] : m_cbs[datas][i] = l
    BY <1>3 DEF SyncInv, OneVarInv
  <2>2. i < cb[s]
    BY <1>0, <1>2
  <2>3. Told(s, l)
    BY <1>0, <2>1, <2>2 DEF Told, CallPC
  <2>4. QED BY <1>3, <2>3 DEF SyncInv, ToldInv
<1>4. \A l \in Listeners : Told(s, l)'
  BY <1>1 DEF Told
<1>5. OneVarInv'
  BY <1>0, <1>1 DEF SyncInv, OneVarInv
<1>6. ToldInv' /\ CallInv'
  BY <1>0, <1>1, <1>2, <1>3, <1>4 DEF ToldInv, CallInv
<1>7. QED BY <1>5, <1>6 DEF SyncInv

\* ... and the value stored is the one it was called with.
LEMMA SyncStore ==
  ASSUME OneSetter, CoreInv, SyncInv, NEW s \in Setters, Store(s) PROVE SyncInv'
<1>0. /\ UNCHANGED <<datas, m_cbs, held, copy, cb>> /\ pc[s] = "store"
      /\ pc' = [pc EXCEPT ![s] = "start"] /\ m_value' = [m_value EXCEPT ![var[s]] = new[s]]
  BY DEF Store, Goto, callVars
<1>1. /\ \A r \in Setters : r = s /\ pc'[r] = "start"
      /\ \A l \in Listeners : pc'[l] = pc[l]
  BY <1>0, SetPlaces
<1>2. /\ var[s] = datas /\ var[s] \in Vars /\ \A l \in Listeners : pc[l] \in {"listening", "gone"}
  BY <1>0 DEF SyncInv, OneVarInv, CoreInv, PlaceInv
<1>3. m_value'[datas] = new[s]
  BY <1>0, <1>2 DEF CoreInv, TypeOK
<1>4. \A l \in Listeners \ {LogIniter} : pc[l] = "listening" => copy[l] = new[s]
  BY <1>0 DEF SyncInv, ToldInv, Told
<1>5. \A r \in Setters, l \in Listeners : ~Told(r, l)'
  BY <1>1 DEF Told, CallPC
<1>6. OneVarInv'
  BY <1>0, <1>1, <1>2 DEF SyncInv, OneVarInv
<1>7. ToldInv' /\ CallInv'
  BY <1>0, <1>1, <1>2, <1>3, <1>4, <1>5 DEF ToldInv, CallInv
<1>8. QED BY <1>6, <1>7 DEF SyncInv

LEMMA SyncRebuild ==
  ASSUME OneSetter, CoreInv, SyncInv, NEW s \in Setters,
         \/ \E n \in Loggers : SetLevel(s, n)
         \/ ClearAppenders(s)
         \/ \E a \in AppenderTypes : AddAppender(s, a)
  PROVE  SyncInv'
<1>1. UNCHANGED <<datas, m_value, m_cbs, held, copy, new, var, cb>>
  BY DEF SetLevel, ClearAppenders, AddAppender, confVars, setVars
<1>2. CASE \E n \in Loggers : SetLevel(s, n)
  <2>1. pc[s] = "rebuild" /\ pc' = [pc EXCEPT ![s] = "clear"]
    BY <1>2 DEF SetLevel, Goto
  <2>2. QED BY <1>1, <2>1, SetPlaces, SyncKept
<1>3. CASE ClearAppenders(s)
  <2>1. pc[s] = "clear" /\ pc' = [pc EXCEPT ![s] = "rebuild"]
    BY <1>3 DEF ClearAppenders, Goto
  <2>2. QED BY <1>1, <2>1, SetPlaces, SyncKept
<1>4. CASE \E a \in AppenderTypes : AddAppender(s, a)
  <2>1. pc' = pc
    BY <1>4 DEF AddAppender
  <2>2. QED BY <1>1, <2>1, SyncKept
<1>5. QED BY <1>2, <1>3, <1>4

LEMMA SyncWrite ==
  ASSUME CoreInv, SyncInv, NEW w \in Writers, WriteStep(w) PROVE SyncInv'
<1>1. UNCHANGED <<datas, m_value, m_cbs, held, copy, new, var, cb>>
  BY DEF WriteStep, LogMacro, TestLevel, OwnAppenders, RootAppenders, Written, confVars, setVars,
         callVars
<1>2. \E p : pc' = [pc EXCEPT ![w] = p]
  BY DEF WriteStep, LogMacro, TestLevel, OwnAppenders, RootAppenders, Written, Goto
<1>3. \A t \in Setters \cup Listeners : pc'[t] = pc[t]
  BY <1>2, ConfigAssumption DEF CoreInv, TypeOK, Threads
<1>4. QED BY <1>1, <1>3, SyncKept

\* Between two loads every listener goes by the value stored in the variable that
\* loads set, although setValue calls the listeners first and stores afterwards
\* under another lock, and Lookup looks and inserts under two.  It needs what the
\* programs of the repository have: listeners added by static initialisers, and
\* one thread that loads.
THEOREM ListenersFollow ==
  ASSUME MainWaits, OneSetter PROVE Spec => []ListenersInSync
<1>1. Init => SyncInv
  BY SyncInit
<1>2. CoreInv /\ SyncInv /\ [Next]_vars => SyncInv'
  <2> SUFFICES ASSUME CoreInv, SyncInv, [Next]_vars PROVE SyncInv'
    OBVIOUS
  <2>1. CASE UNCHANGED vars
    BY <2>1, SyncKept DEF vars, confVars, setVars, callVars
  <2>2. CASE \E l \in Listeners : InitStep(l)
    BY <2>2, SyncFind, SyncCreate, SyncGet, SyncAdd, SyncDel DEF InitStep
  <2>3. CASE \E v \in Vars : ClearListener(v)
    BY <2>3, SyncClear
  <2>4. CASE \E s \in Setters : SetStep(s)
    BY <2>4, SyncLoad, SyncSet, SyncNotify, SyncRebuild, SyncRebuilt, SyncUnlock, SyncStore
       DEF SetStep
  <2>5. CASE \E w \in Writers : WriteStep(w)
    BY <2>5, SyncWrite
  <2>6. QED BY <2>1, <2>2, <2>3, <2>4, <2>5 DEF Next
<1>3. SyncInv => ListenersInSync
  <2> SUFFICES ASSUME SyncInv, \A s \in Setters : pc[s] = "start",
                      NEW l \in Listeners \ {LogIniter}, pc[l] = "listening"
               PROVE  held[l] = datas /\ copy[l] = m_value[datas]
    BY DEF ListenersInSync
  <2>1. \A s \in Setters : ~Told(s, l)
    BY DEF Told, CallPC
  <2>2. QED BY <2>1 DEF SyncInv, OneVarInv, ToldInv
<1>4. QED BY <1>1, <1>2, <1>3, CoreInvariant, PTL DEF Spec
=============================================================================
