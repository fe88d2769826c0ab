------------------------------- MODULE Config -------------------------------
(***************************************************************************)
(* Config and ConfigVar (config.hpp, config.cpp) with their main user, the *)
(* loggers (log.cpp): threads look the variable up and listen to it,       *)
(* setters load new values for it, its listeners run, one of which         *)
(* (LogIniter) rebuilds the loggers step by step, and other threads log    *)
(* meanwhile.                                                              *)
(*                                                                         *)
(* The variable is "logs", a std::set<LogDefine> ordered by name: here a   *)
(* function from the names defined to their definitions.  A ConfigVar is   *)
(* an object: two threads that look a name up at the same time may make    *)
(* two of them.  The read lock of a ConfigVar is held over several steps,  *)
(* everything under a write lock or under the mutex of LoggerManager is    *)
(* one step.                                                               *)
(***************************************************************************)
EXTENDS Naturals, Sequences, SequencesExt

CONSTANTS
  Setters,     \* threads that call LoadFromYaml
  Listeners,   \* initialisers: Lookup, getValue, addListener
  LogIniter,   \* the one whose listener rebuilds the loggers
  Writers,     \* threads that log
  Names,       \* of loggers
  Root,        \* the name of the root logger
  Levels,      \* of messages and definitions: 1 is DEBUG; 0 is UNKNOW
  Texts,       \* what the YAML file may say of "logs"
  Daemon,      \* EnvMgr has("d"): no StdoutLogAppender
  MainWaits,   \* the listeners are static initialisers: one after the other,
               \* and before everything else
  MaxLoads,    \* bound on the loads
  Nothing

Threads == Setters \cup Listeners \cup Writers
Loggers == Names \cup {Root}

\* A text gives names, or Nothing where the name is missing, a level and a set of
\* appenders.
ASSUME ConfigAssumption ==
  /\ LogIniter \in Listeners /\ Nothing \notin Threads \cup Loggers
  /\ Setters \cap Listeners = {} /\ Setters \cap Writers = {} /\ Listeners \cap Writers = {}
  /\ Levels \subseteq Nat \ {0} /\ 1 \in Levels
  /\ \A text \in Texts : \A n \in DOMAIN text :
       n \in Loggers \cup {Nothing} /\ text[n].level \in {0} \cup Levels
  /\ Daemon \in BOOLEAN /\ MainWaits \in BOOLEAN
  /\ MaxLoads \in Nat

AppenderTypes == {"FileLogAppender", "StdoutLogAppender"}

\* A ConfigVar: the one made by this thread.
Vars == Listeners

VARIABLES
  datas,       \* Config::getDatas()["logs"], or Nothing
  m_value,     \* per ConfigVar
  m_cbs,       \* per ConfigVar, its listeners in the order of their ids
  held,        \* per listener, the ConfigVar it got
  copy,        \* per listener, the value it goes by
  pc,          \* per thread
  new,         \* per setter, the value it sets
  var,         \* per setter, the ConfigVar it sets
  cb,          \* per setter, the place in m_cbs of the listener it calls
  names,       \* per setter, the loggers LogIniter's listener has still to do
  logger,      \* per setter, the one it is at
  left,        \* per setter, the appenders it has still to get
  loads,
  m_level,     \* per logger
  m_appenders, \* per logger
  holder,      \* per logger, the thread that has its mutex
  msg,         \* per writer, its message
  got          \* per writer, the appenders that wrote it

confVars == <<datas, m_value, m_cbs, held, copy>>
setVars == <<new, var, loads>>
callVars == <<cb, names, logger, left>>
logVars == <<m_level, m_appenders, holder>>
msgVars == <<msg, got>>
vars == <<confVars, pc, setVars, callVars, logVars, msgVars>>

NoDefs == [n \in {} |-> Nothing]

\* The loggers: Logger::Logger, and LoggerManager::LoggerManager for the root.
Init ==
  /\ datas = Nothing
  /\ m_value = [v \in Vars |-> NoDefs]
  /\ m_cbs = [v \in Vars |-> <<>>]
  /\ held = [l \in Listeners |-> Nothing]
  /\ copy = [l \in Listeners |-> NoDefs]
  /\ pc = [t \in Threads |-> "start"]
  /\ new = [s \in Setters |-> NoDefs]
  /\ var = [s \in Setters |-> Nothing]
  /\ cb = [s \in Setters |-> 0]
  /\ names = [s \in Setters |-> {}]
  /\ logger = [s \in Setters |-> Nothing]
  /\ left = [s \in Setters |-> {}]
  /\ loads = 0
  /\ m_level = [n \in Loggers |-> 1]
  /\ m_appenders = [n \in Loggers |-> IF n = Root THEN {"StdoutLogAppender"} ELSE {}]
  /\ holder = [n \in Loggers |-> Nothing]
  /\ msg = [w \in Writers |-> Nothing]
  /\ got = [w \in Writers |-> {}]

Goto(t, to) == pc' = [pc EXCEPT ![t] = to]

-----------------------------------------------------------------------------
(***************************************************************************)
(* Initialisers.                                                           *)
(***************************************************************************)
Started == MainWaits => \A l \in Listeners : pc[l] \in {"listening", "gone"}

MayInit(l) == MainWaits => \A k \in Listeners \ {l} : pc[k] \in {"start", "listening", "gone"}

\* Config::Lookup(name, default): the search under the read lock ...
LookupFind(l) ==
  /\ pc[l] = "start" /\ MayInit(l)
  /\ IF datas # Nothing
     THEN held' = [held EXCEPT ![l] = datas] /\ Goto(l, "found")
     ELSE UNCHANGED held /\ Goto(l, "create")
  /\ UNCHANGED <<datas, m_value, m_cbs, copy, setVars, callVars, logVars, msgVars>>

\* ... and the new variable under the write lock, without another search.
LookupCreate(l) ==
  /\ pc[l] = "create"
  /\ datas' = l
  /\ held' = [held EXCEPT ![l] = l]
  /\ Goto(l, "found")
  /\ UNCHANGED <<m_value, m_cbs, copy, setVars, callVars, logVars, msgVars>>

\* getValue() ...
GetValue(l) ==
  /\ pc[l] = "found"
  /\ copy' = [copy EXCEPT ![l] = m_value[held[l]]]
  /\ Goto(l, "read")
  /\ UNCHANGED <<datas, m_value, m_cbs, held, setVars, callVars, logVars, msgVars>>

\* Nobody holds the read lock of ConfigVar v.
Unread(v) == \A s \in Setters : pc[s] \in {"notify", "rebuild", "clear"} => var[s] # v

\* ... and addListener.
AddListener(l) ==
  /\ pc[l] = "read"
  /\ Unread(held[l])
  /\ m_cbs' = [m_cbs EXCEPT ![held[l]] = Append(@, l)]
  /\ Goto(l, "listening")
  /\ UNCHANGED <<datas, m_value, held, copy, setVars, callVars, logVars, msgVars>>

DelListener(l) ==
  /\ pc[l] = "listening" /\ l # LogIniter /\ Started
  /\ Unread(held[l])
  /\ \E i \in DOMAIN m_cbs[held[l]] :
       /\ m_cbs[held[l]][i] = l
       /\ m_cbs' = [m_cbs EXCEPT ![held[l]] = RemoveAt(@, i)]
  /\ Goto(l, "gone")
  /\ UNCHANGED <<datas, m_value, held, copy, setVars, callVars, logVars, msgVars>>

ClearListener(v) ==
  /\ Started
  /\ m_cbs[v] # <<>> /\ Unread(v)
  /\ m_cbs' = [m_cbs EXCEPT ![v] = <<>>]
  /\ pc' = [t \in Threads |-> IF t \in ToSet(m_cbs[v]) THEN "gone" ELSE pc[t]]
  /\ UNCHANGED <<datas, m_value, held, copy, setVars, callVars, logVars, msgVars>>

-----------------------------------------------------------------------------
(***************************************************************************)
(* Setters.                                                                *)
(***************************************************************************)

\* LexicalCast from a string: appenders of another type are skipped; an entry
\* without a name throws, and nothing is set.
Throws(text) == Nothing \in DOMAIN text

FromStr(text) ==
  [n \in DOMAIN text |->
     [level |-> text[n].level, appenders |-> text[n].appenders \cap AppenderTypes]]

\* operator== of std::set<LogDefine>: LogDefine::operator== compares the
\* appenders with themselves.
Equal(u, v) ==
  /\ DOMAIN u = DOMAIN v
  /\ \A n \in DOMAIN u : u[n].level = v[n].level

\* LoadFromYaml: LookupBase, fromString ...
Load(s, text) ==
  /\ pc[s] = "start" /\ Started
  /\ loads < MaxLoads
  /\ loads' = loads + 1
  /\ IF datas = Nothing \/ Throws(text)
     THEN UNCHANGED <<pc, new, var>>
     ELSE /\ Goto(s, "set")
          /\ new' = [new EXCEPT ![s] = FromStr(text)]
          /\ var' = [var EXCEPT ![s] = datas]
  /\ UNCHANGED <<confVars, callVars, logVars, msgVars>>

\* Faulty variant: the listeners are called only when names come or go.
SetValue_Same(s) ==
  /\ pc[s] = "set"
  /\ IF DOMAIN m_value[var[s]] = DOMAIN new[s]
     THEN Goto(s, "store") /\ UNCHANGED cb
     ELSE Goto(s, "notify") /\ cb' = [cb EXCEPT ![s] = 1]
  /\ UNCHANGED <<confVars, setVars, names, logger, left, logVars, msgVars>>

\* ... and setValue: the comparison under the read lock, which is kept ...
SetValue(s) ==
  /\ pc[s] = "set"
  /\ IF Equal(m_value[var[s]], new[s])
     THEN Goto(s, "start") /\ UNCHANGED cb
     ELSE Goto(s, "notify") /\ cb' = [cb EXCEPT ![s] = 1]
  /\ UNCHANGED <<confVars, setVars, names, logger, left, logVars, msgVars>>

\* ... for the calls of the listeners, in the order of m_cbs, each with the
\* stored and the new value.  LogIniter's has work to do on the names that are
\* in one of the values only ...
Notify(s) ==
  /\ pc[s] = "notify" /\ cb[s] <= Len(m_cbs[var[s]])
  /\ LET l == m_cbs[var[s]][cb[s]]
         old == DOMAIN m_value[var[s]]
     IN  IF l = LogIniter
         THEN /\ names' = [names EXCEPT ![s] = (DOMAIN new[s] \ old) \cup (old \ DOMAIN new[s])]
              /\ Goto(s, "rebuild")
              /\ UNCHANGED <<copy, cb>>
         ELSE /\ copy' = [copy EXCEPT ![l] = new[s]]
              /\ cb' = [cb EXCEPT ![s] = @ + 1]
              /\ UNCHANGED <<names, pc>>
  /\ UNCHANGED <<datas, m_value, m_cbs, held, setVars, logger, left, logVars, msgVars>>

\* ... first the new ones, then those that are gone: the level ...
SetLevel(s, n) ==
  /\ pc[s] = "rebuild" /\ left[s] = {}
  /\ n \in names[s] /\ (n \in DOMAIN new[s] \/ names[s] \cap DOMAIN new[s] = {})
  /\ m_level' = [m_level EXCEPT ![n] = IF n \in DOMAIN new[s] THEN new[s][n].level ELSE 0]
  /\ names' = [names EXCEPT ![s] = @ \ {n}]
  /\ logger' = [logger EXCEPT ![s] = n]
  /\ Goto(s, "clear")
  /\ UNCHANGED <<confVars, setVars, cb, left, m_appenders, holder, msgVars>>

\* ... clearAppenders ...
ClearAppenders(s) ==
  /\ pc[s] = "clear" /\ holder[logger[s]] = Nothing
  /\ m_appenders' = [m_appenders EXCEPT ![logger[s]] = {}]
  /\ left' = [left EXCEPT ![s] = IF logger[s] \in DOMAIN new[s]
                                 THEN new[s][logger[s]].appenders ELSE {}]
  /\ Goto(s, "rebuild")
  /\ UNCHANGED <<confVars, setVars, cb, names, logger, m_level, holder, msgVars>>

\* ... and addAppender for those defined, in some order; a daemon has no stdout ...
AddAppender(s, a) ==
  /\ pc[s] = "rebuild" /\ a \in left[s]
  /\ IF Daemon /\ a = "StdoutLogAppender" THEN UNCHANGED m_appenders
     ELSE /\ holder[logger[s]] = Nothing
          /\ m_appenders' = [m_appenders EXCEPT ![logger[s]] = @ \cup {a}]
  /\ left' = [left EXCEPT ![s] = @ \ {a}]
  /\ UNCHANGED <<confVars, pc, setVars, cb, names, logger, m_level, holder, msgVars>>

\* ... until its listener returns.
Rebuilt(s) ==
  /\ pc[s] = "rebuild" /\ left[s] = {} /\ names[s] = {}
  /\ Goto(s, "notify")
  /\ cb' = [cb EXCEPT ![s] = @ + 1]
  /\ logger' = [logger EXCEPT ![s] = Nothing]
  /\ UNCHANGED <<confVars, setVars, names, left, logVars, msgVars>>

Unlock(s) ==
  /\ pc[s] = "notify" /\ cb[s] > Len(m_cbs[var[s]])
  /\ Goto(s, "store")
  /\ cb' = [cb EXCEPT ![s] = 0]
  /\ UNCHANGED <<confVars, setVars, names, logger, left, logVars, msgVars>>

\* ... and the store under the write lock.
Store(s) ==
  /\ pc[s] = "store"
  /\ Unread(var[s])
  /\ m_value' = [m_value EXCEPT ![var[s]] = new[s]]
  /\ Goto(s, "start")
  /\ new' = [new EXCEPT ![s] = NoDefs]
  /\ var' = [var EXCEPT ![s] = Nothing]
  /\ UNCHANGED <<datas, m_cbs, held, copy, loads, callVars, logVars, msgVars>>

-----------------------------------------------------------------------------
(***************************************************************************)
(* Writers.                                                                *)
(***************************************************************************)

\* The macro tests the level before the event is made ...
LogMacro(w, n, level) ==
  /\ pc[w] = "start" /\ Started
  /\ level >= m_level[n]
  /\ msg' = [msg EXCEPT ![w] = [logger |-> n, level |-> level]]
  /\ got' = [got EXCEPT ![w] = {}]
  /\ Goto(w, "log")
  /\ UNCHANGED <<confVars, setVars, callVars, logVars>>

\* ... and Logger::log once more.
TestLevel(w) ==
  /\ pc[w] = "log"
  /\ Goto(w, IF msg[w].level >= m_level[msg[w].logger] THEN "own" ELSE "start")
  /\ UNCHANGED <<confVars, setVars, callVars, logVars, msgVars>>

\* Faulty variant: a logger without appenders does not ask the root.
OwnAppenders_NoRoot(w) ==
  /\ pc[w] = "own"
  /\ holder[msg[w].logger] = Nothing
  /\ Goto(w, "done")
  /\ got' = [got EXCEPT ![w] = m_appenders[msg[w].logger]]
  /\ UNCHANGED <<confVars, setVars, callVars, logVars, msg>>

\* Under its mutex the logger hands the event to its appenders; if it has none
\* it goes to the root, with the mutex held.
OwnAppenders(w) ==
  LET n == msg[w].logger IN
    /\ pc[w] = "own"
    /\ holder[n] = Nothing
    /\ IF m_appenders[n] # {} \/ n = Root
       THEN /\ Goto(w, "done")
            /\ got' = [got EXCEPT ![w] = m_appenders[n]]
            /\ UNCHANGED holder
       ELSE /\ Goto(w, "root")
            /\ holder' = [holder EXCEPT ![n] = w]
            /\ UNCHANGED got
    /\ UNCHANGED <<confVars, setVars, callVars, m_level, m_appenders, msg>>

RootAppenders(w) ==
  /\ pc[w] = "root"
  /\ holder[Root] = Nothing
  /\ got' = [got EXCEPT ![w] = IF msg[w].level >= m_level[Root] THEN m_appenders[Root] ELSE {}]
  /\ holder' = [holder EXCEPT ![msg[w].logger] = Nothing]
  /\ Goto(w, "done")
  /\ UNCHANGED <<confVars, setVars, callVars, m_level, m_appenders, msg>>

Written(w) ==
  /\ pc[w] = "done"
  /\ Goto(w, "start")
  /\ msg' = [msg EXCEPT ![w] = Nothing]
  /\ got' = [got EXCEPT ![w] = {}]
  /\ UNCHANGED <<confVars, setVars, callVars, logVars>>

InitStep(l) ==
  \/ LookupFind(l)
  \/ LookupCreate(l)
  \/ GetValue(l)
  \/ AddListener(l)
  \/ DelListener(l)

SetStep(s) ==
  \/ \E text \in Texts : Load(s, text)
  \/ SetValue(s)
  \/ Notify(s)
  \/ \E n \in Loggers : SetLevel(s, n)
  \/ ClearAppenders(s)
  \/ \E a \in AppenderTypes : AddAppender(s, a)
  \/ Rebuilt(s)
  \/ Unlock(s)
  \/ Store(s)

WriteStep(w) ==
  \/ \E n \in Loggers, level \in Levels : LogMacro(w, n, level)
  \/ TestLevel(w)
  \/ OwnAppenders(w)
  \/ RootAppenders(w)
  \/ Written(w)

Next ==
  \/ \E l \in Listeners : InitStep(l)
  \/ \E v \in Vars : ClearListener(v)
  \/ \E s \in Setters : SetStep(s)
  \/ \E w \in Writers : WriteStep(w)

Spec == Init /\ [][Next]_vars

-----------------------------------------------------------------------------
(***************************************************************************)
(* Properties.                                                             *)
(***************************************************************************)
\* The values of the variable.
Values ==
  UNION {[S -> [level : {0} \cup Levels, appenders : SUBSET AppenderTypes]] :
           S \in SUBSET Loggers}

\* Types of the variables.
TypeOK ==
  /\ datas \in Vars \cup {Nothing}
  /\ m_value \in [Vars -> Values]
  /\ m_cbs \in [Vars -> Seq(Listeners)]
  /\ held \in [Listeners -> Vars \cup {Nothing}]
  /\ copy \in [Listeners -> Values]
  /\ pc \in [Threads -> {"start", "create", "found", "read", "listening", "gone", "set",
                         "notify", "rebuild", "clear", "store", "log", "own", "root", "done"}]
  /\ new \in [Setters -> Values]
  /\ var \in [Setters -> Vars \cup {Nothing}]
  /\ loads \in Nat
  /\ cb \in [Setters -> Nat]
  /\ names \in [Setters -> SUBSET Loggers]
  /\ logger \in [Setters -> Loggers \cup {Nothing}]
  /\ left \in [Setters -> SUBSET AppenderTypes]
  /\ m_level \in [Loggers -> {0} \cup Levels]
  /\ m_appenders \in [Loggers -> SUBSET AppenderTypes]
  /\ holder \in [Loggers -> Writers \cup {Nothing}]
  /\ msg \in [Writers -> [logger : Loggers, level : Levels] \cup {Nothing}]
  /\ got \in [Writers -> SUBSET AppenderTypes]

\* What hook.cpp relies on ("if the variable is changed by setValue or in
\* another way, s_connect_timeout changes at once"): whenever no load is under
\* way, every listener goes by the value of the variable that loads set.
ListenersInSync ==
  (\A s \in Setters : pc[s] = "start") =>
    \A l \in Listeners \ {LogIniter} :
      pc[l] = "listening" => held[l] = datas /\ copy[l] = m_value[datas]

\* Setter s is rebuilding logger n: it has set its level and has not yet taken
\* its old appenders away, or has some to add.
Rebuilding(s, n) == logger[s] = n /\ (pc[s] = "clear" \/ left[s] # {})

\* A message is never lost because its own logger is rebuilt, step by step and
\* without a lock that spans the steps: it is lost only at the root logger, if
\* that one's level is above the message's, if a load has removed the root's
\* definition (level 0, no appenders: also the messages of all other loggers
\* without appenders are lost then), or while the root itself is rebuilt.  The
\* texts are those that give the root, if they define it, as the repository's
\* logs.yml does, an appender the process can use.
LostOnlyAtRoot ==
  [][\A w \in Writers :
       pc[w] # "done" /\ pc'[w] = "done" /\ got'[w] = {} =>
         \/ msg[w].level < m_level[Root]
         \/ m_level[Root] = 0
         \/ \E s \in Setters : Rebuilding(s, Root)]_vars

\* No message is lost at all: what passes the level is written at least once.
\* It holds only while no text defines the root logger.
NotLost == \A w \in Writers : pc[w] = "done" => got[w] # {}

\* A logger that is in no definition any more is not used any more (the comment
\* on its level 0 in log.cpp).
RemovedIsUnused ==
  (\A s \in Setters : pc[s] = "start") =>
    \A n \in Names : m_level[n] = 0 /\ n \notin DOMAIN m_value[datas] =>
      \A level \in Levels : level < m_level[n]
=============================================================================
