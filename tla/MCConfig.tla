------------------------------ MODULE MCConfig ------------------------------
(***************************************************************************)
(* Instances of Config for TLC.                                            *)
(***************************************************************************)
EXTENDS Config, TLC

CONSTANTS n1, n2

File == "FileLogAppender"
Stdout == "StdoutLogAppender"

Def(level, appenders) == [level |-> level, appenders |-> appenders]

\* Definitions added, removed, changed in their level or in their appenders
\* only, without a level, without appenders, with an appender of unknown type; an
\* entry without a name; the root as in tests/logs.yml, and with a level of its own.
LogTexts ==
  {NoDefs,
   n1 :> Def(1, {File, Stdout}),
   n1 :> Def(2, {File}),
   n2 :> Def(2, {}) @@ n1 :> Def(1, {"Other", File}),
   n2 :> Def(0, {Stdout}),
   Nothing :> Def(1, {File}),
   Root :> Def(1, {Stdout, File}),
   Root :> Def(2, {File}) @@ n1 :> Def(1, {})}

\* The root logger is defined, and later is not.
RootTexts == {NoDefs, Root :> Def(1, {Stdout, File})}
=============================================================================
