-------------------------- MODULE SessionVariables --------------------------
(***************************************************************************)
(* The settings of a connection that the proxy keeps itself: what a SET,   *)
(* sent or prepared and executed, makes of them, and what a SELECT of one  *)
(* answers (src/src/mysql_server.rs).  PostgreSQL never hears of them.     *)
(*                                                                         *)
(* In MySqlFrontend they are one value; here is what each SET means.       *)
(***************************************************************************)
EXTENDS Naturals

CONSTANTS Mode,        \* values of sql_mode
          Level,       \* levels of isolation
          FirstMode,   \* of a new connection
          FirstLevel

ASSUME SettingsAssumption == FirstMode \in Mode /\ FirstLevel \in Level

Charset == {"utf8", "utf8mb3", "utf8mb4", "latin1"}

\* The character set a name of a collation begins with.
BeginsWith == [utf8_general_ci |-> "utf8", utf8mb3_general_ci |-> "utf8mb3",
               utf8mb4_general_ci |-> "utf8mb4", utf8mb4_bin |-> "utf8mb4"]

Collation == DOMAIN BeginsWith

Start == [charset |-> "utf8mb4", collation |-> "utf8mb4_general_ci",
          mode |-> FirstMode, isolation |-> FirstLevel]

Variable == {"collation", "mode", "isolation"}

\* The SETs the code knows.  once: SET TRANSACTION, without SESSION.
Sets == [form : {"names"}, charset : Charset, value : Collation \cup {"none", "default"} \cup Charset]
          \cup [form : {"collation"}, value : Collation]
          \cup [form : {"mode"}, value : Mode]
          \cup [form : {"isolation"}, value : Level, once : BOOLEAN]

\* SELECT @@scope.variable, alone or among other columns.
Selects == [variable : Variable, scope : {"none", "session", "global"}, alone : BOOLEAN]

VARIABLES backend,  \* session_charset, session_collation, session_sql_mode, transaction_isolation
          last      \* history: the last SET of each variable that was answered OK

settingVars == <<backend, last>>

Concerns(s) == IF s.form = "names" THEN "collation" ELSE s.form

Unset == [form |-> "start"]

-----------------------------------------------------------------------------
(* SET *)

NormalCharset(charset) == IF charset = "utf8mb3" THEN "utf8" ELSE charset

DefaultCollation == [utf8 |-> "utf8_general_ci", utf8mb4 |-> "utf8mb4_general_ci"]

\* A character set in place of a collation is its default.
NormalCollation(charset, value) ==
  IF value \in {"none", "default", "utf8", "utf8mb3", "utf8mb4"}
  THEN DefaultCollation[charset]
  ELSE value

CollationMatches(charset, collation) ==
  collation \in Collation /\ BeginsWith[collation] = charset

\* Mutant of SetNames: the collation is set before it is looked at.
SetNamesFirst(s) ==
  LET charset == NormalCharset(s.charset)
      known   == charset \in DOMAIN DefaultCollation
      collation == IF known THEN NormalCollation(charset, s.value) ELSE backend.collation
      accepted == known /\ CollationMatches(charset, collation)
  IN  /\ backend' = [backend EXCEPT !.charset = IF accepted THEN charset ELSE @,
                                    !.collation = IF collation \in Collation THEN collation ELSE @]
      /\ last' = IF accepted THEN [last EXCEPT !["collation"] = s] ELSE last

\* apply_set_names; an error changes neither.
SetNames(s) ==
  LET charset == NormalCharset(s.charset)
      collation == NormalCollation(charset, s.value)
      accepted == charset \in DOMAIN DefaultCollation /\ CollationMatches(charset, collation)
  IN  \/ /\ accepted
         /\ backend' = [backend EXCEPT !.charset = charset, !.collation = collation]
         /\ last' = [last EXCEPT !["collation"] = s]
      \/ /\ ~accepted
         /\ UNCHANGED settingVars

\* SET SESSION TRANSACTION and SET TRANSACTION alike.
SetValue(s) ==
  /\ backend' = [backend EXCEPT ![s.form] = s.value]
  /\ last' = [last EXCEPT ![s.form] = s]

\* SET COLLATION_CONNECTION is answered OK, and that is all.
SetNothing(s) ==
  /\ last' = [last EXCEPT ![Concerns(s)] = s]
  /\ UNCHANGED backend

SettingInit == backend = Start /\ last = [v \in Variable |-> Unset]

SettingNext ==
  \E s \in Sets :
    \/ s.form = "names" /\ SetNames(s)
    \/ s.form \in {"mode", "isolation"} /\ SetValue(s)
    \/ s.form = "collation" /\ SetNothing(s)

SettingSpec == SettingInit /\ [][SettingNext]_settingVars

-----------------------------------------------------------------------------
(* SELECT @@... *)

\* What the translator puts in place of a variable of a text.
CompatibilityLiteral(v) == Start[v]

\* A SELECT of a variable alone is answered with the setting, whatever its scope.
SelectAnswer(r) == IF r.alone THEN backend[r.variable] ELSE CompatibilityLiteral(r.variable)

-----------------------------------------------------------------------------
(* Properties *)

\* What MySQL has for a variable after a SET, in the names of the code.
MySqlValue(v, s) ==
  CASE s.form = "start" -> Start[v]
    [] s.form = "names" /\ s.value \in {"none", "default"} -> DefaultCollation[NormalCharset(s.charset)]
    [] OTHER -> s.value

\* Left out are SETs that MySQL takes otherwise: of the collation alone, of the
\* next transaction, and with a character set for a collation.
TakenAlike(s) ==
  /\ s.form # "collation"
  /\ s.form = "isolation" => ~s.once
  /\ s.form = "names" => s.value \notin Charset

\* A SELECT of a session variable by itself answers what the last SET of it that
\* was answered OK makes of it in MySQL, whatever was refused since, and the
\* collation is always one of the character set (handle_mysql_session_query,
\* apply_set_names, dynamic_canned_response_for_system_variable_select).
SettingsAsMySql ==
  /\ \A r \in Selects : r.alone /\ r.scope # "global" /\ TakenAlike(last[r.variable])
       => SelectAnswer(r) = MySqlValue(r.variable, last[r.variable])
  /\ CollationMatches(backend.charset, backend.collation)
=============================================================================
