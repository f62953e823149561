------------------------------- MODULE Upsert -------------------------------
(***************************************************************************)
(* INSERT, INSERT IGNORE and INSERT ... ON DUPLICATE KEY UPDATE of one     *)
(* table.  MySQL updates the row that any unique key of the table matches, *)
(* the keys tried in their order; PostgreSQL's ON CONFLICT names the       *)
(* columns of one unique index.  src/src/translator.rs has no schema to    *)
(* look at and infers the columns from the statement's text.               *)
(***************************************************************************)
EXTENDS Naturals, Sequences, SequencesExt

CONSTANTS Field,      \* columns of the table
          Lists,      \* lists of columns that statements name
          Keys,       \* its unique keys in MySQL's order: a sequence of sets of columns
          FieldValue, \* what columns hold
          Defaults,   \* what a table's columns may have as defaults
          MaxRows     \* bound: rows of the table

\* A column compares with itself: the value of an expression over columns, as
\* n + 1 or VALUES(n), in an ON DUPLICATE KEY UPDATE.
Expression == "expression"

ASSUME UpsertAssumption == /\ Keys \in Seq(SUBSET Field) /\ Keys # <<>>
                           /\ Lists \subseteq Seq(Field)
                           /\ \A columns \in Lists : IsInjective(columns) /\ columns # <<>>
                           /\ Defaults \subseteq [Field -> FieldValue] /\ "" \in FieldValue
                           /\ Expression \notin FieldValue

\* MySQL gives a text column without a default the empty text.
VARIABLES rows,   \* of the PostgreSQL table
          named,  \* whether the table's name is or ends in user_language, "none" if not created
          default \* of each column

upsertVars == <<rows, named, default>>

Row == [Field -> FieldValue]
UserLanguage == named = "user_language"

\* A statement: its columns and values in their order, how many rows of values
\* it has, whether its names are written as the table's, and the updates of
\* ON DUPLICATE KEY UPDATE, from columns to values.
Insert(op, columns, values, count, asCreated, updates) ==
  [op |-> op, columns |-> columns, values |-> values, count |-> count,
   asCreated |-> asCreated, updates |-> updates]

Conflicts(r, q, key) == \A c \in key : r[c] = q[c]
Matching(r, key) == {q \in rows : Conflicts(q, r, key)}
Clashes(r, others) == \E q \in others, i \in DOMAIN Keys : Conflicts(q, r, Keys[i])

\* The row of a list of columns and values; what is not listed has its default.
RowOf(columns, values) ==
  [c \in Field |-> IF Contains(columns, c)
                  THEN values[CHOOSE i \in DOMAIN columns : columns[i] = c] ELSE default[c]]

Updated(q, updates) == [c \in Field |-> IF c \in DOMAIN updates THEN updates[c] ELSE q[c]]

-----------------------------------------------------------------------------
(* MySQL: the rows after a statement, or that it is refused.  An expression *)
(* is not evaluated: the statements with one are refused by PostgreSQL.     *)

Replaced(q, updates) ==
  LET new == Updated(q, updates)
  IN  IF Clashes(new, rows \ {q}) THEN [ok |-> FALSE, rows |-> rows]
      ELSE [ok |-> TRUE, rows |-> (rows \ {q}) \cup {new}]

MySql(stmt) ==
  LET new     == RowOf(stmt.columns, stmt.values)
      matched == {i \in DOMAIN Keys : Matching(new, Keys[i]) # {}}
      first   == CHOOSE q \in Matching(new, Keys[Min(matched)]) : TRUE
  IN  IF matched = {} THEN [ok |-> TRUE, rows |-> rows \cup {new}]
      ELSE CASE stmt.op = "insert" -> [ok |-> FALSE, rows |-> rows]
             [] stmt.op = "ignore" -> [ok |-> TRUE, rows |-> rows]
             [] stmt.op = "upsert" -> Replaced(first, stmt.updates)

-----------------------------------------------------------------------------
(* The translation *)

NoInsert == [kind |-> "error", columns |-> <<>>, values |-> <<>>, target |-> {},
             updates |-> <<>>]

\* Whether the language is filled in.
Fills(columns) == UserLanguage /\ Contains(columns, "login") /\ ~Contains(columns, "language")

\* Mutant of InsertDefaults: the value goes to the front.
InsertDefaultsFirst(columns, values) ==
  IF Fills(columns) THEN <<Append(columns, "language"), <<"">> \o values>> ELSE <<columns, values>>

\* Mutant of InsertDefaults: the language is left empty by NULL.
InsertDefaultNull(columns, values) ==
  IF Fills(columns) THEN <<Append(columns, "language"), Append(values, "NULL")>> ELSE <<columns, values>>

\* A table of user languages is given the empty text for the language its clients
\* leave out, whatever the column's default and whether there is such a column.
InsertDefaults(columns, values) ==
  IF Fills(columns) THEN <<Append(columns, "language"), Append(values, "")>> ELSE <<columns, values>>

\* Mutant of ConflictTarget: the columns that are not updated are the key.
ConflictTargetOfRest(columns, updates) == ToSet(columns) \ DOMAIN updates

\* The columns of ON CONFLICT, {} if they cannot be inferred: the login of a
\* user's language, the only column, or the first one if it is not updated.
ConflictTarget(columns, updates) ==
  IF UserLanguage /\ Contains(columns, "login") THEN {"login"}
  ELSE IF Len(columns) = 1 \/ Head(columns) \notin DOMAIN updates THEN {Head(columns)} ELSE {}

\* Several rows of values do not split into as many values as columns.
TranslateUpsert(stmt) ==
  LET filled  == InsertDefaults(stmt.columns, stmt.values)
      target  == ConflictTarget(filled[1], stmt.updates)
  IN  IF stmt.count > 1 \/ stmt.columns = <<>> \/ target = {} THEN NoInsert
      ELSE [kind |-> "upsert", columns |-> filled[1], values |-> filled[2], target |-> target,
            updates |-> stmt.updates]

\* INSERT IGNORE becomes ON CONFLICT DO NOTHING, without a target.
TranslateInsert(stmt) ==
  [kind |-> IF stmt.op = "ignore" THEN "nothing" ELSE "insert", columns |-> stmt.columns,
   values |-> stmt.values, target |-> {}, updates |-> <<>>]

Translate(stmt) == IF stmt.op = "upsert" THEN TranslateUpsert(stmt) ELSE TranslateInsert(stmt)

-----------------------------------------------------------------------------
(* PostgreSQL *)

Unserved == [ok |-> FALSE, rows |-> rows]

\* ON CONFLICT (target) needs a unique index on the target, and looks at no
\* other: a row that another index matches is refused.
PgUpsert(text, new) ==
  LET found == Matching(new, text.target)
  IN  IF text.target \notin Range(Keys) \/ \E c \in DOMAIN text.updates : text.updates[c] = Expression
      THEN Unserved
      ELSE IF found # {} THEN Replaced(CHOOSE q \in found : TRUE, text.updates)
      ELSE IF Clashes(new, rows) THEN Unserved
      ELSE [ok |-> TRUE, rows |-> rows \cup {new}]

PgRuns(text) ==
  LET new == RowOf(text.columns, text.values)
  IN  IF ~(ToSet(text.columns) \subseteq Field) THEN Unserved
      ELSE IF text.kind = "upsert" THEN PgUpsert(text, new)
      ELSE IF ~Clashes(new, rows) THEN [ok |-> TRUE, rows |-> rows \cup {new}]
      ELSE IF text.kind = "nothing" THEN [ok |-> TRUE, rows |-> rows] ELSE Unserved

-----------------------------------------------------------------------------
(* Statements *)

\* The direct translation quotes names as they are written, a plain INSERT goes
\* through with names PostgreSQL folds.
Finds(stmt) == stmt.asCreated \/ stmt.op # "upsert"

Result(stmt) ==
  LET text == Translate(stmt)
  IN  IF text.kind = "error" \/ ~Finds(stmt) THEN Unserved ELSE PgRuns(text)

RunInsert(stmt) ==
  /\ named # "none"
  /\ Cardinality(Result(stmt).rows) <= MaxRows
  /\ rows' = Result(stmt).rows
  /\ UNCHANGED <<named, default>>

MakeTable(name, defaults) ==
  /\ named = "none"
  /\ named' = name
  /\ default' = defaults
  /\ UNCHANGED rows

UpsertInit == /\ rows = {}
              /\ named = "none"
              /\ default = [c \in Field |-> ""]

Filled == UNION {{<<columns, values>> : values \in [DOMAIN columns -> FieldValue]} : columns \in Lists}
Updates == {[x \in {c} |-> v] : c \in Field, v \in FieldValue \cup {Expression}}
InsertStatement ==
  {Insert(op, f[1], f[2], 1, TRUE, <<>>) : op \in {"insert", "ignore"}, f \in Filled}
    \cup {Insert("upsert", f[1], f[2], 1, TRUE, u) : f \in Filled, u \in Updates}
    \cup {Insert("upsert", f[1], f[2], 2, TRUE, u) : f \in Filled, u \in Updates}
    \cup {Insert("upsert", f[1], f[2], 1, FALSE, u) : f \in Filled, u \in Updates}

UpsertNext == \/ \E name \in {"user_language", "other"}, d \in Defaults : MakeTable(name, d)
              \/ \E stmt \in InsertStatement : RunInsert(stmt)

UpsertSpec == UpsertInit /\ [][UpsertNext]_upsertVars

-----------------------------------------------------------------------------
(* Properties *)

\* Type correctness: no two rows of the table have a key in common
\* (translate_insert_on_duplicate_key_direct).
UpsertTypeOK == /\ rows \subseteq Row /\ named \in {"none", "user_language", "other"}
                /\ default \in [Field -> FieldValue]
                /\ \A q \in rows : ~Clashes(q, rows \ {q})

\* The keys of a row that two rows of the table have between them.
MeetsTwoRows(stmt) ==
  LET new == RowOf(stmt.columns, stmt.values)
  IN  Cardinality({q \in rows : \E i \in DOMAIN Keys : Conflicts(q, new, Keys[i])}) > 1

\* The language that is filled in is the one the table's own default would give.
FilledAsDefault(stmt) ==
  stmt.op = "upsert" /\ Fills(stmt.columns) => "language" \in Field /\ default["language"] = ""

\* A statement that is served does what it does in MySQL, though the target is
\* guessed and the table's other keys are not looked at: what the guess gets
\* wrong PostgreSQL refuses.  Left out are a row that meets two others, where
\* MySQL updates the one its first key matches and PostgreSQL the target's, and a
\* language filled in that is not the column's default
\* (infer_on_conflict_target, apply_on_duplicate_insert_defaults).
ServedAsMySql ==
  named # "none" => \A stmt \in InsertStatement :
    /\ Result(stmt).ok /\ FilledAsDefault(stmt)
    /\ stmt.op = "upsert" => ~MeetsTwoRows(stmt)
    => Result(stmt) = MySql(stmt)

\* The statements the inference is made for are served when MySQL serves them:
\* of one row, whose first column is the table's first key and is not updated,
\* and which no other key matches but the row it updates; in a table of user
\* languages the login is that key, and the language is the empty text by default.
FirstKeyIsServed ==
  named # "none" => \A stmt \in InsertStatement :
    LET new == RowOf(stmt.columns, stmt.values)
    IN  /\ stmt.op = "upsert" /\ stmt.count = 1 /\ stmt.asCreated /\ FilledAsDefault(stmt)
        /\ Keys[1] = {Head(stmt.columns)} /\ Head(stmt.columns) \notin DOMAIN stmt.updates
        /\ UserLanguage /\ Contains(stmt.columns, "login") => Keys[1] = {"login"}
        /\ \A c \in DOMAIN stmt.updates : stmt.updates[c] # Expression
        /\ Matching(new, Keys[1]) # {} \/ ~Clashes(new, rows)
        => Result(stmt).ok = MySql(stmt).ok
=============================================================================
