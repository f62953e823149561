------------------------------ MODULE IndexDdl ------------------------------
(***************************************************************************)
(* The indexes of a client's tables under CREATE TABLE, ALTER TABLE and    *)
(* DROP TABLE.  In MySQL an index belongs to a table and its name is the   *)
(* table's own; in PostgreSQL it is a relation that shares one name space  *)
(* with the tables and indexes of its schema.  src/src/translator.rs gives *)
(* it a name made of both and turns one MySQL statement into several of    *)
(* PostgreSQL's, which src/src/mysql_server.rs runs as one text or, when   *)
(* the statement was prepared, piece by piece.                             *)
(*                                                                         *)
(* A name is a sequence of characters.  Columns are left out: a key is on  *)
(* one column, the same for all.  A primary key is one of CREATE TABLE.    *)
(***************************************************************************)
EXTENDS Naturals, Sequences, SequencesExt

CONSTANTS Schema,     \* databases, which are PostgreSQL schemas
          TableName,  \* names of tables, in lower case
          KeyLists,   \* what clients write in CREATE TABLE: lists of keys
          Changes,    \* what they write in ALTER TABLE: lists of additions and drops
          Anonymous,  \* the name of a key that was given none
          ColumnName, \* the column all keys are on, after which MySQL names those
          PublicSchema, \* the schema that ends every search_path
          MaxRelations, \* bound: relations of PostgreSQL
          Careful     \* clients drop only indexes they know to be there, in their database

\* What a key is on: c; c, with a USING or an option; c(10); anything else.
Form == {"column", "options", "prefix", "unsupported"}
\* Its name is written in the key's own place, or CONSTRAINT k, or CONSTRAINT `k`.
Symbol == {"none", "plain", "ticked"}

IsKey(key) ==
  /\ key.form \in Form /\ key.symbol \in Symbol
  /\ key.unique \in BOOLEAN /\ key.primary \in BOOLEAN
  /\ key.symbol # "none" => key.unique /\ key.name # Anonymous
  /\ key.primary => key.unique /\ key.form \in {"column", "options"}

ASSUME IndexAssumption ==
  /\ Careful \in BOOLEAN /\ MaxRelations \in Nat
  /\ \A name \in TableName \cup {ColumnName} : name \in Seq(Range(name))
  /\ \A list \in KeyLists :
       /\ list \in Seq(Range(list))
       /\ \A i \in DOMAIN list : IsKey(list[i])
  /\ \A ops \in Changes :
       /\ ops \in Seq(Range(ops))
       /\ \A i \in DOMAIN ops :
            /\ ops[i].op \in {"add", "drop"} /\ IsKey(ops[i].key) /\ ~ops[i].key.primary
            /\ ops[i].op = "drop" => ops[i].key.name # Anonymous

VARIABLES rels,   \* PostgreSQL: the relations, tables and indexes
          tables, \* tables the client knows of, by MySQL's rules
          keys,   \* keys it knows of, with the index that stands for each
          loose,  \* history: tables of a statement refused after some of it was applied, or skipped
          cur,    \* the client's database
          reply   \* the last statement and its answer

indexVars == <<rels, tables, keys, loose, cur, reply>>

Table(s, t) == [schema |-> s, table |-> t]
KeyName(key) == IF key.primary THEN <<"PRIMARY">>
                ELSE IF key.name = Anonymous THEN ColumnName ELSE key.name

-----------------------------------------------------------------------------
(* Names *)

IsAlphanumeric(ch) == ch \notin {"_", "-"}
Lower(ch) == IF ch \in {"A", "B", "C"} THEN [A |-> "a", B |-> "b", C |-> "c"][ch] ELSE ch

\* Every other character becomes _, and those at the ends go.
Sanitize(name) ==
  LET out   == [i \in DOMAIN name |-> IF IsAlphanumeric(name[i]) THEN Lower(name[i]) ELSE "_"]
      inner == {i \in DOMAIN out : out[i] # "_"}
  IN  IF inner = {} THEN <<>> ELSE SubSeq(out, Min(inner), Max(inner))

PrefixedIndexName(table, name, fallback) ==
  LET prefix == Sanitize(table) \o <<"_">>
  IN  IF name = Anonymous THEN prefix \o fallback
      ELSE IF IsPrefix(prefix, Sanitize(name)) THEN Sanitize(name) ELSE prefix \o Sanitize(name)

-----------------------------------------------------------------------------
(* PostgreSQL: what one statement does to the relations, or that it is     *)
(* refused                                                                 *)

Relation(s, name, kind, on) == [schema |-> s, name |-> name, kind |-> kind, on |-> on]
TableRel(s, t) == Relation(s, t, "table", t)
Taken(R, s, name) == \E r \in R : r.schema = s /\ r.name = name

\* The index of a constraint has its name, or one that is free: the first of a
\* name made of the table's and the column's, and that with 1, 11, ... behind it.
ConstraintRel(R, st) ==
  LET name(n) == st.name \o [i \in 1 .. n |-> "1"]
      free    == {n \in 0 .. Cardinality(R) : ~Taken(R, st.schema, name(n))}
  IN  Relation(st.schema, IF st.constraint = "named" THEN st.name ELSE name(Min(free)),
               "constraint", st.table)

Refuses(R) == [ok |-> FALSE, rels |-> R]
Makes(R)   == [ok |-> TRUE, rels |-> R]

PgConstrain(R, st) ==
  IF st.constraint = "none" THEN Makes(R)
  ELSE IF \/ st.constraint = "refused"
          \/ st.constraint = "named" /\ Taken(R, st.schema, st.name) THEN Refuses(R)
  ELSE Makes(R \cup {ConstraintRel(R, st)})

PgCreateTable(R, st) ==
  IF st.constraint = "refused" THEN Refuses(R)
  ELSE IF Taken(R, st.schema, st.table) THEN IF st.ifNotExists THEN Makes(R) ELSE Refuses(R)
  ELSE LET made == PgConstrain(R \cup {TableRel(st.schema, st.table)}, st)
       IN  IF made.ok THEN made ELSE Refuses(R)

PgAddConstraint(R, st) ==
  IF TableRel(st.schema, st.table) \in R THEN PgConstrain(R, st) ELSE Refuses(R)

PgCreateIndex(R, st) ==
  IF TableRel(st.schema, st.table) \notin R THEN Refuses(R)
  ELSE IF Taken(R, st.schema, st.name) THEN IF st.ifNotExists THEN Makes(R) ELSE Refuses(R)
  ELSE Makes(R \cup {Relation(st.schema, st.name, "index", st.table)})

\* The name is looked up on the search_path, first in the client's database; what
\* has it may be a table, and a constraint keeps its index.
PgDropIndex(R, st) ==
  LET schema == IF Taken(R, cur, st.name) THEN cur ELSE PublicSchema
      found  == {r \in R : r.schema = schema /\ r.name = st.name /\ r.kind = "index"}
  IN  IF found # {} THEN Makes(R \ found) ELSE Refuses(R)

PgApply(R, st) == CASE st.kind = "create_table"   -> PgCreateTable(R, st)
                    [] st.kind = "add_constraint" -> PgAddConstraint(R, st)
                    [] st.kind = "create_index"   -> PgCreateIndex(R, st)
                    [] st.kind = "drop_index"     -> PgDropIndex(R, st)

-----------------------------------------------------------------------------
(* The translation *)

PgStatement(kind, s, t) ==
  [kind |-> kind, schema |-> s, table |-> t, name |-> <<>>, ifNotExists |-> FALSE,
   constraint |-> "none"]

\* A key that is not unique becomes an index of its own; a unique one becomes a
\* constraint, in CREATE TABLE unless it has an expression.
IsPost(key) == ~key.unique \/ (~key.primary /\ key.form \in {"prefix", "unsupported"})
IndexOf(t, key) == PrefixedIndexName(t, key.name, IF key.unique THEN <<"uniq_idx">> ELSE <<"idx">>)

\* Mutant of CreateIndex: CREATE INDEX IF NOT EXISTS.
CreateIndexIfNew(s, t, key) ==
  [PgStatement("create_index", s, t) EXCEPT !.name = IndexOf(t, key), !.ifNotExists = TRUE]

CreateIndex(s, t, key) ==
  [PgStatement("create_index", s, t) EXCEPT !.name = IndexOf(t, key)]

\* Mutant of DropIndexText: the index is dropped by the name the client gave it.
DropIndexByItsName(s, t, name) == [PgStatement("drop_index", s, t) EXCEPT !.name = Sanitize(name)]

\* DROP INDEX names the index alone, without the schema of its table.
DropIndexText(s, t, name) ==
  [PgStatement("drop_index", s, t) EXCEPT !.name = PrefixedIndexName(t, name, <<"idx">>)]

\* A constraint keeps the name of CONSTRAINT k alone, and its options never: in
\* backticks that name is quoted twice, and refused, and so is the column of a
\* key on an expression, named in a way PostgreSQL does not find.
WithConstraint(st, key) ==
  IF key.symbol = "ticked" \/ key.form \notin {"column", "options"}
  THEN [st EXCEPT !.constraint = "refused"]
  ELSE IF key.symbol = "plain" THEN [st EXCEPT !.constraint = "named", !.name = key.name]
  ELSE [st EXCEPT !.constraint = "free",
                  !.name = IF key.primary THEN st.table \o <<"_", "pkey">>
                           ELSE st.table \o <<"_">> \o ColumnName \o <<"_", "key">>]

\* The elements of a list that are in a set, in their order.
Those(list, S) == FoldLeft(LAMBDA out, e : IF e \in S THEN Append(out, e) ELSE out, <<>>, list)

CreateText(s, t, list, ifNotExists) ==
  LET table  == [PgStatement("create_table", s, t) EXCEPT !.ifNotExists = ifNotExists]
      posts  == Those(list, {key \in Range(list) : IsPost(key)})
      inline == {i \in DOMAIN list : ~IsPost(list[i])}
  IN  <<IF inline = {} THEN table ELSE WithConstraint(table, list[Min(inline)])>>
        \o [i \in DOMAIN posts |-> CreateIndex(s, t, posts[i])]

\* In ALTER TABLE every unique key is a constraint.  The additions of constraints
\* go first, in one ALTER TABLE; of two, one is on an expression (OneConstraint).
AlterText(s, t, ops) ==
  LET unique == {o \in Range(ops) : o.op = "add" /\ o.key.unique}
      inline == Those(ops, unique)
      later  == Those(ops, Range(ops) \ unique)
      alter  == PgStatement("add_constraint", s, t)
  IN  (IF inline = <<>> THEN <<>>
       ELSE IF Len(inline) = 1 THEN <<WithConstraint(alter, inline[1].key)>>
       ELSE <<[alter EXCEPT !.constraint = "refused"]>>)
        \o [i \in DOMAIN later |-> IF later[i].op = "drop"
                                   THEN DropIndexText(s, t, later[i].key.name)
                                   ELSE CreateIndex(s, t, later[i].key)]

\* What the translator refuses by itself.
Untranslatable(key, inAlter) ==
  IF key.unique THEN ~key.primary /\ key.form = "unsupported" /\ ~inAlter
  ELSE key.form \in {"options", "unsupported"}

-----------------------------------------------------------------------------
(* Execution *)

\* The statements in their order, up to the first that is refused.
RunInOrder(text) ==
  FoldLeft(LAMBDA result, st : IF result.ok THEN PgApply(result.rels, st) ELSE result,
           Makes(rels), text)

\* Mutant of RunText: a text runs piece by piece too.
RunTextInPieces(text, prepared) == RunInOrder(text)

\* One text is one implicit transaction; the pieces of a prepared one are not.
RunText(text, prepared) ==
  LET result == RunInOrder(text)
  IN  IF result.ok \/ prepared THEN result ELSE Refuses(rels)

\* Told apart: what a property asks about, and how a refused statement had been sent.
Reply(op, ok, prepared) ==
  [op |-> IF op \in {"create_if_not_exists", "create_with_key"} THEN op ELSE "other",
   answer |-> IF ok THEN "ok" ELSE IF prepared THEN "refused_prepared" ELSE "refused"]

Answer(op, prepared, result) ==
  /\ Cardinality(result.rels) <= MaxRelations
  /\ rels' = result.rels
  /\ reply' = Reply(op, result.ok, prepared)

NotTranslated(op, prepared) ==
  /\ reply' = Reply(op, FALSE, prepared)
  /\ UNCHANGED <<rels, tables, keys, loose, cur>>

\* The index that stands for a key after the statement that made it.
Stand(t, key, post, result) ==
  LET made == {r \in result.rels \ rels : r.kind = "constraint"}
  IN  IF post THEN IndexOf(t, key) ELSE IF made = {} THEN <<>> ELSE (CHOOSE r \in made : TRUE).name

Key(s, t, key, post, result) ==
  [schema |-> s, table |-> t, name |-> KeyName(key), kind |-> IF post THEN "index" ELSE "constraint",
   index |-> Stand(t, key, post, result)]
KeysIn(s, t) == {k \in keys : k.schema = s /\ k.table = t}

\* The client writes no name twice in a table, dropped being those that go, and
\* one unique key in a statement; list is a function to its keys.
NamesFit(s, t, list, dropped) ==
  /\ \A i \in DOMAIN list : KeyName(list[i]) \notin {k.name : k \in KeysIn(s, t)} \ dropped
  /\ \A i, j \in DOMAIN list : i # j => KeyName(list[i]) # KeyName(list[j])
OneConstraint(list) == Cardinality({i \in DOMAIN list : ~IsPost(list[i])}) <= 1

CreateTable(s, t, list, ifNotExists, prepared) ==
  LET known  == Table(s, t) \in tables  \* and IF NOT EXISTS changes nothing
      result == RunText(CreateText(s, t, list, ifNotExists), prepared)
      op     == IF known THEN "create_if_not_exists"
                ELSE IF \E i \in DOMAIN list : ~list[i].unique THEN "create_with_key"
                ELSE "create"
  IN  /\ known => ifNotExists
      /\ OneConstraint(list)
      /\ known \/ NamesFit(s, t, list, {})
      /\ \A i \in DOMAIN list : ~Untranslatable(list[i], FALSE)
      /\ Answer(op, prepared, result)
      /\ tables' = IF result.ok THEN tables \cup {Table(s, t)} ELSE tables
      /\ keys' = IF result.ok /\ ~known
                 THEN keys \cup {Key(s, t, list[i], IsPost(list[i]), result) :
                                i \in DOMAIN list}
                 ELSE keys
      /\ loose' = IF (IF known \/ ~result.ok THEN rels # result.rels
                      ELSE TableRel(s, t) \notin result.rels \ rels)
                  THEN loose \cup {Table(s, t)} ELSE loose
      /\ UNCHANGED cur

CreateRefused(s, t, list, prepared) ==
  /\ Table(s, t) \notin tables
  /\ \E i \in DOMAIN list : Untranslatable(list[i], FALSE)
  /\ NotTranslated("create", prepared)

\* A drop a careful client makes: of a key that is not a constraint and whose
\* index has the name the translator would give it now.
KnownDrop(s, t, name) ==
  /\ s = cur
  /\ Table(s, t) \notin loose
  /\ \E k \in KeysIn(s, t) : /\ k.name = name /\ k.kind = "index"
                            /\ k.index = PrefixedIndexName(t, name, <<"idx">>)

AlterTable(s, t, ops, prepared) ==
  LET adds   == {i \in DOMAIN ops : ops[i].op = "add"}
      drops  == DOMAIN ops \ adds
      added  == [i \in adds |-> ops[i].key]
      result == RunText(AlterText(s, t, ops), prepared)
  IN  /\ Table(s, t) \in tables
      /\ OneConstraint(added)
      /\ NamesFit(s, t, added, {ops[i].key.name : i \in drops})
      /\ Careful => \A i \in drops : /\ KnownDrop(s, t, ops[i].key.name)
                                    /\ \A j \in drops : i # j => ops[i].key.name # ops[j].key.name
      /\ \A i \in adds : ~Untranslatable(ops[i].key, TRUE)
      /\ Answer("alter", prepared, result)
      /\ keys' = IF result.ok
                 THEN {k \in keys : ~\E i \in drops : k.schema = s /\ k.table = t
                                                       /\ k.name = KeyName(ops[i].key)}
                        \cup {Key(s, t, ops[i].key, ~ops[i].key.unique, result) : i \in adds}
                 ELSE keys
      /\ loose' = IF rels # result.rels /\ ~result.ok THEN loose \cup {Table(s, t)} ELSE loose
      /\ UNCHANGED <<tables, cur>>

AlterRefused(s, t, ops, prepared) ==
  /\ Table(s, t) \in tables
  /\ \E i \in DOMAIN ops : ops[i].op = "add" /\ Untranslatable(ops[i].key, TRUE)
  /\ NotTranslated("alter", prepared)

\* Mutant of DropTable: the keys are left behind.
DropTableAlone(s, t) ==
  /\ Table(s, t) \in tables
  /\ rels' = {r \in rels : ~(r.schema = s /\ r.on = t)}
  /\ tables' = tables \ {Table(s, t)}
  /\ reply' = Reply("drop_table", TRUE, FALSE)
  /\ UNCHANGED <<keys, loose, cur>>

\* DROP TABLE goes through as it is; the table's indexes go with it.
DropTable(s, t) ==
  /\ Table(s, t) \in tables
  /\ rels' = {r \in rels : ~(r.schema = s /\ r.on = t)}
  /\ tables' = tables \ {Table(s, t)}
  /\ keys' = keys \ KeysIn(s, t)
  /\ loose' = loose \ {Table(s, t)}
  /\ reply' = Reply("drop_table", TRUE, FALSE)
  /\ UNCHANGED cur

\* ALTER TABLE ... RENAME TO goes through as it is; PostgreSQL leaves the names
\* of the table's indexes alone.
RenameTable(s, t, u) ==
  LET taken == Taken(rels, s, u)
  IN  /\ Table(s, t) \in tables
      /\ Table(s, u) \notin tables
      /\ reply' = Reply("rename", ~taken, FALSE)
      /\ IF taken THEN UNCHANGED <<rels, tables, keys, loose>>
         ELSE /\ rels' = {IF r.schema # s \/ r.on # t THEN r
                          ELSE IF r.kind = "table" THEN TableRel(s, u)
                               ELSE [r EXCEPT !.on = u] : r \in rels}
              /\ tables' = (tables \ {Table(s, t)}) \cup {Table(s, u)}
              /\ keys' = {IF k \in KeysIn(s, t) THEN [k EXCEPT !.table = u] ELSE k : k \in keys}
              /\ loose' = {IF x = Table(s, t) THEN Table(s, u) ELSE x : x \in loose}
      /\ UNCHANGED cur

Use(s) ==
  /\ s # cur
  /\ cur' = s
  /\ reply' = Reply("use", TRUE, FALSE)
  /\ UNCHANGED <<rels, tables, keys, loose>>

IndexInit ==
  /\ rels = {} /\ tables = {} /\ keys = {} /\ loose = {}
  /\ cur \in Schema
  /\ reply = Reply("none", TRUE, FALSE)

StatementOn(s, t) ==
  \/ DropTable(s, t)
  \/ \E u \in TableName : RenameTable(s, t, u)
  \/ \E prepared \in BOOLEAN :
       \/ \E list \in KeyLists :
            \/ CreateRefused(s, t, list, prepared)
            \/ \E ifNotExists \in BOOLEAN : CreateTable(s, t, list, ifNotExists, prepared)
       \/ \E ops \in Changes :
            AlterTable(s, t, ops, prepared) \/ AlterRefused(s, t, ops, prepared)

IndexNext ==
  \E s \in Schema : Use(s) \/ \E t \in TableName : StatementOn(s, t)

IndexSpec == IndexInit /\ [][IndexNext]_indexVars

-----------------------------------------------------------------------------
(* Properties *)

IndexTypeOK ==
  /\ tables \subseteq [schema : Schema, table : TableName]
  /\ loose \subseteq [schema : Schema, table : TableName]
  /\ \A k \in keys : Table(k.schema, k.table) \in tables
  /\ \A r, q \in rels : r.schema = q.schema /\ r.name = q.name => r = q
  /\ \A r \in rels : TableRel(r.schema, r.on) \in rels

\* The keys a client has on a table are the indexes PostgreSQL has on that very
\* table, whatever other tables and indexes took the names they would be given:
\* a statement that finds its name taken is refused, and a drop of a known key
\* finds that key (prefixed_index_name in translate_inline_index and in the
\* DropIndex arm of translate_alter_table).
IndexesAgree ==
  \A x \in tables \ loose :
    /\ TableRel(x.schema, x.table) \in rels
    /\ {<<k.kind, k.index>> : k \in KeysIn(x.schema, x.table)}
         = {<<r.kind, r.name>> :
              r \in {q \in rels : q.schema = x.schema /\ q.on = x.table /\ q.kind # "table"}}

\* A key that was given a name can be dropped by that name as long as it is not
\* a unique constraint and its table kept its name (translate_alter_table and
\* translate_inline_index build the name twice, from different texts).
NamedKeyCanBeDropped ==
  \A k \in keys :
    /\ k.schema = cur
    /\ Table(k.schema, k.table) \notin loose
    /\ KnownDrop(k.schema, k.table, k.name)
    => RunText(AlterText(k.schema, k.table, <<[op |-> "drop", key |-> k]>>), TRUE).ok

\* A statement that is refused leaves the schema as it was when it was sent as a
\* text, although it is several statements by then (execute_sql_in_schema sends
\* one simple query; the pieces of execute_multi_statement_sql promise less).
RefusedTextChangesNothing ==
  [][reply'.answer = "refused" => UNCHANGED <<rels, tables, keys>>]_indexVars

\* CREATE TABLE IF NOT EXISTS is "Supported inside CREATE TABLE": of a table that
\* is there it is served (docs/compatibility.md).
IfNotExistsIsServed == reply.op = "create_if_not_exists" => reply.answer = "ok"

\* "MySQL inline KEY / INDEX definitions in CREATE TABLE" are "Explicitly rejected
\* today" (docs/compatibility.md): no such statement is answered OK.
InlineKeysAreRejected == reply.op = "create_with_key" => reply.answer # "ok"
=============================================================================
