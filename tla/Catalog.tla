------------------------------- MODULE Catalog -------------------------------
(***************************************************************************)
(* Databases, tables and views, and the statements that list and describe  *)
(* them.  A MySQL database is a PostgreSQL schema: the executor sends      *)
(* SET search_path TO <database>, public before each statement of a        *)
(* connection that has a database, and PostgreSQL skips what is missing    *)
(* from the path.  src/src/translator.rs turns SHOW and DESCRIBE into      *)
(* queries of PostgreSQL's catalogs.                                       *)
(*                                                                         *)
(* A statement is sent in two steps, the path and the text; other clients  *)
(* run between them.  Views depend on no table, temporary tables are left  *)
(* out.                                                                    *)
(***************************************************************************)
EXTENDS Naturals

CONSTANTS Client,  \* connections
          Db,      \* names of databases
          NoDb,    \* no database, or no qualifier
          Public,  \* the schema PostgreSQL always has
          SystemSchemas, \* schemas of PostgreSQL's own: pg_catalog and the others
          RelName  \* names of tables and views

ASSUME CatalogAssumption == /\ NoDb \notin Db /\ Public \notin Db /\ NoDb # Public
                            /\ SystemSchemas \cap Db = {}

VARIABLES schemas, \* of PostgreSQL, but for Public and its own
          catalog, \* tables and views of PostgreSQL
          made,    \* tables and views by MySQL's rules, of the statements answered OK
          current, \* current_db of each connection
          used,    \* the database MySQL would have it in
          path,    \* the first schema of its search_path
          ready,   \* whether its statement follows
          mixed    \* history: databases that a client changed who was not where it meant to be

catalogVars == <<schemas, catalog, made, current, used, path, ready, mixed>>

Object(schema, name, kind) == [schema |-> schema, name |-> name, kind |-> kind]
Kinds   == {"table", "view"}
Objects == {Object(s, n, k) : s \in Db \cup {Public}, n \in RelName, k \in Kinds}

\* A statement: what it does, the database they name, the table or view, its kind.
Reads  == {"select", "describe", "show_tables", "show_full_tables", "show_views", "show_index",
           "show_create", "show_schemas", "show_databases"}
Writes == {"create", "drop"}
Stmt(op, in, name, kind) == [op |-> op, in |-> in, name |-> name, kind |-> kind]
Statements(ops) == {Stmt(op, in, n, k) : op \in ops, in \in Db \cup {NoDb}, n \in RelName, k \in Kinds}

-----------------------------------------------------------------------------
(* MySQL.  An answer is the objects shown, read, made or dropped; {} stands *)
(* for an error and for a list with nothing in it.                         *)

Of(objects, schema) == {o \in objects : o.schema = schema}
Named(objects, name) == {o \in objects : o.name = name}
SchemaObject(s) == Object(s, "", "schema")
NotDatabases == {SchemaObject(s) : s \in {Public} \cup SystemSchemas}

MySqlDb(c, st) == IF st.in = NoDb THEN used[c] ELSE st.in
MySqlFinds(c, st) == Named(Of(made, MySqlDb(c, st)), st.name)

MySqlAnswer(c, st) ==
  CASE st.op \in {"select", "describe"}             -> MySqlFinds(c, st)
    [] st.op \in {"show_index", "show_create", "drop"} ->
         {o \in MySqlFinds(c, st) : o.kind = st.kind}
    [] st.op \in {"show_tables", "show_full_tables"} -> Of(made, MySqlDb(c, st))
    [] st.op = "show_views"   -> {o \in Of(made, MySqlDb(c, st)) : o.kind = "view"}
    [] st.op \in {"show_schemas", "show_databases"} -> {SchemaObject(d) : d \in schemas}
    [] st.op = "create"       -> IF MySqlFinds(c, st) = {} /\ MySqlDb(c, st) \in schemas
                                 THEN {Object(MySqlDb(c, st), st.name, st.kind)} ELSE {}

-----------------------------------------------------------------------------
(* PostgreSQL *)

\* The first schema of the path that there is.
CurrentSchema(c) == IF path[c] \in schemas THEN path[c] ELSE Public

\* The object a name stands for: of the schema it is qualified with, or of the
\* first on the path that has one.
Resolve(c, st) ==
  LET first == IF st.in # NoDb THEN st.in ELSE CurrentSchema(c)
      found == Named(Of(catalog, first), st.name)
  IN  IF st.in # NoDb \/ found # {} THEN found ELSE Named(Of(catalog, Public), st.name)

Creates(c, st) ==
  LET s == IF st.in = NoDb THEN CurrentSchema(c) ELSE st.in
  IN  IF s \in schemas \cup {Public} /\ Named(Of(catalog, s), st.name) = {}
      THEN {Object(s, st.name, st.kind)} ELSE {}

-----------------------------------------------------------------------------
(* The translation of SHOW and DESCRIBE *)

\* Mutant of Scope: the schema is the one every connection has.
ScopePublic(c, st) == IF st.in = NoDb THEN Public ELSE st.in

\* The schema that is listed or looked into: current_schema() unless one is named.
Scope(c, st) == IF st.in = NoDb THEN CurrentSchema(c) ELSE st.in

Describe(c, st)   == Named(Of(catalog, Scope(c, st)), st.name)
ShowTables(c, st) == Of(catalog, Scope(c, st))
ShowViews(c, st)  == {o \in Of(catalog, Scope(c, st)) : o.kind = "view"}

\* SHOW INDEX takes no qualified name; a view has no index.
ShowIndex(c, st) ==
  {o \in Named(Of(catalog, CurrentSchema(c)), st.name) : st.in = NoDb /\ st.kind = "table" /\ o.kind = "table"}

\* SHOW CREATE looks into public unless a schema is named.
ShowCreate(st) ==
  {o \in Named(Of(catalog, IF st.in = NoDb THEN Public ELSE st.in), st.name) : o.kind = st.kind}

\* information_schema.schemata has them all, PostgreSQL's own too; pg_database
\* has none of them.
ShowSchemas   == {SchemaObject(s) : s \in schemas \cup {Public} \cup SystemSchemas}
ShowDatabases == {}

PgAnswer(c, st) ==
  CASE st.op = "select"         -> Resolve(c, st)
    [] st.op = "describe"       -> Describe(c, st)
    [] st.op \in {"show_tables", "show_full_tables"} -> ShowTables(c, st)
    [] st.op = "show_views"     -> ShowViews(c, st)
    [] st.op = "show_index"     -> ShowIndex(c, st)
    [] st.op = "show_create"    -> ShowCreate(st)
    [] st.op = "show_schemas"   -> ShowSchemas
    [] st.op = "show_databases" -> ShowDatabases
    [] st.op = "create"         -> Creates(c, st)
    [] st.op = "drop"           -> {o \in Resolve(c, st) : o.kind = st.kind}

-----------------------------------------------------------------------------
(* Connections *)

CatalogInit ==
  /\ schemas = {} /\ catalog = {} /\ made = {} /\ mixed = {}
  /\ current = [c \in Client |-> NoDb]
  /\ used = [c \in Client |-> NoDb]
  /\ path = [c \in Client |-> NoDb]
  /\ ready = [c \in Client |-> FALSE]

\* USE, or COM_INIT_DB: the proxy takes any name, MySQL those it has.
UseDb(c, d) ==
  /\ ~ready[c]
  /\ current' = [current EXCEPT ![c] = d]
  /\ used' = IF d \in schemas THEN [used EXCEPT ![c] = d] ELSE used
  /\ UNCHANGED <<schemas, catalog, made, path, ready, mixed>>

\* The proxy goes into the database it makes, MySQL stays where it is.
CreateDatabase(c, d) ==
  /\ ~ready[c]
  /\ schemas' = schemas \cup {d}
  /\ current' = [current EXCEPT ![c] = d]
  /\ UNCHANGED <<catalog, made, used, path, ready, mixed>>

\* Mutant of DropDatabase: the connection is left in public.
DropDatabaseToPublic(c, d) ==
  /\ ~ready[c]
  /\ schemas' = schemas \ {d}
  /\ catalog' = {o \in catalog : o.schema # d}
  /\ made' = {o \in made : o.schema # d}
  /\ mixed' = mixed \ {d}
  /\ current' = [current EXCEPT ![c] = IF @ = d THEN Public ELSE @]
  /\ used' = [used EXCEPT ![c] = IF @ = d THEN NoDb ELSE @]
  /\ UNCHANGED <<path, ready>>

\* Mutant of DropDatabase: without CASCADE, and answered OK.
DropDatabaseKeepingTables(c, d) ==
  /\ ~ready[c]
  /\ schemas' = schemas \ {d}
  /\ made' = {o \in made : o.schema # d}
  /\ mixed' = mixed \ {d}
  /\ current' = [current EXCEPT ![c] = IF @ = d THEN NoDb ELSE @]
  /\ used' = [used EXCEPT ![c] = IF @ = d THEN NoDb ELSE @]
  /\ UNCHANGED <<catalog, path, ready>>

\* Only the connection that drops a database is taken out of it.
DropDatabase(c, d) ==
  /\ ~ready[c]
  /\ schemas' = schemas \ {d}
  /\ catalog' = {o \in catalog : o.schema # d}
  /\ made' = {o \in made : o.schema # d}
  /\ mixed' = mixed \ {d}
  /\ current' = [current EXCEPT ![c] = IF @ = d THEN NoDb ELSE @]
  /\ used' = [used EXCEPT ![c] = IF @ = d THEN NoDb ELSE @]
  /\ UNCHANGED <<path, ready>>

\* Mutant of SetPath: the path is set when there is none yet.
SetPathOnce(c) ==
  /\ ~ready[c]
  /\ ready' = [ready EXCEPT ![c] = TRUE]
  /\ path' = IF path[c] = NoDb THEN [path EXCEPT ![c] = current[c]] ELSE path
  /\ UNCHANGED <<schemas, catalog, made, current, used, mixed>>

\* A connection without a database leaves the path as it was.
SetPath(c) ==
  /\ ~ready[c]
  /\ ready' = [ready EXCEPT ![c] = TRUE]
  /\ path' = IF current[c] = NoDb THEN path ELSE [path EXCEPT ![c] = current[c]]
  /\ UNCHANGED <<schemas, catalog, made, current, used, mixed>>

\* Whether the client's database is the one it means; where it is not, the
\* databases a text changes are told apart.
AtHome(c, st) == st.in # NoDb \/ (current[c] = used[c] /\ current[c] \in schemas)

Write(c, st) ==
  LET answer == PgAnswer(c, st)
      done(objects) == IF st.op = "create" THEN objects \cup answer ELSE objects \ answer
  IN  /\ ready[c]
      /\ ready' = [ready EXCEPT ![c] = FALSE]
      /\ catalog' = done(catalog)
      /\ made' = IF answer = {} THEN made
                 ELSE IF st.op = "create" THEN made \cup MySqlAnswer(c, st)
                      ELSE made \ MySqlAnswer(c, st)
      /\ mixed' = IF AtHome(c, st) THEN mixed
                  ELSE mixed \cup ({o.schema : o \in answer \cup MySqlAnswer(c, st)} \cap Db)
      /\ UNCHANGED <<schemas, current, used, path>>

\* A statement that reads or is refused, by the translator or by PostgreSQL.
Read(c) ==
  /\ ready[c]
  /\ ready' = [ready EXCEPT ![c] = FALSE]
  /\ UNCHANGED <<schemas, catalog, made, current, used, path, mixed>>

\* The PostgreSQL session of an idle connection ends; the next one starts anew.
SessionEnds(c) ==
  /\ ~ready[c] /\ path[c] # NoDb
  /\ path' = [path EXCEPT ![c] = NoDb]
  /\ UNCHANGED <<schemas, catalog, made, current, used, ready, mixed>>

CatalogNext ==
  \E c \in Client :
    \/ \E d \in Db : UseDb(c, d) \/ CreateDatabase(c, d) \/ DropDatabase(c, d)
    \/ SetPath(c)
    \/ \E st \in Statements(Writes) : Write(c, st)
    \/ Read(c)
    \/ SessionEnds(c)

CatalogSpec == CatalogInit /\ [][CatalogNext]_catalogVars

-----------------------------------------------------------------------------
(* Properties *)

CatalogTypeOK ==
  /\ schemas \subseteq Db /\ mixed \subseteq Db
  /\ catalog \subseteq Objects /\ made \subseteq Objects
  /\ current \in [Client -> Db \cup {NoDb}] /\ used \in [Client -> Db \cup {NoDb}]
  /\ path \in [Client -> Db \cup {NoDb}] /\ ready \in [Client -> BOOLEAN]
  /\ \A o, q \in catalog : o.schema = q.schema /\ o.name = q.name => o = q

\* A database holds what MySQL's would, whatever other clients created, dropped
\* or put into public, also between the path of a statement and its text
\* (set_schema and the statement after it; on_query's CREATE and DROP DATABASE).
DatabasesAgree == \A d \in schemas \ mixed : Of(catalog, d) = Of(made, d)

\* Public has nothing of a name that a statement does not qualify.
NothingPublic(st) == st.in # NoDb \/ Named(Of(catalog, Public), st.name) = {}

\* A statement of a client in a database of its own choice is answered as MySQL
\* would answer it.  Left out are what the code answers otherwise: names that
\* fall through to public, SHOW CREATE without a database, SHOW INDEX with one,
\* SHOW DATABASES, and public and PostgreSQL's own among the schemas
\* (translate_show_tables and the other translations of SHOW and DESCRIBE).
AnsweredAsMySql ==
  \A c \in Client : ready[c] =>
    \A st \in Statements(Reads \cup Writes) :
      /\ AtHome(c, st) /\ MySqlDb(c, st) \in schemas \ mixed
      /\ st.op \in {"select", "drop"} => NothingPublic(st)
      /\ st.op = "show_create" => st.in # NoDb
      /\ st.op = "show_index" => st.in = NoDb /\ st.kind = "table"
      /\ st.op # "show_databases"
      => PgAnswer(c, st) \ NotDatabases = MySqlAnswer(c, st)

\* A client in a database reads and changes nothing of another one unless it
\* names it, whoever drops and makes databases meanwhile: what falls through
\* falls into public (the search_path of set_schema).
StaysInDatabase ==
  \A c \in Client : ready[c] /\ current[c] # NoDb =>
    \A st \in Statements({"select", "describe", "show_tables", "create", "drop"}) :
      st.in = NoDb => {o.schema : o \in PgAnswer(c, st)} \subseteq {current[c], Public}
=============================================================================
