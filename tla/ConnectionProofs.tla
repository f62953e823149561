-------------------------- MODULE ConnectionProofs --------------------------
(* Proofs about what the MySQL frontend keeps for a connection: the database *)
(* it is in, for any connections, databases and names, and its settings, for *)
(* any modes and levels.                                                     *)
EXTENDS Catalog, SessionVariables, TLAPS

\* A name stands for one table or view of a schema.
OneOfName(objects) == \A o, q \in objects : o.schema = q.schema /\ o.name = q.name => o = q

\* A connection whose statement follows has its database first in the path.
PathIsCurrent == \A c \in Client : ready[c] /\ current[c] # NoDb => path[c] = current[c]

\* Nothing is left of a database that is not there.
NothingOrphaned ==
  /\ \A o \in catalog : o.schema \in schemas \cup {Public}
  /\ \A o \in made : o.schema \in schemas

\* The inductive invariant.
CatalogInv == CatalogTypeOK /\ PathIsCurrent /\ NothingOrphaned /\ DatabasesAgree

Statement == Statements(Reads \cup Writes)

-----------------------------------------------------------------------------
(* Statements that write *)

LEMMA StatementType ==
  ASSUME NEW ops, NEW st \in Statements(ops)
  PROVE  st.op \in ops /\ st.in \in Db \cup {NoDb} /\ st.name \in RelName /\ st.kind \in Kinds
  BY DEF Statements, Stmt

LEMMA ObjectFields ==
  ASSUME NEW o \in Objects
  PROVE  /\ o.schema \in Db \cup {Public} /\ o.name \in RelName /\ o.kind \in Kinds
         /\ o = Object(o.schema, o.name, o.kind)
  BY DEF Objects, Object

LEMMA ObjectType ==
  ASSUME NEW s \in Db \cup {Public}, NEW n \in RelName, NEW k \in Kinds
  PROVE  /\ Object(s, n, k) \in Objects
         /\ Object(s, n, k).schema = s /\ Object(s, n, k).name = n /\ Object(s, n, k).kind = k
  BY DEF Objects, Object

\* What PostgreSQL creates: one object of a name its schema has not.
LEMMA Created ==
  ASSUME CatalogTypeOK, NEW c \in Client, NEW st \in Statements(Writes)
  PROVE  /\ Creates(c, st) \subseteq Objects
         /\ \A o \in Creates(c, st) :
              /\ o.schema \in schemas \cup {Public}
              /\ Named(Of(catalog, o.schema), o.name) = {}
              /\ o = Object(o.schema, st.name, st.kind)
         /\ \A o, q \in Creates(c, st) : o = q
  <1> DEFINE s == IF st.in = NoDb THEN CurrentSchema(c) ELSE st.in
  <1>1. st.name \in RelName /\ st.kind \in Kinds
    BY StatementType
  <1>2. Creates(c, st) = IF s \in schemas \cup {Public} /\ Named(Of(catalog, s), st.name) = {}
                         THEN {Object(s, st.name, st.kind)} ELSE {}
    BY DEF Creates
  <1> HIDE DEF s
  <1>3. CASE s \in schemas \cup {Public} /\ Named(Of(catalog, s), st.name) = {}
    <2>1. s \in Db \cup {Public}
      BY <1>3 DEF CatalogTypeOK
    <2>2. /\ Object(s, st.name, st.kind) \in Objects
          /\ Object(s, st.name, st.kind).schema = s /\ Object(s, st.name, st.kind).name = st.name
      BY <1>1, <2>1, ObjectType
    <2> QED
      BY <1>2, <1>3, <2>2
  <1>4. CASE ~(s \in schemas \cup {Public} /\ Named(Of(catalog, s), st.name) = {})
    BY <1>2, <1>4
  <1> QED
    BY <1>3, <1>4

\* What a name stands for is in the catalog.
LEMMA Resolved ==
  ASSUME NEW c \in Client, NEW st
  PROVE  /\ Resolve(c, st) \subseteq catalog
         /\ \A o \in Resolve(c, st) : o.schema \in {st.in, CurrentSchema(c), Public}
         /\ st.in # NoDb => \A o \in Resolve(c, st) : o.schema = st.in
         /\ st.in = NoDb => \A o \in Resolve(c, st) : o.schema \in {CurrentSchema(c), Public}
  BY DEF Resolve, Named, Of

\* Where a client is at home, the schema of PostgreSQL is MySQL's database.
LEMMA Home ==
  ASSUME CatalogInv, NEW c \in Client, NEW st, st.in \in Db \cup {NoDb}, ready[c], AtHome(c, st)
  PROVE  /\ MySqlDb(c, st) \in Db
         /\ Scope(c, st) = MySqlDb(c, st)
         /\ st.in = NoDb => CurrentSchema(c) = MySqlDb(c, st) /\ MySqlDb(c, st) \in schemas
  BY CatalogAssumption DEF CatalogInv, CatalogTypeOK, PathIsCurrent, AtHome, MySqlDb, Scope,
                           CurrentSchema

LEMMA WriteAnswers ==
  ASSUME NEW c \in Client, NEW st \in Statements(Writes)
  PROVE  /\ st.op = "create" \/ st.op = "drop"
         /\ st.op = "create" =>
              /\ PgAnswer(c, st) = Creates(c, st)
              /\ MySqlAnswer(c, st) = IF MySqlFinds(c, st) = {} /\ MySqlDb(c, st) \in schemas
                                      THEN {Object(MySqlDb(c, st), st.name, st.kind)} ELSE {}
         /\ st.op = "drop" =>
              /\ PgAnswer(c, st) = {o \in Resolve(c, st) : o.kind = st.kind}
              /\ MySqlAnswer(c, st) = {o \in MySqlFinds(c, st) : o.kind = st.kind}
  <1>1. st.op = "create" \/ st.op = "drop"
    BY StatementType DEF Writes
  <1>2. CASE st.op = "create"
    BY <1>2 DEF PgAnswer, MySqlAnswer
  <1>3. CASE st.op = "drop"
    BY <1>3 DEF PgAnswer, MySqlAnswer
  <1> QED
    BY <1>1, <1>2, <1>3

\* MySQL makes or drops in the client's database only.
LEMMA MySqlAnswersIn ==
  ASSUME CatalogInv, NEW c \in Client, NEW st \in Statements(Writes)
  PROVE  /\ \A o \in MySqlAnswer(c, st) : o.schema = MySqlDb(c, st)
         /\ st.op = "drop" => MySqlAnswer(c, st) \subseteq made
         /\ MySqlAnswer(c, st) \subseteq Objects
         /\ st.op = "create" => \A o \in MySqlAnswer(c, st) : o.schema \in schemas
  <1>1. st.name \in RelName /\ st.kind \in Kinds
    BY StatementType
  <1>2. CASE st.op = "create"
    <2>1. CASE MySqlDb(c, st) \in schemas
      <3>1. MySqlDb(c, st) \in Db
        BY <2>1 DEF CatalogInv, CatalogTypeOK
      <3>2. /\ Object(MySqlDb(c, st), st.name, st.kind) \in Objects
            /\ Object(MySqlDb(c, st), st.name, st.kind).schema = MySqlDb(c, st)
        BY <1>1, <3>1, ObjectType
      <3> QED
        BY <1>2, <2>1, <3>2, WriteAnswers
    <2>2. CASE MySqlDb(c, st) \notin schemas
      BY <1>2, <2>2, WriteAnswers
    <2> QED
      BY <2>1, <2>2
  <1>3. CASE st.op = "drop"
    BY <1>3, WriteAnswers DEF MySqlFinds, Named, Of, CatalogInv, CatalogTypeOK
  <1> QED
    BY <1>2, <1>3, WriteAnswers

\* PostgreSQL makes or drops in the schema named, or in the first one and public.
LEMMA PgAnswersIn ==
  ASSUME CatalogInv, NEW c \in Client, NEW st \in Statements(Writes)
  PROVE  /\ st.in = NoDb => \A o \in PgAnswer(c, st) : o.schema \in {CurrentSchema(c), Public}
         /\ st.in # NoDb => \A o \in PgAnswer(c, st) : o.schema = st.in
  <1>1. st.name \in RelName /\ st.kind \in Kinds
    BY StatementType
  <1>2. CASE st.op = "create"
    <2>1. \A s : Object(s, st.name, st.kind).schema = s
      BY DEF Object
    <2> QED
      BY <1>2, <2>1, WriteAnswers DEF Creates
  <1>3. CASE st.op = "drop"
    BY <1>3, WriteAnswers, Resolved
  <1> QED
    BY <1>2, <1>3, WriteAnswers

\* The catalog after a statement.
LEMMA WriteDone ==
  ASSUME NEW c \in Client, NEW st \in Statements(Writes), Write(c, st)
  PROVE  /\ st.op = "create" => /\ catalog' = catalog \cup PgAnswer(c, st)
                                /\ made' = IF PgAnswer(c, st) = {} THEN made
                                           ELSE made \cup MySqlAnswer(c, st)
         /\ st.op = "drop" => /\ catalog' = catalog \ PgAnswer(c, st)
                              /\ made' = IF PgAnswer(c, st) = {} THEN made
                                         ELSE made \ MySqlAnswer(c, st)
  BY DEF Write

LEMMA WriteType ==
  ASSUME CatalogInv, NEW c \in Client, NEW st \in Statements(Writes), Write(c, st)
  PROVE  CatalogTypeOK' /\ NothingOrphaned'
  <1> USE DEF CatalogInv, CatalogTypeOK, NothingOrphaned
  <1>1. CASE st.op = "create"
    <2>1. /\ catalog' = catalog \cup Creates(c, st)
          /\ made' \subseteq made \cup MySqlAnswer(c, st)
      BY <1>1, WriteDone, WriteAnswers
    <2>2. \A o, q \in catalog' : o.schema = q.schema /\ o.name = q.name => o = q
      BY <2>1, Created DEF Named, Of
    <2>3. catalog' \subseteq Objects /\ made' \subseteq Objects
      BY <2>1, <1>1, Created, MySqlAnswersIn
    <2>4. /\ \A o \in catalog' : o.schema \in schemas \cup {Public}
          /\ \A o \in made' : o.schema \in schemas
      BY <2>1, <1>1, Created, MySqlAnswersIn
    <2> QED
      BY <2>2, <2>3, <2>4 DEF Write
  <1>2. CASE st.op = "drop"
    <2>1. catalog' \subseteq catalog /\ made' \subseteq made
      BY <1>2, WriteDone
    <2> QED
      BY <2>1 DEF Write
  <1> QED
    BY <1>1, <1>2, WriteAnswers

\* A database that is not mixed holds what MySQL's would after a statement too.
LEMMA WriteAgrees ==
  ASSUME CatalogInv, NEW c \in Client, NEW st \in Statements(Writes), Write(c, st),
         NEW d \in schemas \ mixed'
  PROVE  Of(catalog', d) = Of(made', d)
  <1> DEFINE D == MySqlDb(c, st)
  <1>1. /\ d \in Db /\ d # Public /\ d \notin mixed
        /\ Of(catalog, d) = Of(made, d)
        /\ st.in \in Db \cup {NoDb}
    BY CatalogAssumption, StatementType DEF CatalogInv, CatalogTypeOK, DatabasesAgree, Write
  <1>2. CASE (\A o \in PgAnswer(c, st) : o.schema # d) /\ (\A o \in MySqlAnswer(c, st) : o.schema # d)
    BY <1>1, <1>2, WriteDone, WriteAnswers DEF Of
  <1>3. CASE AtHome(c, st) /\ d # D
    <2>1. \A o \in PgAnswer(c, st) : o.schema # d
      BY <1>1, <1>3, Home, PgAnswersIn DEF Write, MySqlDb
    <2> QED
      BY <1>2, <1>3, <2>1, MySqlAnswersIn
  <1>4. CASE AtHome(c, st) /\ d = D
    <2>1. /\ st.in # NoDb => st.in = d
          /\ st.in = NoDb => CurrentSchema(c) = d
      BY <1>4, <1>1, Home DEF Write, MySqlDb
    <2>2. MySqlFinds(c, st) = Named(Of(catalog, d), st.name)
      BY <1>1, <1>4 DEF MySqlFinds
    <2>3. CASE st.op = "create"
      <3>1. PgAnswer(c, st) = MySqlAnswer(c, st)
        BY <1>4, <2>1, <2>2, <2>3, WriteAnswers DEF Creates
      <3> QED
        BY <1>1, <2>3, <3>1, WriteDone DEF Of
    <2>4. CASE st.op = "drop"
      <3>1. CASE Resolve(c, st) = Named(Of(catalog, d), st.name)
        <4>1. PgAnswer(c, st) = MySqlAnswer(c, st)
          <5>1. Resolve(c, st) = MySqlFinds(c, st)
            BY <2>2, <3>1
          <5>2. PgAnswer(c, st) = {o \in Resolve(c, st) : o.kind = st.kind}
            BY <2>4, WriteAnswers
          <5>3. MySqlAnswer(c, st) = {o \in MySqlFinds(c, st) : o.kind = st.kind}
            BY <2>4, WriteAnswers
          <5> QED
            BY <5>1, <5>2, <5>3
        <4> QED
          BY <1>1, <2>4, <4>1, WriteDone DEF Of
      <3>2. CASE Resolve(c, st) # Named(Of(catalog, d), st.name)
        <4>1. /\ Named(Of(catalog, d), st.name) = {}
              /\ \A o \in Resolve(c, st) : o.schema = Public
          BY <2>1, <3>2 DEF Resolve, Named, Of
        <4> QED
          BY <1>1, <1>2, <2>2, <2>4, <4>1, WriteAnswers
      <3> QED
        BY <3>1, <3>2
    <2> QED
      BY <2>3, <2>4, WriteAnswers
  <1>5. CASE ~AtHome(c, st)
    BY <1>1, <1>2, <1>5 DEF Write
  <1> QED
    BY <1>3, <1>4, <1>5

-----------------------------------------------------------------------------
(* The invariant *)

LEMMA InvInit == CatalogInit => CatalogInv
  BY DEF CatalogInit, CatalogInv, CatalogTypeOK, PathIsCurrent, NothingOrphaned, DatabasesAgree, Of

LEMMA InvStep == CatalogInv /\ [CatalogNext]_catalogVars => CatalogInv'
  <1> SUFFICES ASSUME CatalogInv, [CatalogNext]_catalogVars PROVE CatalogInv'
    OBVIOUS
  <1>1. CatalogTypeOK /\ PathIsCurrent /\ NothingOrphaned /\ DatabasesAgree
    BY DEF CatalogInv
  <1> USE CatalogAssumption
  <1>2. ASSUME NEW c \in Client, NEW d \in Db, UseDb(c, d) PROVE CatalogInv'
    BY <1>1, <1>2 DEF UseDb, CatalogInv, CatalogTypeOK, PathIsCurrent, NothingOrphaned,
                      DatabasesAgree, Of
  <1>3. ASSUME NEW c \in Client, NEW d \in Db, CreateDatabase(c, d) PROVE CatalogInv'
    <2>1. CatalogTypeOK' /\ PathIsCurrent' /\ NothingOrphaned'
      BY <1>1, <1>3 DEF CreateDatabase, CatalogTypeOK, PathIsCurrent, NothingOrphaned
    <2>2. ASSUME NEW s \in schemas' \ mixed' PROVE Of(catalog', s) = Of(made', s)
      <3>1. CASE s \in schemas
        BY <1>1, <1>3, <2>2, <3>1 DEF CreateDatabase, DatabasesAgree
      <3>2. CASE s \notin schemas
        BY <1>1, <1>3, <2>2, <3>2 DEF CreateDatabase, NothingOrphaned, Of
      <3> QED
        BY <3>1, <3>2
    <2> QED
      BY <2>1, <2>2 DEF CatalogInv, DatabasesAgree, Of
  <1>4. ASSUME NEW c \in Client, NEW d \in Db, DropDatabase(c, d) PROVE CatalogInv'
    <2>1. CatalogTypeOK' /\ PathIsCurrent' /\ NothingOrphaned'
      BY <1>1, <1>4 DEF DropDatabase, CatalogTypeOK, PathIsCurrent, NothingOrphaned
    <2>2. DatabasesAgree'
      BY <1>1, <1>4 DEF DropDatabase, DatabasesAgree, Of
    <2> QED
      BY <2>1, <2>2 DEF CatalogInv
  <1>5. ASSUME NEW c \in Client, SetPath(c) PROVE CatalogInv'
    BY <1>1, <1>5 DEF SetPath, CatalogInv, CatalogTypeOK, PathIsCurrent, NothingOrphaned,
                      DatabasesAgree, Of
  <1>6. ASSUME NEW c \in Client, NEW st \in Statements(Writes), Write(c, st) PROVE CatalogInv'
    <2>1. CatalogTypeOK' /\ NothingOrphaned'
      BY <1>6, WriteType
    <2>2. PathIsCurrent'
      BY <1>1, <1>6 DEF Write, PathIsCurrent, CatalogTypeOK
    <2>3. schemas' = schemas
      BY <1>6 DEF Write
    <2>4. \A d \in schemas \ mixed' : Of(catalog', d) = Of(made', d)
      BY <1>6, WriteAgrees
    <2>5. DatabasesAgree'
      BY <2>3, <2>4 DEF DatabasesAgree, Of
    <2> QED
      BY <2>1, <2>2, <2>5 DEF CatalogInv
  <1>7. ASSUME NEW c \in Client, Read(c) \/ SessionEnds(c) PROVE CatalogInv'
    <2>1. CatalogTypeOK' /\ PathIsCurrent'
      BY <1>1, <1>7 DEF Read, SessionEnds, CatalogTypeOK, PathIsCurrent
    <2>2. UNCHANGED <<schemas, catalog, made, mixed>>
      BY <1>7 DEF Read, SessionEnds
    <2> QED
      BY <1>1, <2>1, <2>2 DEF CatalogInv, NothingOrphaned, DatabasesAgree, Of
  <1>8. CASE UNCHANGED catalogVars
    BY <1>1, <1>8 DEF catalogVars, CatalogInv, CatalogTypeOK, PathIsCurrent, NothingOrphaned,
                      DatabasesAgree, Of
  <1> QED
    BY <1>2, <1>3, <1>4, <1>5, <1>6, <1>7, <1>8 DEF CatalogNext

LEMMA Invariance == CatalogSpec => []CatalogInv
  BY InvInit, InvStep, PTL DEF CatalogSpec

-----------------------------------------------------------------------------
(* Theorems *)

\* Type correctness; a schema never has two objects of a name (on_query's CREATE
\* and DROP DATABASE, set_schema).
THEOREM CatalogTypeCorrect == CatalogSpec => []CatalogTypeOK
  BY Invariance, PTL DEF CatalogInv

\* A database in which only clients that are at home changed anything holds what
\* MySQL's would, for any connections and databases (set_schema and the statement
\* after it).
THEOREM DatabaseAgreement == CatalogSpec => []DatabasesAgree
  BY Invariance, PTL DEF CatalogInv

\* A client in a database reads and changes nothing of another one that it does
\* not name (the search_path of set_schema).
THEOREM DatabaseIsolation == CatalogSpec => []StaysInDatabase
  <1>1. CatalogInv => StaysInDatabase
    <2> SUFFICES ASSUME CatalogInv, NEW c \in Client, ready[c], current[c] # NoDb,
                        NEW st \in Statements({"select", "describe", "show_tables", "create", "drop"}),
                        st.in = NoDb, NEW o \in PgAnswer(c, st)
                 PROVE  o.schema \in {current[c], Public}
      BY DEF StaysInDatabase
    <2>1. CurrentSchema(c) \in {current[c], Public}
      BY DEF CatalogInv, PathIsCurrent, CurrentSchema
    <2>2. CASE st.op \in {"create", "drop"}
      <3>1. st \in Statements(Writes)
        BY <2>2, StatementType DEF Statements, Stmt, Writes
      <3> QED
        BY <2>1, <3>1, PgAnswersIn
    <2>3. CASE st.op = "select"
      BY <2>1, <2>3, Resolved DEF PgAnswer
    <2>4. CASE st.op = "describe"
      BY <2>1, <2>4 DEF PgAnswer, Describe, Scope, Named, Of
    <2>5. CASE st.op = "show_tables"
      BY <2>1, <2>5 DEF PgAnswer, ShowTables, Scope, Of
    <2> QED
      BY <2>2, <2>3, <2>4, <2>5, StatementType
  <1> QED
    BY Invariance, <1>1, PTL

LEMMA ReadType ==
  ASSUME NEW st \in Statement
  PROVE  /\ st.in \in Db \cup {NoDb}
         /\ st.op \in Reads \cup Writes
  BY StatementType DEF Statement

\* Of objects, the schemas listed are none.
LEMMA NoSchemas ==
  ASSUME NEW objects, objects \subseteq Objects
  PROVE  objects \ NotDatabases = objects
  <1>1. ASSUME NEW s PROVE SchemaObject(s) \notin Objects
    <2>1. SchemaObject(s).kind = "schema"
      BY DEF SchemaObject, Object
    <2> QED
      BY <2>1, ObjectFields DEF Kinds
  <1> QED
    BY <1>1 DEF NotDatabases

\* A statement of a client in a database of its own choice is answered as MySQL
\* would answer it, but for the cases the property leaves out (translate_show_tables
\* and the other translations of SHOW and DESCRIBE).
THEOREM AnswerCorrectness == CatalogSpec => []AnsweredAsMySql
  <1>1. CatalogInv => AnsweredAsMySql
    <2> SUFFICES ASSUME CatalogInv, NEW c \in Client, ready[c], NEW st \in Statement,
                        AtHome(c, st), MySqlDb(c, st) \in schemas \ mixed,
                        st.op \in {"select", "drop"} => NothingPublic(st),
                        st.op = "show_create" => st.in # NoDb,
                        st.op = "show_index" => st.in = NoDb /\ st.kind = "table",
                        st.op # "show_databases"
                 PROVE  PgAnswer(c, st) \ NotDatabases = MySqlAnswer(c, st)
      BY DEF AnsweredAsMySql, Statement
    <2> DEFINE D == MySqlDb(c, st)
    <2>1. /\ Of(catalog, D) = Of(made, D)
          /\ catalog \subseteq Objects /\ made \subseteq Objects
      BY DEF CatalogInv, CatalogTypeOK, DatabasesAgree
    <2>2. /\ Scope(c, st) = D
          /\ st.in # NoDb => st.in = D
          /\ st.in = NoDb => CurrentSchema(c) = D
      BY Home, ReadType DEF MySqlDb
    <2>3. MySqlFinds(c, st) = Named(Of(catalog, D), st.name)
      BY <2>1 DEF MySqlFinds
    <2>4. NothingPublic(st) => Resolve(c, st) = Named(Of(catalog, D), st.name)
      BY <2>2 DEF Resolve, NothingPublic
    <2> HIDE DEF D
    <2>5. ASSUME PgAnswer(c, st) = MySqlAnswer(c, st), PgAnswer(c, st) \subseteq Objects
          PROVE  PgAnswer(c, st) \ NotDatabases = MySqlAnswer(c, st)
      BY <2>5, NoSchemas
    <2>6. CASE st.op = "select"
      <3>1. PgAnswer(c, st) = Resolve(c, st) /\ MySqlAnswer(c, st) = MySqlFinds(c, st)
        BY <2>6 DEF PgAnswer, MySqlAnswer
      <3> QED
        BY <2>1, <2>3, <2>4, <2>5, <2>6, <3>1 DEF Named, Of
    <2>7. CASE st.op = "describe"
      <3>1. PgAnswer(c, st) = Describe(c, st) /\ MySqlAnswer(c, st) = MySqlFinds(c, st)
        BY <2>7 DEF PgAnswer, MySqlAnswer
      <3> QED
        BY <2>1, <2>2, <2>3, <2>5, <3>1 DEF Describe, Named, Of
    <2>8. CASE st.op \in {"show_tables", "show_full_tables"}
      <3>1. PgAnswer(c, st) = ShowTables(c, st) /\ MySqlAnswer(c, st) = Of(made, D)
        BY <2>8 DEF PgAnswer, MySqlAnswer, D
      <3> QED
        BY <2>1, <2>2, <2>5, <3>1 DEF ShowTables, Of
    <2>9. CASE st.op = "show_views"
      <3>1. /\ PgAnswer(c, st) = {o \in Of(catalog, D) : o.kind = "view"}
            /\ MySqlAnswer(c, st) = {o \in Of(made, D) : o.kind = "view"}
        BY <2>2, <2>9 DEF PgAnswer, MySqlAnswer, ShowViews, D
      <3> QED
        BY <2>1, <2>5, <3>1 DEF Of
    <2>10. CASE st.op = "show_index"
      <3>1. /\ PgAnswer(c, st) = ShowIndex(c, st)
            /\ MySqlAnswer(c, st) = {o \in MySqlFinds(c, st) : o.kind = st.kind}
        BY <2>10 DEF PgAnswer, MySqlAnswer
      <3>2. st.in = NoDb /\ st.kind = "table"
        BY <2>10
      <3>3. ShowIndex(c, st) = {o \in MySqlFinds(c, st) : o.kind = st.kind}
        BY <2>2, <2>3, <3>2 DEF ShowIndex
      <3> QED
        BY <2>1, <2>3, <2>5, <3>1, <3>3 DEF Named, Of
    <2>11. CASE st.op = "show_create"
      <3>1. /\ PgAnswer(c, st) = ShowCreate(st)
            /\ MySqlAnswer(c, st) = {o \in MySqlFinds(c, st) : o.kind = st.kind}
        BY <2>11 DEF PgAnswer, MySqlAnswer
      <3>2. ShowCreate(st) = {o \in MySqlFinds(c, st) : o.kind = st.kind}
        BY <2>2, <2>3, <2>11 DEF ShowCreate
      <3> QED
        BY <2>1, <2>3, <2>5, <3>1, <3>2 DEF Named, Of
    <2>12. CASE st.op = "show_schemas"
      <3>1. /\ PgAnswer(c, st) = {SchemaObject(s) : s \in schemas \cup {Public} \cup SystemSchemas}
            /\ MySqlAnswer(c, st) = {SchemaObject(s) : s \in schemas}
        BY <2>12 DEF PgAnswer, MySqlAnswer, ShowSchemas
      <3>2. ({Public} \cup SystemSchemas) \cap schemas = {}
        BY CatalogAssumption DEF CatalogInv, CatalogTypeOK
      <3>3. \A s, r : SchemaObject(s) = SchemaObject(r) => s = r
        BY DEF SchemaObject, Object
      <3> QED
        BY <3>1, <3>2, <3>3 DEF NotDatabases
    <2>13. CASE st.op = "create"
      <3>1. st \in Statements(Writes)
        BY <2>13, StatementType DEF Statement, Statements, Stmt, Writes
      <3>2. PgAnswer(c, st) = MySqlAnswer(c, st)
        BY <2>2, <2>3, <2>13, <3>1, WriteAnswers DEF Creates, D
      <3>3. PgAnswer(c, st) \subseteq Objects
        BY <3>1, <3>2, MySqlAnswersIn
      <3> QED
        BY <2>5, <3>2, <3>3
    <2>14. CASE st.op = "drop"
      <3>1. /\ PgAnswer(c, st) = {o \in Resolve(c, st) : o.kind = st.kind}
            /\ MySqlAnswer(c, st) = {o \in MySqlFinds(c, st) : o.kind = st.kind}
        BY <2>14 DEF PgAnswer, MySqlAnswer
      <3>2. Resolve(c, st) = MySqlFinds(c, st)
        BY <2>3, <2>4, <2>14
      <3> QED
        BY <2>1, <2>3, <2>5, <3>1, <3>2 DEF Named, Of
    <2> QED
      BY <2>6, <2>7, <2>8, <2>9, <2>10, <2>11, <2>12, <2>13, <2>14, ReadType DEF Reads, Writes
  <1> QED
    BY Invariance, <1>1, PTL

-----------------------------------------------------------------------------
(* The settings of a connection *)

\* The inductive invariant: a setting is what the last SET of its variable makes
\* of it, and its type is the one of the variable.
SettingInv ==
  /\ backend \in [charset : {"utf8", "utf8mb4"}, collation : Collation,
                  mode : Mode, isolation : Level]
  /\ last \in [Variable -> Sets \cup {Unset}]
  /\ \A v \in Variable : TakenAlike(last[v]) => backend[v] = MySqlValue(v, last[v])
  /\ CollationMatches(backend.charset, backend.collation)

LEMMA Collations ==
  /\ Collation = {"utf8_general_ci", "utf8mb3_general_ci", "utf8mb4_general_ci", "utf8mb4_bin"}
  /\ DOMAIN DefaultCollation = {"utf8", "utf8mb4"}
  BY DEF Collation, BeginsWith, DefaultCollation

LEMMA SettingInitially == SettingInit => SettingInv
  <1> SUFFICES ASSUME SettingInit PROVE SettingInv
    OBVIOUS
  <1>1. \A v \in Variable : last[v] = [form |-> "start"]
    BY DEF SettingInit, Unset
  <1>2. \A v \in Variable : backend[v] = MySqlValue(v, last[v])
    BY <1>1 DEF SettingInit, MySqlValue
  <1>3. CollationMatches(backend.charset, backend.collation)
    BY Collations DEF SettingInit, Start, CollationMatches, BeginsWith
  <1> QED
    BY <1>1, <1>2, <1>3, Collations, SettingsAssumption DEF SettingInit, SettingInv, Start, Unset

\* A SET NAMES that is accepted has MySQL's collation, one that is not changes
\* nothing.
LEMMA NamesKeep ==
  ASSUME SettingInv, NEW s \in Sets, s.form = "names", SetNames(s)
  PROVE  SettingInv'
  <1> DEFINE charset == NormalCharset(s.charset)
             collation == NormalCollation(charset, s.value)
  <1>1. CASE /\ charset \in DOMAIN DefaultCollation
             /\ CollationMatches(charset, collation)
             /\ backend' = [backend EXCEPT !.charset = charset, !.collation = collation]
             /\ last' = [last EXCEPT !["collation"] = s]
    <2>1. collation \in Collation /\ charset \in {"utf8", "utf8mb4"}
      BY <1>1, Collations DEF CollationMatches
    <2>2. /\ backend'.charset = charset /\ backend'.collation = collation
          /\ backend'.mode = backend.mode /\ backend'.isolation = backend.isolation
          /\ backend' \in [charset : {"utf8", "utf8mb4"}, collation : Collation,
                           mode : Mode, isolation : Level]
      BY <1>1, <2>1 DEF SettingInv
    <2>3. /\ last' \in [Variable -> Sets \cup {Unset}]
          /\ last'["collation"] = s
          /\ last'["mode"] = last["mode"] /\ last'["isolation"] = last["isolation"]
      BY <1>1 DEF SettingInv, Variable
    <2>4. TakenAlike(s) => collation = MySqlValue("collation", s)
      <3> SUFFICES ASSUME s.value \notin Charset PROVE collation = MySqlValue("collation", s)
        BY DEF TakenAlike
      <3> QED
        BY DEF MySqlValue, NormalCollation, Charset
    <2>5. ASSUME NEW v \in Variable, TakenAlike(last'[v])
          PROVE  backend'[v] = MySqlValue(v, last'[v])
      <3>1. CASE v = "collation"
        BY <2>2, <2>3, <2>4, <2>5, <3>1
      <3>2. CASE v = "mode"
        BY <2>2, <2>3, <2>5, <3>2 DEF SettingInv
      <3>3. CASE v = "isolation"
        BY <2>2, <2>3, <2>5, <3>3 DEF SettingInv
      <3> QED
        BY <3>1, <3>2, <3>3 DEF Variable
    <2> QED
      BY <1>1, <2>2, <2>3, <2>5 DEF SettingInv
  <1>2. CASE UNCHANGED settingVars
    BY <1>2 DEF settingVars, SettingInv, CollationMatches
  <1> QED
    BY <1>1, <1>2 DEF SetNames

LEMMA ValueKeeps ==
  ASSUME SettingInv, NEW s \in Sets, s.form \in {"mode", "isolation"}, SetValue(s)
  PROVE  SettingInv'
  <1>1. /\ s.form = "mode" => s.value \in Mode
        /\ s.form = "isolation" => s.value \in Level
    BY DEF Sets
  <1>2. /\ backend' \in [charset : {"utf8", "utf8mb4"}, collation : Collation,
                         mode : Mode, isolation : Level]
        /\ backend'[s.form] = s.value
        /\ backend'.charset = backend.charset /\ backend'.collation = backend.collation
        /\ \A v \in Variable \ {s.form} : backend'[v] = backend[v]
    <2>1. CASE s.form = "mode"
      BY <1>1, <2>1 DEF SetValue, SettingInv, Variable
    <2>2. CASE s.form = "isolation"
      BY <1>1, <2>2 DEF SetValue, SettingInv, Variable
    <2> QED
      BY <2>1, <2>2
  <1>3. /\ last' \in [Variable -> Sets \cup {Unset}]
        /\ last'[s.form] = s
        /\ \A v \in Variable \ {s.form} : last'[v] = last[v]
    BY DEF SetValue, SettingInv, Variable
  <1>4. ASSUME NEW v \in Variable, TakenAlike(last'[v])
        PROVE  backend'[v] = MySqlValue(v, last'[v])
    <2>1. CASE v = s.form
      BY <1>2, <1>3, <2>1 DEF MySqlValue
    <2>2. CASE v # s.form
      BY <1>2, <1>3, <1>4, <2>2 DEF SettingInv
    <2> QED
      BY <2>1, <2>2
  <1> QED
    BY <1>2, <1>3, <1>4 DEF SettingInv

LEMMA NothingKeeps ==
  ASSUME SettingInv, NEW s \in Sets, s.form = "collation", SetNothing(s)
  PROVE  SettingInv'
  <1>1. /\ last' \in [Variable -> Sets \cup {Unset}]
        /\ last'["collation"] = s
        /\ \A v \in Variable \ {"collation"} : last'[v] = last[v]
    BY DEF SetNothing, Concerns, SettingInv, Variable
  <1>2. ~TakenAlike(last'["collation"])
    BY <1>1 DEF TakenAlike
  <1> QED
    BY <1>1, <1>2 DEF SettingInv, SetNothing, CollationMatches

LEMMA SettingStep == SettingInv /\ [SettingNext]_settingVars => SettingInv'
  <1> SUFFICES ASSUME SettingInv, [SettingNext]_settingVars PROVE SettingInv'
    OBVIOUS
  <1>1. ASSUME NEW s \in Sets, s.form = "names", SetNames(s) PROVE SettingInv'
    BY <1>1, NamesKeep
  <1>2. ASSUME NEW s \in Sets, s.form \in {"mode", "isolation"}, SetValue(s) PROVE SettingInv'
    BY <1>2, ValueKeeps
  <1>3. ASSUME NEW s \in Sets, s.form = "collation", SetNothing(s) PROVE SettingInv'
    BY <1>3, NothingKeeps
  <1>4. CASE UNCHANGED settingVars
    BY <1>4 DEF settingVars, SettingInv, CollationMatches
  <1> QED
    BY <1>1, <1>2, <1>3, <1>4 DEF SettingNext

LEMMA SettingImplies == SettingInv => SettingsAsMySql
  BY DEF SettingInv, SettingsAsMySql, Selects, SelectAnswer

\* A SELECT of a session variable by itself answers what MySQL would after the
\* same SETs, whatever was refused between them (apply_set_names,
\* dynamic_canned_response_for_system_variable_select).
THEOREM SettingsCorrect == SettingSpec => []SettingsAsMySql
  BY SettingInitially, SettingStep, SettingImplies, PTL DEF SettingSpec
=============================================================================
