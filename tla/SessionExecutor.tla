-------------------------- MODULE SessionExecutor --------------------------
(***************************************************************************)
(* The session executor of src/src/executor.rs: one per MySQL connection,  *)
(* holding at most one PostgreSQL session, which it opens on demand and    *)
(* opens again when it finds it closed.  A call (execute, execute          *)
(* prepared, describe, create or drop schema) is a sequence of awaits:     *)
(* acquire a session, set its search_path, prepare, look up the identity   *)
(* column of an INSERT's table, prepare the INSERT wrapped to return it,   *)
(* run.  Between any two of them other connections move and PostgreSQL may *)
(* end the session.                                                        *)
(*                                                                         *)
(* PostgreSQL is external: what a session remembers (search_path, the      *)
(* transaction it is in) and the identity sequence are modelled as far as  *)
(* the executor depends on them.  A statement is its kind only.            *)
(***************************************************************************)
EXTENDS Naturals, FiniteSets

CONSTANTS Conn,         \* MySQL connections, one executor each
          Db,           \* database names, which are PostgreSQL schemas
          NoDb,         \* no database: the argument None, the default path
          Ops,          \* the kinds of call that are made
          MaxIdentity,  \* bound: identity values PostgreSQL hands out
          MaxRows       \* bound: rows one INSERT adds

SchemaDdl == {"create_schema", "drop_schema"}
Ending    == {"commit", "rollback"}
Runnable  == {"query", "insert", "begin"} \cup Ending  \* what a client's text can be
Op        == Runnable \cup {"describe"} \cup SchemaDdl

ASSUME ExecutorAssumption == /\ NoDb \notin Db
                             /\ Ops \subseteq Op
                             /\ MaxIdentity \in Nat
                             /\ MaxRows \in Nat

VARIABLES client,    \* the executor's client slot: no client, live, or closed
          path,      \* search_path of the live PostgreSQL session
          savedPath, \* search_path a rollback goes back to
          txn,       \* transaction status of the live PostgreSQL session
          identity,  \* last value of the identity sequence
          wrote,     \* history: identity values of the rows the connection wrote
          call       \* the executor call in progress

execVars == <<client, path, savedPath, txn, identity, wrote, call>>

-----------------------------------------------------------------------------

Id        == 1 .. MaxIdentity
AtWork    == {"prepare", "lookup", "prepare_wrapped", "run"}
AtPg      == {"set_schema"} \cup AtWork
Failure   == {"rejected", "failed"}  \* by PostgreSQL's answer, or for want of a session
Done      == {"ok"} \cup Failure
Stage     == {"idle", "acquire"} \cup AtPg \cup Done

\* identified: the INSERT is wrapped to return its identity values
Call == [stage : Stage, op : Op, schema : Db \cup {NoDb}, prepared : BOOLEAN,
         identified : BOOLEAN, lastId : 0 .. MaxIdentity, applied : 0 .. 1]

IdleCall == [stage |-> "idle", op |-> "query", schema |-> NoDb, prepared |-> FALSE,
             identified |-> FALSE, lastId |-> 0, applied |-> 0]

TypeOK ==
  /\ client \in [Conn -> {"none", "open", "closed"}]
  /\ path \in [Conn -> Db \cup {NoDb}]
  /\ savedPath \in [Conn -> Db \cup {NoDb}]
  /\ txn \in [Conn -> {"none", "open", "failed"}]
  /\ identity \in 0 .. MaxIdentity
  /\ wrote \in [Conn -> SUBSET Id]
  /\ call \in [Conn -> Call]

Init ==
  /\ client = [c \in Conn |-> "none"]
  /\ path = [c \in Conn |-> NoDb]
  /\ savedPath = [c \in Conn |-> NoDb]
  /\ txn = [c \in Conn |-> "none"]
  /\ identity = 0
  /\ wrote = [c \in Conn |-> {}]
  /\ call = [c \in Conn |-> IdleCall]

At(c, stage)   == call[c].stage = stage
GoTo(c, stage) == call' = [call EXCEPT ![c].stage = stage]

-----------------------------------------------------------------------------
(* PostgreSQL *)

\* In an aborted transaction only the statement that ends it is accepted.
Accepts(c, ending) == client[c] = "open" /\ (txn[c] # "failed" \/ ending)

\* The session's memory after the statement op.  SET search_path is
\* transactional, so leaving a transaction without committing restores it.
TransactionAfter(c, op) ==
  LET abandons == \/ op = "rollback" /\ txn[c] # "none"
                  \/ op = "commit" /\ txn[c] = "failed"
  IN  /\ txn' = [txn EXCEPT ![c] = CASE op \in Ending -> "none"
                                     [] op = "begin" /\ txn[c] = "none" -> "open"
                                     [] OTHER -> @]
      /\ path' = [path EXCEPT ![c] = IF abandons THEN savedPath[c] ELSE @]
      /\ savedPath' = [savedPath EXCEPT ![c] =
                         IF op = "begin" /\ txn[c] = "none" THEN path[c] ELSE @]

SessionEnds(c, slot) ==
  /\ client' = [client EXCEPT ![c] = slot]
  /\ path' = [path EXCEPT ![c] = NoDb]
  /\ savedPath' = [savedPath EXCEPT ![c] = NoDb]
  /\ txn' = [txn EXCEPT ![c] = "none"]

\* How many rows an INSERT can add, and which row that was there it can write
\* too (ON CONFLICT DO UPDATE).
Additions(op) == {n \in 0 .. MaxRows : op = "insert" /\ identity + n <= MaxIdentity} \cup {0}
Upserts(op)   == {S \in SUBSET (1 .. identity) : op = "insert" /\ Cardinality(S) <= 1} \cup {{}}
Written(n, upserted) == upserted \cup (identity + 1 .. identity + n)

\* The statement takes effect.  The identity sequence is shared by all sessions
\* and no rollback takes a value back.
TakesEffect(c, n, upserted) ==
  /\ identity' = identity + n
  /\ wrote' = [wrote EXCEPT ![c] = @ \cup Written(n, upserted)]

-----------------------------------------------------------------------------
(* The executor *)

\* One of the trait's methods is called with a schema.
Begin(c, op, schema, prepared) ==
  /\ At(c, "idle")
  /\ call' = [call EXCEPT ![c] =
                [stage |-> "acquire", op |-> op, schema |-> schema, prepared |-> prepared,
                 identified |-> FALSE, lastId |-> 0, applied |-> 0]]
  /\ UNCHANGED <<client, path, savedPath, txn, identity, wrote>>

\* What follows once the search_path is set, or needs no setting.
AfterSchema(c) == CASE call[c].prepared -> "prepare"
                    [] call[c].op = "insert" /\ ~call[c].prepared -> "lookup"
                    [] OTHER -> "run"

\* Mutant of AfterAcquire: a session that is held keeps the search_path it has.
AfterAcquireOnce(c) == IF client[c] = "open" THEN AfterSchema(c) ELSE "set_schema"

\* create_schema and drop_schema never set it; set_schema(None) leaves it alone.
SetsSchema(c)   == call[c].op \notin SchemaDdl /\ call[c].schema # NoDb
AfterAcquire(c) == IF SetsSchema(c) THEN "set_schema" ELSE AfterSchema(c)

AcquireHeld(c) ==
  /\ At(c, "acquire")
  /\ client[c] = "open"
  /\ GoTo(c, AfterAcquire(c))
  /\ UNCHANGED <<client, path, savedPath, txn, identity, wrote>>

\* A new session starts with the default search_path and outside a transaction.
AcquireConnect(c) ==
  /\ At(c, "acquire")
  /\ client[c] # "open"
  /\ SessionEnds(c, "open")
  /\ GoTo(c, AfterAcquire(c))
  /\ UNCHANGED <<identity, wrote>>

AcquireFail(c) ==
  /\ At(c, "acquire")
  /\ client[c] # "open"
  /\ GoTo(c, "failed")
  /\ UNCHANGED <<client, path, savedPath, txn, identity, wrote>>

\* Mutant of SetSchema: its failure in an aborted transaction is ignored.
SetSchemaIfAble(c) ==
  /\ At(c, "set_schema")
  /\ client[c] = "open"
  /\ path' = [path EXCEPT ![c] = IF txn[c] = "failed" THEN @ ELSE call[c].schema]
  /\ GoTo(c, AfterSchema(c))
  /\ UNCHANGED <<client, savedPath, txn, identity, wrote>>

SetSchema(c) ==
  /\ At(c, "set_schema")
  /\ Accepts(c, FALSE)
  /\ path' = [path EXCEPT ![c] = call[c].schema]
  /\ GoTo(c, AfterSchema(c))
  /\ UNCHANGED <<client, savedPath, txn, identity, wrote>>

\* A describe of a prepared statement ends here, with the statement's columns.
AfterPrepare(c) == CASE call[c].op = "describe" -> "ok"
                     [] call[c].op = "insert" -> "lookup"
                     [] OTHER -> "run"

Prepare(c) ==
  /\ At(c, "prepare")
  /\ Accepts(c, call[c].op \in Ending)
  /\ call' = [call EXCEPT ![c].stage = AfterPrepare(c),
                          ![c].applied = IF call[c].op = "describe" THEN 1 ELSE 0]
  /\ UNCHANGED <<client, path, savedPath, txn, identity, wrote>>

\* A prepared INSERT is prepared once more, as it is wrapped.
AfterLookup(c) == IF call[c].prepared THEN "prepare_wrapped" ELSE "run"

LookupFinds(c) ==
  /\ At(c, "lookup")
  /\ Accepts(c, FALSE)
  /\ call' = [call EXCEPT ![c].stage = AfterLookup(c), ![c].identified = TRUE]
  /\ UNCHANGED <<client, path, savedPath, txn, identity, wrote>>

\* The table has no identity column, or its name is written in a way the
\* pattern does not match, which PostgreSQL is then not asked about.
LookupMisses(c) ==
  /\ At(c, "lookup")
  /\ GoTo(c, "run")
  /\ UNCHANGED <<client, path, savedPath, txn, identity, wrote>>

PrepareWrapped(c) ==
  /\ At(c, "prepare_wrapped")
  /\ Accepts(c, FALSE)
  /\ GoTo(c, "run")
  /\ UNCHANGED <<client, path, savedPath, txn, identity, wrote>>

\* Mutant of Reports: the id is the table's largest, read after the INSERT.
ReportsNewest(c, written, id) == id = IF call[c].identified THEN identity ELSE 0

\* The id reported for an INSERT: the largest it wrote, 0 if it wrote none.
Reports(c, written, id) ==
  IF call[c].identified /\ written # {}
  THEN id \in written /\ \A w \in written : w <= id
  ELSE id = 0

\* A describe that was not prepared runs the text it is given, whatever that is,
\* and answers with the columns of the result.
TextOps(c) == IF call[c].op = "describe" THEN Runnable ELSE {call[c].op}

Run(c) ==
  /\ At(c, "run")
  /\ \E op \in TextOps(c) :
       /\ Accepts(c, op \in Ending)
       /\ TransactionAfter(c, op)
       /\ \E n \in Additions(op), upserted \in Upserts(op), id \in 0 .. MaxIdentity :
            /\ TakesEffect(c, n, upserted)
            /\ Reports(c, Written(n, upserted), id)
            /\ call' = [call EXCEPT ![c].stage = "ok", ![c].lastId = id,
                                    ![c].applied = call[c].applied + 1]
  /\ UNCHANGED client

\* PostgreSQL answers with an error: a transaction it happens in is aborted.
PgRejects(c) ==
  /\ call[c].stage \in AtPg
  /\ client[c] = "open"
  /\ txn' = [txn EXCEPT ![c] = IF @ = "open" THEN "failed" ELSE @]
  /\ GoTo(c, "rejected")
  /\ UNCHANGED <<client, path, savedPath, identity, wrote>>

\* Mutant of PgGone: the call waits for an answer that does not come.
PgGoneUnnoticed(c) ==
  /\ call[c].stage \in AtPg
  /\ client[c] # "open"
  /\ UNCHANGED execVars

\* The session is found gone by a call that already holds it.
PgGone(c) ==
  /\ call[c].stage \in AtPg
  /\ client[c] # "open"
  /\ GoTo(c, "failed")
  /\ UNCHANGED <<client, path, savedPath, txn, identity, wrote>>

\* Mutant of RunLost: the call is made again on a new session.
RunLostRetried(c) ==
  /\ At(c, "run")
  /\ \E op \in TextOps(c) :
       /\ Accepts(c, op \in Ending)
       /\ \E n \in Additions(op), upserted \in Upserts(op) : TakesEffect(c, n, upserted)
  /\ SessionEnds(c, "closed")
  /\ call' = [call EXCEPT ![c].stage = "acquire", ![c].applied = call[c].applied + 1]

\* The statement took effect and the session ended before its answer: the
\* executor reports an error and does not try again.
RunLost(c) ==
  /\ At(c, "run")
  /\ \E op \in TextOps(c) :
       /\ Accepts(c, op \in Ending)
       /\ \E n \in Additions(op), upserted \in Upserts(op) : TakesEffect(c, n, upserted)
  /\ SessionEnds(c, "closed")
  /\ call' = [call EXCEPT ![c].stage = "failed", ![c].applied = call[c].applied + 1]

\* PostgreSQL ends a session at any moment; its open transaction is rolled back.
PgDisconnects(c) ==
  /\ client[c] = "open"
  /\ SessionEnds(c, "closed")
  /\ UNCHANGED <<identity, wrote, call>>

\* The caller takes the result.
Return(c) ==
  /\ call[c].stage \in Done
  /\ call' = [call EXCEPT ![c] = IdleCall]
  /\ UNCHANGED <<client, path, savedPath, txn, identity, wrote>>

\* The executor is dropped with its connection, and another one takes the slot.
Release(c) ==
  /\ call[c].stage \in {"idle"} \cup Done
  /\ SessionEnds(c, "none")
  /\ wrote' = [wrote EXCEPT ![c] = {}]
  /\ call' = [call EXCEPT ![c] = IdleCall]
  /\ UNCHANGED identity

\* The steps of a call, once begun.
Advance(c) ==
  \/ AcquireHeld(c)
  \/ AcquireConnect(c)
  \/ AcquireFail(c)
  \/ SetSchema(c)
  \/ Prepare(c)
  \/ LookupFinds(c)
  \/ LookupMisses(c)
  \/ PrepareWrapped(c)
  \/ Run(c)
  \/ PgRejects(c)
  \/ PgGone(c)
  \/ RunLost(c)

\* A prepared call is an execute or a describe.
Shape(op, prepared) == op \in SchemaDdl => ~prepared

BeginAny(c) == \E op \in Ops, schema \in Db \cup {NoDb}, prepared \in BOOLEAN :
                 /\ Shape(op, prepared)
                 /\ Begin(c, op, schema, prepared)

ExecNext(c) == BeginAny(c) \/ Advance(c) \/ PgDisconnects(c) \/ Return(c) \/ Release(c)

Next == \E c \in Conn : ExecNext(c)

\* The task that made a call is polled until it ends, and PostgreSQL answers or
\* closes the session; nothing says a client calls again.
Fairness == \A c \in Conn : WF_execVars(Advance(c))

Spec == Init /\ [][Next]_execVars /\ Fairness

-----------------------------------------------------------------------------
(* Properties *)

\* Whatever statement is about to be prepared, looked up or run for a caller
\* with a database reaches PostgreSQL with that database first in search_path,
\* although sessions are replaced and transactions rolled back in between
\* (executor.rs: acquire then set_schema in every call).
PathFollowsSchema ==
  \A c \in Conn :
    call[c].stage \in AtWork /\ client[c] = "open" /\ SetsSchema(c)
      => path[c] = call[c].schema

\* The insert id a call returns is that of a row its own session wrote, however
\* many connections insert at once (executor.rs: wrap_insert_returning_sql).
InsertIdIsOwn ==
  \A c \in Conn : call[c].lastId # 0 => call[c].lastId \in wrote[c]

\* No statement ends an aborted transaction while a database is chosen, ROLLBACK
\* included, because set_schema fails first: only losing the session does
\* (executor.rs: set_schema in every call).
AbortedStaysAborted ==
  [][\A c \in Conn :
       txn[c] = "failed" /\ txn'[c] # "failed" =>
         client'[c] # "open" \/ ~SetsSchema(c)]_execVars

\* A call that was begun ends, with an answer or with an error, even if its
\* session is lost on the way (executor.rs: every await ends in ? or a value).
CallsEnd ==
  \A c \in Conn : At(c, "acquire") ~> call[c].stage \in Done

\* What a call looks like to its caller.
Outcome(c) == CASE call[c].stage \in Failure -> "failed"
                [] call[c].stage \in {"idle", "ok"} -> call[c].stage
                [] OTHER -> "pending"

Service == INSTANCE StatementService WITH outcome <- [c \in Conn |-> Outcome(c)],
                                          effects <- [c \in Conn |-> call[c].applied]

\* A call is answered once, and its statement takes effect once if it succeeds
\* and at most once if it fails, lost sessions included: no method of the
\* executor tries again.
ServiceSpec == Service!Spec

=============================================================================
