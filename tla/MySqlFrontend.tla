--------------------------- MODULE MySqlFrontend ---------------------------
(***************************************************************************)
(* The MySQL side of the proxy: src/src/mysql_server.rs with the command   *)
(* loop of the vendored opensrv-mysql that drives it, one task for each    *)
(* connection, over the session executors of SessionExecutor.              *)
(*                                                                         *)
(* A connection is a slot c of Conn that clients take one after another.   *)
(* Its handler runs without an await up to the executor call, except that  *)
(* the set of killed ids and the default database are statics shared by    *)
(* all tasks: each access to one of them is a step of its own.             *)
(*                                                                         *)
(* A query is a record: its kind is the branch of on_query and on_prepare  *)
(* it takes, the other fields are the part of its text that branch uses.   *)
(***************************************************************************)
EXTENDS SessionExecutor

CONSTANTS Queries,        \* the queries clients send
          Commands,       \* the protocol commands they send
          SessionValue,   \* values of a session variable (collation, sql_mode, ...)
          InitialValue,   \* the one a connection starts with
          MaxConnId,      \* bound: connections accepted
          MaxStmt,        \* bound: statements prepared on one connection
          MaxParts,       \* bound: statements in one multi-statement text
          ParamModulus,   \* the protocol's parameter count is taken modulo this
          Conforming,     \* clients execute statements as the protocol says
          NoStmt          \* no entry in a table of statements

ConnId  == 1 .. MaxConnId
StmtId  == 1 .. MaxStmt
Command == {"query", "prepare", "execute", "close", "reset", "init_db", "ping"}

ASSUME FrontendAssumption ==
  /\ MaxConnId \in Nat /\ MaxStmt \in Nat
  /\ MaxParts \in Nat \ {0} /\ ParamModulus \in Nat \ {0}
  /\ InitialValue \in SessionValue
  /\ Commands \subseteq Command
  /\ Conforming \in BOOLEAN

\* Kinds the proxy answers itself, and kinds it translates for PostgreSQL.
Noop       == {"noop", "session_set", "session_bad", "create_db", "drop_db"}
Local      == Noop \cup {"kill", "session_read", "canned", "load_data", "untranslatable"}
Translated == {"select", "select_star", "insert", "begin", "commit", "rollback", "multi",
               "option"}
Query == [kind : Local \cup Translated,
          db : Db \cup {NoDb},          \* create_db, drop_db
          target : 0 .. MaxConnId,      \* kill
          value : SessionValue,         \* session_set
          params : Nat]                 \* number of ? placeholders

ASSUME QueriesAssumption == Queries \subseteq Query

VARIABLES nextConnId,   \* NEXT_CONNECTION_ID
          killed,       \* KILLED_CONNECTION_IDS
          defaultDb,    \* DEFAULT_DATABASE_NAME
          phase,        \* where c's task is
          cause,        \* why c's last connection ended
          connId,       \* connection_id
          currentDb,    \* current_db
          session,      \* session_charset, session_collation, session_sql_mode, ...
          lastInsertId, \* last_insert_id
          nextStmt,     \* next_statement_id
          prepared,     \* the backend's table of prepared statements
          stmts,        \* the command loop's table of statement data
          request,      \* the command being served
          partsLeft,    \* statements of a multi-statement text not yet begun
          response,     \* the reply to the last command
          handles,      \* client: the statements it holds, and those it sent types for
          doomed        \* history: c's id was killed when its command arrived

sharedVars  == <<nextConnId, killed, defaultDb>>
backendVars == <<connId, currentDb, session, lastInsertId, nextStmt, prepared>>
taskVars    == <<phase, cause, stmts, request, partsLeft, response, handles, doomed>>
frontVars   == <<sharedVars, backendVars, taskVars>>
vars        == <<frontVars, execVars>>

-----------------------------------------------------------------------------
(* State *)

NoQuery   == [kind |-> "noop", db |-> NoDb, target |-> 0, value |-> InitialValue, params |-> 0]
NoRequest == [cmd |-> "none", query |-> NoQuery, db |-> NoDb, stmt |-> 0, types |-> FALSE]
NoTable   == [s \in StmtId |-> NoStmt]

\* canned: answered with rows kept since the prepare; noop: has no PostgreSQL
\* text; sql: the rest.
Prepared == [query : Query, params : Nat, shape : {"canned", "noop", "sql"}]
StmtData == [params : 0 .. ParamModulus - 1, bound : BOOLEAN]

ASSUME NoStmtAssumption == NoStmt \notin Prepared \cup StmtData

Request  == [cmd : Command \cup {"none"}, query : Queries \cup {NoQuery}, db : Db \cup {NoDb},
             stmt : 0 .. MaxStmt, types : BOOLEAN]

FrontTypeOK ==
  /\ nextConnId \in 1 .. MaxConnId + 1
  /\ killed \subseteq 0 .. MaxConnId
  /\ defaultDb \in Db \cup {NoDb}
  /\ phase \in [Conn -> {"closed", "greeted", "ready", "received", "checked", "calling"}]
  /\ cause \in [Conn -> {"none", "quit", "killed", "error", "protocol", "panic"}]
  /\ connId \in [Conn -> 0 .. MaxConnId]
  /\ currentDb \in [Conn -> Db \cup {NoDb}]
  /\ session \in [Conn -> SessionValue]
  /\ lastInsertId \in [Conn -> 0 .. MaxIdentity]
  /\ nextStmt \in [Conn -> 1 .. MaxStmt + 1]
  /\ prepared \in [Conn -> [StmtId -> Prepared \cup {NoStmt}]]
  /\ stmts \in [Conn -> [StmtId -> StmtData \cup {NoStmt}]]
  /\ request \in [Conn -> Request]
  /\ partsLeft \in [Conn -> 0 .. MaxParts]
  /\ response \in [Conn -> {"none", "ok", "err", "rows", "stmt"}]
  /\ handles \in [Conn -> [StmtId -> {"none", "new", "typed"}]]
  /\ doomed \in [Conn -> BOOLEAN]

FrontInit ==
  /\ Init
  /\ nextConnId = 1
  /\ killed = {}
  /\ defaultDb = NoDb
  /\ phase = [c \in Conn |-> "closed"]
  /\ cause = [c \in Conn |-> "none"]
  /\ connId = [c \in Conn |-> 0]
  /\ currentDb = [c \in Conn |-> NoDb]
  /\ session = [c \in Conn |-> InitialValue]
  /\ lastInsertId = [c \in Conn |-> 0]
  /\ nextStmt = [c \in Conn |-> 1]
  /\ prepared = [c \in Conn |-> NoTable]
  /\ stmts = [c \in Conn |-> NoTable]
  /\ request = [c \in Conn |-> NoRequest]
  /\ partsLeft = [c \in Conn |-> 0]
  /\ response = [c \in Conn |-> "none"]
  /\ handles = [c \in Conn |-> [s \in StmtId |-> "none"]]
  /\ doomed = [c \in Conn |-> FALSE]

-----------------------------------------------------------------------------
(* Connections *)

\* Mutant of Backend: a backend is taken over with the insert id it had.
BackendReused(c, id, db) ==
  /\ connId' = [connId EXCEPT ![c] = id]
  /\ currentDb' = [currentDb EXCEPT ![c] = db]
  /\ session' = [session EXCEPT ![c] = InitialValue]
  /\ nextStmt' = [nextStmt EXCEPT ![c] = 1]
  /\ prepared' = [prepared EXCEPT ![c] = NoTable]
  /\ UNCHANGED lastInsertId

\* The fields of a backend: those of a new one, or of none once it is dropped.
Backend(c, id, db) ==
  /\ connId' = [connId EXCEPT ![c] = id]
  /\ currentDb' = [currentDb EXCEPT ![c] = db]
  /\ session' = [session EXCEPT ![c] = InitialValue]
  /\ lastInsertId' = [lastInsertId EXCEPT ![c] = 0]
  /\ nextStmt' = [nextStmt EXCEPT ![c] = 1]
  /\ prepared' = [prepared EXCEPT ![c] = NoTable]

\* Mutant of Accept: the next id is not advanced.
AcceptSameId(c) ==
  /\ phase[c] = "closed"
  /\ Backend(c, nextConnId, defaultDb)
  /\ phase' = [phase EXCEPT ![c] = "greeted"]
  /\ cause' = [cause EXCEPT ![c] = "none"]
  /\ UNCHANGED <<sharedVars, stmts, request, partsLeft, response, handles, doomed, execVars>>

Accept(c) ==
  /\ phase[c] = "closed"
  /\ nextConnId <= MaxConnId
  /\ nextConnId' = nextConnId + 1
  /\ Backend(c, nextConnId, defaultDb)
  /\ phase' = [phase EXCEPT ![c] = "greeted"]
  /\ cause' = [cause EXCEPT ![c] = "none"]
  /\ UNCHANGED <<killed, defaultDb, stmts, request, partsLeft, response, handles, doomed, execVars>>

\* The connection's task ends and drops the backend and its executor with it.
End(c, why) ==
  /\ Backend(c, 0, NoDb)
  /\ phase' = [phase EXCEPT ![c] = "closed"]
  /\ cause' = [cause EXCEPT ![c] = why]
  /\ stmts' = [stmts EXCEPT ![c] = NoTable]
  /\ request' = [request EXCEPT ![c] = NoRequest]
  /\ partsLeft' = [partsLeft EXCEPT ![c] = 0]
  /\ response' = [response EXCEPT ![c] = "none"]
  /\ handles' = [handles EXCEPT ![c] = [s \in StmtId |-> "none"]]
  /\ doomed' = [doomed EXCEPT ![c] = FALSE]
  /\ Release(c)

\* on_init; a blank name is no database.
InitDb(c, db) ==
  /\ currentDb' = [currentDb EXCEPT ![c] = db]
  /\ defaultDb' = db

HandshakeWithDb(c, db) ==
  /\ phase[c] = "greeted"
  /\ InitDb(c, db)
  /\ phase' = [phase EXCEPT ![c] = "ready"]
  /\ UNCHANGED <<nextConnId, killed, cause, connId, session, lastInsertId, nextStmt, prepared,
                 stmts, request, partsLeft, response, handles, doomed, execVars>>

HandshakeWithoutDb(c) ==
  /\ phase[c] = "greeted"
  /\ phase' = [phase EXCEPT ![c] = "ready"]
  /\ UNCHANGED <<sharedVars, backendVars, cause, stmts, request, partsLeft, response, handles,
                 doomed, execVars>>

\* COM_QUIT, or the client closes its side between two commands.
Quit(c) ==
  /\ phase[c] \in {"greeted", "ready"}
  /\ End(c, "quit")
  /\ UNCHANGED sharedVars

-----------------------------------------------------------------------------
(* Commands *)

Holds(c, s) == handles[c][s] # "none"

\* A conforming client executes and resets the statements it holds, and sends
\* the types of the parameters on the first execute of each.
Execution(s, t) == [NoRequest EXCEPT !.cmd = "execute", !.stmt = s, !.types = t]
Executions(c) ==
  {Execution(s, t) : s \in {x \in StmtId : Conforming => Holds(c, x)}, t \in BOOLEAN}

Requests(c) ==
  LET all == {[NoRequest EXCEPT !.cmd = "query", !.query = q] : q \in Queries}
        \cup {[NoRequest EXCEPT !.cmd = "prepare", !.query = q] :
                q \in {x \in Queries : x.kind # "kill" /\ nextStmt[c] <= MaxStmt}}
        \cup {r \in Executions(c) : Conforming => r.types = (handles[c][r.stmt] = "new")}
        \cup {[NoRequest EXCEPT !.cmd = "close", !.stmt = s] : s \in StmtId}
        \cup {[NoRequest EXCEPT !.cmd = "reset", !.stmt = s] :
                s \in {x \in StmtId : Conforming => Holds(c, x)}}
        \cup {[NoRequest EXCEPT !.cmd = "init_db", !.db = db] : db \in Db \cup {NoDb}}
        \cup {[NoRequest EXCEPT !.cmd = "ping"]}
  IN  {r \in all : r.cmd \in Commands}

Killable == {"query", "execute"}

\* The client sends its next command, having read the reply to the last one.
Receive(c) ==
  /\ phase[c] = "ready"
  /\ \E r \in Requests(c) :
       /\ request' = [request EXCEPT ![c] = r]
       /\ doomed' = [doomed EXCEPT ![c] = r.cmd \in Killable /\ connId[c] \in killed]
       /\ handles' = IF r.cmd = "execute" THEN [handles EXCEPT ![c][r.stmt] = IF @ = "none" THEN @ ELSE "typed"]
                     ELSE IF r.cmd = "close"
                     THEN [handles EXCEPT ![c][r.stmt] = "none"]
                     ELSE handles
  /\ phase' = [phase EXCEPT ![c] = "received"]
  /\ response' = [response EXCEPT ![c] = "none"]
  /\ UNCHANGED <<sharedVars, backendVars, cause, stmts, partsLeft, execVars>>

Serving(c, at, cmd) == phase[c] = at /\ request[c].cmd = cmd

\* The handler answers and the loop reads the next packet.
Answer(c, reply) ==
  /\ phase' = [phase EXCEPT ![c] = "ready"]
  /\ response' = [response EXCEPT ![c] = reply]
  /\ request' = [request EXCEPT ![c] = NoRequest]
  /\ partsLeft' = [partsLeft EXCEPT ![c] = 0]
  /\ doomed' = [doomed EXCEPT ![c] = FALSE]
  /\ UNCHANGED cause

\* The command loop knows the statement; on_execute is only called if it does.
LoopKnows(c) == request[c].cmd = "execute" => stmts[c][request[c].stmt] # NoStmt

CheckNotKilled(c) ==
  /\ phase[c] = "received"
  /\ request[c].cmd \in Killable
  /\ LoopKnows(c)
  /\ connId[c] \notin killed
  /\ phase' = [phase EXCEPT ![c] = "checked"]
  /\ UNCHANGED <<sharedVars, backendVars, cause, stmts, request, partsLeft, response, handles,
                 doomed, execVars>>

\* Mutant of AbortIfKilled: the command is refused and the connection kept.
RefuseIfKilled(c) ==
  /\ phase[c] = "received"
  /\ request[c].cmd \in Killable
  /\ LoopKnows(c)
  /\ connId[c] \in killed
  /\ killed' = killed \ {connId[c]}
  /\ Answer(c, "err")
  /\ UNCHANGED <<nextConnId, defaultDb, backendVars, stmts, handles, execVars>>

AbortIfKilled(c) ==
  /\ phase[c] = "received"
  /\ request[c].cmd \in Killable
  /\ LoopKnows(c)
  /\ connId[c] \in killed
  /\ killed' = killed \ {connId[c]}
  /\ End(c, "killed")
  /\ UNCHANGED <<nextConnId, defaultDb>>

\* Execute or reset of a statement the loop does not know ends the connection.
UnknownToLoop(c) ==
  /\ phase[c] = "received"
  /\ request[c].cmd \in {"execute", "reset"}
  /\ stmts[c][request[c].stmt] = NoStmt
  /\ End(c, "protocol")
  /\ UNCHANGED sharedVars

-----------------------------------------------------------------------------
(* COM_PING, COM_INIT_DB, COM_STMT_CLOSE, COM_STMT_RESET *)

\* Ping, the text SELECT @@max_allowed_packet and every command the loop does not
\* know are answered without a call of the handler.
Ping(c) ==
  /\ Serving(c, "received", "ping")
  /\ Answer(c, "ok")
  /\ UNCHANGED <<sharedVars, backendVars, stmts, handles, execVars>>

ServeInit(c) ==
  /\ Serving(c, "received", "init_db")
  /\ InitDb(c, request[c].db)
  /\ Answer(c, "ok")
  /\ UNCHANGED <<nextConnId, killed, connId, session, lastInsertId, nextStmt, prepared, stmts,
                 handles, execVars>>

\* Mutant of ServeClose: the statement stays in the backend's table.
ServeCloseInLoop(c) ==
  /\ Serving(c, "received", "close")
  /\ stmts' = [stmts EXCEPT ![c][request[c].stmt] = NoStmt]
  /\ Answer(c, "none")
  /\ UNCHANGED <<sharedVars, backendVars, handles, execVars>>

\* The one command that is not replied to.
ServeClose(c) ==
  /\ Serving(c, "received", "close")
  /\ prepared' = [prepared EXCEPT ![c][request[c].stmt] = NoStmt]
  /\ stmts' = [stmts EXCEPT ![c][request[c].stmt] = NoStmt]
  /\ Answer(c, "none")
  /\ UNCHANGED <<sharedVars, connId, currentDb, session, lastInsertId, nextStmt, handles, execVars>>

ServeReset(c) ==
  /\ Serving(c, "received", "reset")
  /\ stmts[c][request[c].stmt] # NoStmt
  /\ Answer(c, "ok")
  /\ UNCHANGED <<sharedVars, backendVars, stmts, handles, execVars>>

-----------------------------------------------------------------------------
(* COM_QUERY *)

Asked(c) == request[c].query

\* What the proxy answers by itself to a query of a kind, changing nothing.
LocalReply(kind) == CASE kind \in {"session_read", "canned"} -> "rows"
                      [] kind = "noop" -> "ok"
                      [] OTHER -> "err"

OpOf(kind) == IF kind \in {"select", "select_star", "option", "multi"} THEN "query" ELSE kind

QueryLocal(c) ==
  /\ Serving(c, "checked", "query")
  /\ Asked(c).kind \in Local \ {"kill", "session_set", "create_db", "drop_db"}
  /\ Answer(c, LocalReply(Asked(c).kind))
  /\ UNCHANGED <<sharedVars, backendVars, stmts, handles, execVars>>

QueryKill(c) ==
  /\ Serving(c, "checked", "query")
  /\ Asked(c).kind = "kill"
  /\ killed' = killed \cup {Asked(c).target}
  /\ Answer(c, "ok")
  /\ UNCHANGED <<nextConnId, defaultDb, backendVars, stmts, handles, execVars>>

QuerySet(c) ==
  /\ Serving(c, "checked", "query")
  /\ Asked(c).kind = "session_set"
  /\ session' = [session EXCEPT ![c] = Asked(c).value]
  /\ Answer(c, "ok")
  /\ UNCHANGED <<sharedVars, connId, currentDb, lastInsertId, nextStmt, prepared, stmts, handles,
                 execVars>>

\* The handler awaits the executor.
Awaits(c, op, schema, isPrepared) ==
  /\ Begin(c, op, schema, isPrepared)
  /\ phase' = [phase EXCEPT ![c] = "calling"]
  /\ UNCHANGED <<sharedVars, cause, request, response, doomed>>

QuerySchemaDdl(c) ==
  /\ Serving(c, "checked", "query")
  /\ \/ Asked(c).kind = "create_db" /\ Awaits(c, "create_schema", Asked(c).db, FALSE)
     \/ Asked(c).kind = "drop_db" /\ Awaits(c, "drop_schema", Asked(c).db, FALSE)
  /\ UNCHANGED <<backendVars, stmts, partsLeft, handles>>

\* Mutant of QueryStatement: the shared default database is used.
QueryStatementInDefault(c) ==
  /\ Serving(c, "checked", "query")
  /\ Asked(c).kind \in Translated
  /\ Awaits(c, OpOf(Asked(c).kind), defaultDb, FALSE)
  /\ UNCHANGED <<backendVars, stmts, partsLeft, handles>>

QueryStatement(c) ==
  /\ Serving(c, "checked", "query")
  /\ Asked(c).kind \in Translated
  /\ Awaits(c, OpOf(Asked(c).kind), currentDb[c], FALSE)
  /\ UNCHANGED <<backendVars, stmts, partsLeft, handles>>

-----------------------------------------------------------------------------
(* COM_STMT_PREPARE *)

\* Kinds whose result columns the proxy infers from the text.
Inferred == {"select", "option"}

ShapeOf(kind) == CASE kind \in {"session_read", "canned"} -> "canned"
                   [] kind \in Noop -> "noop"
                   [] OTHER -> "sql"

\* Mutant of Register: the loop's count is not cut.
RegisterUncut(c, id) ==
  LET q == Asked(c)
  IN  /\ prepared' = [prepared EXCEPT ![c][id] =
                        [query |-> q, params |-> q.params, shape |-> ShapeOf(q.kind)]]
      /\ stmts' = [stmts EXCEPT ![c][id] = [params |-> q.params, bound |-> FALSE]]
      /\ handles' = [handles EXCEPT ![c][id] = "new"]
      /\ Answer(c, "stmt")

\* The statement enters both tables, the loop's with its count cut to u16.
Register(c, id) ==
  LET q == Asked(c)
      n == IF q.kind = "session_read" THEN 0 ELSE q.params
  IN  /\ prepared' = [prepared EXCEPT ![c][id] = [query |-> q, params |-> n, shape |-> ShapeOf(q.kind)]]
      /\ stmts' = [stmts EXCEPT ![c][id] = [params |-> n % ParamModulus, bound |-> FALSE]]
      /\ handles' = [handles EXCEPT ![c][id] = "new"]
      /\ Answer(c, "stmt")

PrepareAtOnce(c) ==
  /\ Serving(c, "received", "prepare")
  /\ ShapeOf(Asked(c).kind) # "sql" \/ Asked(c).kind \in Inferred
  /\ nextStmt' = [nextStmt EXCEPT ![c] = @ + 1]
  /\ Register(c, nextStmt[c])
  /\ UNCHANGED <<sharedVars, connId, currentDb, session, lastInsertId, execVars>>

PrepareRefused(c) ==
  /\ Serving(c, "received", "prepare")
  /\ Asked(c).kind \in {"load_data", "untranslatable"}
  /\ Answer(c, "err")
  /\ UNCHANGED <<sharedVars, backendVars, stmts, handles, execVars>>

\* The id is taken before the columns are asked for.
PrepareDescribes(c) ==
  /\ Serving(c, "received", "prepare")
  /\ Asked(c).kind \in Translated \ Inferred
  /\ nextStmt' = [nextStmt EXCEPT ![c] = @ + 1]
  /\ Awaits(c, "describe", currentDb[c], TRUE)
  /\ UNCHANGED <<connId, currentDb, session, lastInsertId, prepared, stmts, partsLeft, handles>>

\* Mutant of FinishPrepare: nothing is done about a failed description.
FinishPrepareIfOk(c) ==
  /\ Serving(c, "calling", "prepare")
  /\ At(c, "ok")
  /\ Return(c)
  /\ Register(c, nextStmt[c] - 1)
  /\ UNCHANGED <<sharedVars, connId, currentDb, session, lastInsertId, nextStmt>>

\* Mutant of FinishPrepare: the description is not waited for to its end.
FinishPrepareEarly(c) ==
  /\ Serving(c, "calling", "prepare")
  /\ call' = [call EXCEPT ![c] = IdleCall]
  /\ Register(c, nextStmt[c] - 1)
  /\ UNCHANGED <<sharedVars, connId, currentDb, session, lastInsertId, nextStmt, client, path,
                 savedPath, txn, identity, wrote>>

\* A failed description is swallowed.
FinishPrepare(c) ==
  /\ Serving(c, "calling", "prepare")
  /\ Return(c)
  /\ Register(c, nextStmt[c] - 1)
  /\ UNCHANGED <<sharedVars, connId, currentDb, session, lastInsertId, nextStmt>>

-----------------------------------------------------------------------------
(* COM_STMT_EXECUTE *)

Statement(c) == prepared[c][request[c].stmt]
Data(c)      == stmts[c][request[c].stmt]

\* A statement missing from the backend's table alone would be an error reply.
ExecuteLocal(c) ==
  /\ Serving(c, "checked", "execute")
  /\ \/ Statement(c) = NoStmt /\ Answer(c, "err")
     \/ /\ Statement(c) # NoStmt /\ Statement(c).shape \in {"canned", "noop"}
        /\ Statement(c).query.kind # "session_set"
        /\ Answer(c, CASE Statement(c).shape = "canned" -> "rows"
                       [] Statement(c).query.kind = "session_bad" -> "err"
                       [] OTHER -> "ok")
  /\ UNCHANGED <<sharedVars, backendVars, stmts, handles, execVars>>

ExecuteSet(c) ==
  /\ Serving(c, "checked", "execute")
  /\ Statement(c) # NoStmt /\ Statement(c).query.kind = "session_set"
  /\ session' = [session EXCEPT ![c] = Statement(c).query.value]
  /\ Answer(c, "ok")
  /\ UNCHANGED <<sharedVars, connId, currentDb, lastInsertId, nextStmt, prepared, stmts, handles,
                 execVars>>

Decodes(c) == /\ Serving(c, "checked", "execute")
              /\ Statement(c) # NoStmt /\ Statement(c).shape = "sql"

\* The types come with the command or are remembered from an earlier one.
HasTypes(c) == Data(c).params = 0 \/ request[c].types \/ Data(c).bound

\* Mutant of BindTypes: the types are used and not kept.
ForgetTypes(c) == UNCHANGED stmts

BindTypes(c) ==
  stmts' = [stmts EXCEPT ![c][request[c].stmt].bound = @ \/ (Data(c).params > 0)]

ExecuteWithoutTypes(c) ==
  /\ Decodes(c)
  /\ ~HasTypes(c)
  /\ End(c, "panic")
  /\ UNCHANGED sharedVars

\* A value that does not decode, or fewer values than placeholders.
ExecuteRefused(c) ==
  /\ Decodes(c)
  /\ HasTypes(c)
  /\ Data(c).params > 0 \/ Data(c).params # Statement(c).params
  /\ BindTypes(c)
  /\ Answer(c, "err")
  /\ UNCHANGED <<sharedVars, backendVars, handles, execVars>>

\* Without parameters, a text with ; in it is run piece by piece.
IsSplit(c) == Statement(c).query.kind = "multi" /\ Data(c).params = 0

ExecuteStatement(c) ==
  /\ Decodes(c)
  /\ HasTypes(c)
  /\ Data(c).params = Statement(c).params
  /\ ~IsSplit(c)
  /\ BindTypes(c)
  /\ Awaits(c, OpOf(Statement(c).query.kind), currentDb[c], TRUE)
  /\ UNCHANGED <<backendVars, partsLeft, handles>>

ExecuteParts(c) ==
  /\ Decodes(c)
  /\ Data(c).params = Statement(c).params
  /\ IsSplit(c)
  /\ phase' = [phase EXCEPT ![c] = "calling"]
  /\ \E n \in 1 .. MaxParts : partsLeft' = [partsLeft EXCEPT ![c] = n]
  /\ UNCHANGED <<sharedVars, backendVars, cause, stmts, request, response, handles, doomed,
                 execVars>>

\* A piece is run by what it is, whatever the text as a whole was taken for.
BeginPart(c) ==
  /\ Serving(c, "calling", "execute")
  /\ partsLeft[c] > 0
  /\ \E op \in Runnable : Awaits(c, op, currentDb[c], FALSE)
  /\ partsLeft' = [partsLeft EXCEPT ![c] = @ - 1]
  /\ UNCHANGED <<backendVars, stmts, handles>>

\* The ? after each piece: the pieces that ran stay, the others are not begun.
FinishPart(c) ==
  /\ Serving(c, "calling", "execute")
  /\ At(c, "ok") /\ partsLeft[c] > 0
  /\ Return(c)
  /\ UNCHANGED <<frontVars>>

-----------------------------------------------------------------------------
(* Results of a text query or an execution *)

Subject(c) == IF request[c].cmd = "execute" THEN Statement(c).query ELSE Asked(c)

Ends(c, outcomes) == /\ phase[c] = "calling"
                     /\ request[c].cmd \in {"query", "execute"}
                     /\ call[c].stage \in outcomes

\* A result of other columns than the ones kept since the prepare: its rows
\* cannot be written under them, and the connection ends.
MayNotFit(c) == request[c].cmd = "execute" /\ Subject(c).kind = "select_star"

FinishStatement(c) ==
  /\ Ends(c, {"ok"})
  /\ partsLeft[c] = 0
  /\ Subject(c).kind \in Translated
  /\ lastInsertId' = [lastInsertId EXCEPT ![c] =
                        IF call[c].lastId > 0 /\ Subject(c).kind # "multi" THEN call[c].lastId ELSE @]
  /\ Return(c)
  /\ Answer(c, IF OpOf(Subject(c).kind) = "query" /\ Subject(c).kind # "multi" THEN "rows" ELSE "ok")
  /\ UNCHANGED <<sharedVars, connId, currentDb, session, nextStmt, prepared, stmts, handles>>

FinishMisfit(c) ==
  /\ Ends(c, {"ok"})
  /\ MayNotFit(c)
  /\ End(c, "error")
  /\ UNCHANGED sharedVars

\* Mutant of FinishFailed: the error leaves on_query, as it once did.
FinishByDropping(c) ==
  /\ Ends(c, Failure)
  /\ Subject(c).kind \in Translated
  /\ End(c, "error")
  /\ UNCHANGED sharedVars

FinishFailed(c) ==
  /\ Ends(c, Failure)
  /\ Subject(c).kind \in Translated
  /\ Return(c)
  /\ Answer(c, "err")
  /\ UNCHANGED <<sharedVars, backendVars, stmts, handles>>

\* PostgreSQL misses Matomo's option table: an execution finds it empty.
FinishOption(c) ==
  /\ Ends(c, {"rejected"})
  /\ request[c].cmd = "execute" /\ Subject(c).kind = "option"
  /\ Return(c)
  /\ Answer(c, "rows")
  /\ UNCHANGED <<sharedVars, backendVars, stmts, handles>>

FinishCreate(c) ==
  /\ Ends(c, {"ok"})
  /\ call[c].op = "create_schema"
  /\ currentDb' = [currentDb EXCEPT ![c] = Asked(c).db]
  /\ defaultDb' = Asked(c).db
  /\ Return(c)
  /\ Answer(c, "ok")
  /\ UNCHANGED <<nextConnId, killed, connId, session, lastInsertId, nextStmt, prepared, stmts, handles>>

FinishDrop(c) ==
  /\ Ends(c, {"ok"})
  /\ call[c].op = "drop_schema"
  /\ currentDb' = [currentDb EXCEPT ![c] = IF @ = Asked(c).db THEN NoDb ELSE @]
  /\ defaultDb' = IF defaultDb = Asked(c).db THEN NoDb ELSE defaultDb
  /\ Return(c)
  /\ Answer(c, "ok")
  /\ UNCHANGED <<nextConnId, killed, connId, session, lastInsertId, nextStmt, prepared, stmts, handles>>

\* The ? on create_schema and drop_schema leaves on_query, and the connection.
FinishDdlFailed(c) ==
  /\ Ends(c, Failure)
  /\ call[c].op \in SchemaDdl
  /\ End(c, "error")
  /\ UNCHANGED sharedVars

-----------------------------------------------------------------------------
(* Specification *)

Connect(c) == \/ Accept(c)
              \/ HandshakeWithoutDb(c)
              \/ \E db \in Db \cup {NoDb} : HandshakeWithDb(c, db)

ServeCommand(c) ==
  \/ CheckNotKilled(c) \/ AbortIfKilled(c) \/ UnknownToLoop(c)
  \/ Ping(c) \/ ServeInit(c) \/ ServeClose(c) \/ ServeReset(c)

ServeQuery(c) ==
  \/ QueryLocal(c) \/ QueryKill(c) \/ QuerySet(c) \/ QuerySchemaDdl(c) \/ QueryStatement(c)

ServePrepare(c) ==
  \/ PrepareAtOnce(c) \/ PrepareRefused(c) \/ PrepareDescribes(c) \/ FinishPrepare(c)

ServeExecute(c) ==
  \/ ExecuteLocal(c) \/ ExecuteSet(c) \/ ExecuteWithoutTypes(c) \/ ExecuteRefused(c)
  \/ ExecuteStatement(c) \/ ExecuteParts(c) \/ BeginPart(c) \/ FinishPart(c)

Finish(c) ==
  \/ FinishStatement(c) \/ FinishMisfit(c) \/ FinishFailed(c) \/ FinishOption(c)
  \/ FinishCreate(c) \/ FinishDrop(c) \/ FinishDdlFailed(c)

Awaited(c) == Advance(c) /\ UNCHANGED frontVars

PgLeaves(c) == PgDisconnects(c) /\ UNCHANGED frontVars

\* What c's task does to serve a command.
Serve(c) == ServeCommand(c) \/ ServeQuery(c) \/ ServePrepare(c) \/ ServeExecute(c)
              \/ Finish(c) \/ Awaited(c)

FrontNext == \E c \in Conn : Connect(c) \/ Quit(c) \/ Receive(c) \/ Serve(c) \/ PgLeaves(c)

\* A spawned task is polled until it ends, and PostgreSQL answers or closes the
\* session.  Nobody has to connect, send a command or quit.
FrontSpec == FrontInit /\ [][FrontNext]_vars /\ \A c \in Conn : WF_vars(Serve(c))

-----------------------------------------------------------------------------
(* Properties *)

\* A statement runs in PostgreSQL under the database its connection is in, not
\* one another connection chose or an earlier statement of its own left behind
\* (mysql_server.rs: active_schema_name(current_db) at every call).
RunsInCurrentDb ==
  \A c \in Conn :
    At(c, "run") /\ client[c] = "open" /\ call[c].op \notin SchemaDdl /\ currentDb[c] # NoDb
      => path[c] = currentDb[c]

\* The two tables of prepared statements, one in the backend and one in the
\* command loop, hold the same statements with the same number of parameters,
\* and the client holds no other (on_prepare, on_close; lib.rs: stmts).
TablesAgree ==
  \A c \in Conn, s \in StmtId :
    /\ (prepared[c][s] = NoStmt) = (stmts[c][s] = NoStmt)
    /\ prepared[c][s] # NoStmt => stmts[c][s].params = prepared[c][s].params % ParamModulus
    /\ Holds(c, s) => prepared[c][s] # NoStmt
    /\ s >= nextStmt[c] => prepared[c][s] = NoStmt

\* A client that keeps to the protocol is never cut off for a statement the
\* server lost or for types it did not keep (params.rs: bound_types).
ConformingIsServed == Conforming => \A c \in Conn : cause[c] \notin {"protocol", "panic"}

\* A connection whose id was killed by the time its query or execute arrived
\* does not start it, whoever else is killed meanwhile and whatever slots are
\* reused (abort_if_connection_killed, NEXT_CONNECTION_ID).
KilledRunsNothing == \A c \in Conn : doomed[c] => phase[c] = "received"

\* The insert id of a connection is that of a row it wrote itself
\* (on_query and on_execute: last_insert_id).
LastInsertIdIsOwn == \A c \in Conn : lastInsertId[c] # 0 => lastInsertId[c] \in wrote[c]

\* Only a CREATE or DROP DATABASE that fails takes the connection down; any
\* other failed call is answered with a packet (the ? in on_query).
OnlySchemaDdlDrops ==
  [][\A c \in Conn :
       phase[c] = "calling" /\ call[c].stage \in Failure /\ phase'[c] = "closed"
         => Asked(c).kind \in {"create_db", "drop_db"}]_vars

\* Every command is answered, or its connection ended (the command loop).
CommandsEnd == \A c \in Conn : phase[c] = "received" ~> phase[c] \in {"ready", "closed"}

\* A killed connection that sends another query or execute is ended.
KillsEnd == \A c \in Conn : doomed[c] ~> phase[c] = "closed"

\* Whatever its clients send, the frontend calls the session executors as their
\* own specification lets them be called, and touches their sessions in no other
\* way (every await of self.executor in mysql_server.rs).
ExecutorSpec == Init /\ [][Next]_execVars

=============================================================================
