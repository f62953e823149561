------------------------ MODULE MySqlFrontendProofs ------------------------
(* Proofs about the MySQL frontend, for any connections, databases, queries *)
(* and bounds.  What a step does to the executors is one of their own steps, *)
(* so their invariant, ExecInv, holds as it does in SessionExecutorProofs.  *)
EXTENDS MySqlFrontend, SessionExecutorProofs

FrontStep(c) == Connect(c) \/ Quit(c) \/ Receive(c) \/ Serve(c) \/ PgLeaves(c)

\* A statement that has a PostgreSQL text is one the proxy translates.
WellShaped(c) ==
  /\ \A s \in StmtId : prepared[c][s] # NoStmt /\ prepared[c][s].shape = "sql" =>
       prepared[c][s].query.kind \in Translated
  /\ \A s \in StmtId : (prepared[c][s] = NoStmt) = (stmts[c][s] = NoStmt)
  /\ phase[c] = "closed" => \A s \in StmtId : prepared[c][s] = NoStmt
  /\ request[c].cmd = "prepare" => Asked(c).kind # "kill"
  /\ request[c].cmd \in {"execute", "close", "reset"} => request[c].stmt \in StmtId
  /\ phase[c] = "received" /\ request[c].cmd = "prepare" => nextStmt[c] <= MaxStmt
  /\ phase[c] = "calling" /\ request[c].cmd = "prepare" =>
       nextStmt[c] > 1 /\ Asked(c).kind \in Translated

-----------------------------------------------------------------------------
(* The executors *)

LEMMA KnownOps ==
  ASSUME NEW kind \in Translated
  PROVE  OpOf(kind) \in Op /\ OpOf(kind) # "describe" /\ OpOf(kind) \notin SchemaDdl
  BY DEF OpOf, Translated, Op, Runnable, Ending, SchemaDdl

LEMMA QueryFields ==
  ASSUME FrontTypeOK, NEW c \in Conn
  PROVE  /\ request[c] \in Request
         /\ Asked(c) \in Query /\ Asked(c).db \in Db \cup {NoDb}
         /\ currentDb[c] \in Db \cup {NoDb}
  <1>1. NoQuery \in Query
    BY FrontendAssumption DEF NoQuery, Query, Local, Noop, ConnId
  <1>2. request[c] \in Request /\ currentDb[c] \in Db \cup {NoDb}
    BY DEF FrontTypeOK
  <1>3. Asked(c) \in Query
    BY <1>1, <1>2, QueriesAssumption DEF Request, Asked
  <1> QED
    BY <1>2, <1>3 DEF Query

\* What a step of the frontend does to the executors.
LEMMA ExecMoves ==
  ASSUME FrontTypeOK, NEW c \in Conn, WellShaped(c), FrontStep(c)
  PROVE  ExecStep(c) \/ UNCHANGED execVars
  <1> USE DEF ExecStep, BeginSome, Shape
  <1>1. CASE Connect(c) \/ Quit(c) \/ Receive(c) \/ PgLeaves(c) \/ Awaited(c)
    BY <1>1 DEF Connect, Accept, HandshakeWithoutDb, HandshakeWithDb, Quit, End, Receive, PgLeaves,
                Awaited
  <1>2. CASE ServeCommand(c)
    BY <1>2 DEF ServeCommand, CheckNotKilled, AbortIfKilled, UnknownToLoop, Ping, ServeInit,
                ServeClose, ServeReset, End
  <1>3. CASE ServeQuery(c)
    <2>1. CASE QueryLocal(c) \/ QueryKill(c) \/ QuerySet(c)
      BY <2>1 DEF QueryLocal, QueryKill, QuerySet
    <2>2. CASE QuerySchemaDdl(c)
      BY <2>2, QueryFields DEF QuerySchemaDdl, Awaits, Op, SchemaDdl
    <2>3. CASE QueryStatement(c)
      BY <2>3, QueryFields, KnownOps DEF QueryStatement, Awaits
    <2> QED
      BY <1>3, <2>1, <2>2, <2>3 DEF ServeQuery
  <1>4. CASE ServePrepare(c)
    BY <1>4, QueryFields DEF ServePrepare, PrepareAtOnce, PrepareRefused, PrepareDescribes,
                             FinishPrepare, Awaits, Op, SchemaDdl
  <1>5. CASE ServeExecute(c)
    <2>1. CASE ExecuteLocal(c) \/ ExecuteSet(c) \/ ExecuteWithoutTypes(c) \/ ExecuteRefused(c)
                 \/ ExecuteParts(c) \/ FinishPart(c)
      BY <2>1 DEF ExecuteLocal, ExecuteSet, ExecuteWithoutTypes, ExecuteRefused, ExecuteParts,
                  FinishPart, End
    <2>2. CASE ExecuteStatement(c)
      <3>1. Statement(c).query.kind \in Translated /\ request[c].cmd = "execute"
        BY <2>2 DEF ExecuteStatement, Decodes, Serving, WellShaped, Statement
      <3> QED
        BY <2>2, <3>1, QueryFields, KnownOps DEF ExecuteStatement, Awaits
    <2>3. CASE BeginPart(c)
      BY <2>3, QueryFields DEF BeginPart, Awaits, Op, Runnable, Ending, SchemaDdl
    <2> QED
      BY <1>5, <2>1, <2>2, <2>3 DEF ServeExecute
  <1>6. CASE Finish(c)
    BY <1>6 DEF Finish, FinishStatement, FinishMisfit, FinishFailed, FinishOption, FinishCreate,
                FinishDrop, FinishDdlFailed, End
  <1> QED
    BY <1>1, <1>2, <1>3, <1>4, <1>5, <1>6 DEF FrontStep, Serve

-----------------------------------------------------------------------------
(* Frames: what a step of c leaves alone of the other connections *)

Same(d) ==
  /\ phase'[d] = phase[d] /\ cause'[d] = cause[d] /\ connId'[d] = connId[d]
  /\ currentDb'[d] = currentDb[d] /\ lastInsertId'[d] = lastInsertId[d]
  /\ nextStmt'[d] = nextStmt[d] /\ prepared'[d] = prepared[d] /\ stmts'[d] = stmts[d]
  /\ request'[d] = request[d] /\ handles'[d] = handles[d] /\ doomed'[d] = doomed[d]

LEMMA FrontFrame ==
  ASSUME FrontTypeOK, NEW c \in Conn, FrontStep(c), NEW d \in Conn, d # c
  PROVE  Same(d) /\ connId[d] \notin killed \ (killed' \cup {connId[c]}) /\ nextConnId' >= nextConnId
  <1> USE DEF Same, FrontTypeOK, End, Backend, Answer, Awaits, InitDb, frontVars, sharedVars,
              backendVars, taskVars
  <1>1. CASE Connect(c) \/ Quit(c) \/ Receive(c) \/ PgLeaves(c) \/ Awaited(c)
    BY <1>1 DEF Connect, Accept, HandshakeWithoutDb, HandshakeWithDb, Quit, Receive, PgLeaves,
                Awaited
  <1>2. CASE ServeCommand(c)
    BY <1>2 DEF ServeCommand, CheckNotKilled, AbortIfKilled, UnknownToLoop, Ping, ServeInit,
                ServeClose, ServeReset
  <1>3. CASE ServeQuery(c)
    <2>1. CASE QueryLocal(c) \/ QueryKill(c) \/ QuerySet(c)
      BY <2>1 DEF QueryLocal, QueryKill, QuerySet
    <2>2. CASE QuerySchemaDdl(c)
      <3>1. \E op \in SchemaDdl : Awaits(c, op, Asked(c).db, FALSE)
        BY <2>2 DEF QuerySchemaDdl, SchemaDdl
      <3>2. UNCHANGED <<backendVars, stmts, partsLeft, handles>>
        BY <2>2 DEF QuerySchemaDdl
      <3> QED
        BY <3>1, <3>2
    <2>3. CASE QueryStatement(c)
      BY <2>3 DEF QueryStatement
    <2> QED
      BY <1>3, <2>1, <2>2, <2>3 DEF ServeQuery
  <1>4. CASE ServePrepare(c)
    <2>1. CASE PrepareAtOnce(c)
      BY <2>1 DEF PrepareAtOnce, Register
    <2>2. CASE PrepareRefused(c)
      BY <2>2 DEF PrepareRefused
    <2>3. CASE PrepareDescribes(c)
      BY <2>3 DEF PrepareDescribes
    <2>4. CASE FinishPrepare(c)
      BY <2>4 DEF FinishPrepare, Register
    <2> QED
      BY <1>4, <2>1, <2>2, <2>3, <2>4 DEF ServePrepare
  <1>5. CASE ServeExecute(c)
    <2>1. CASE ExecuteLocal(c) \/ ExecuteSet(c) \/ ExecuteWithoutTypes(c)
      BY <2>1 DEF ExecuteLocal, ExecuteSet, ExecuteWithoutTypes
    <2>2. CASE ExecuteRefused(c)
      BY <2>2 DEF ExecuteRefused, BindTypes
    <2>3. CASE ExecuteStatement(c)
      BY <2>3 DEF ExecuteStatement, BindTypes
    <2>4. CASE ExecuteParts(c)
      BY <2>4 DEF ExecuteParts
    <2>5. CASE BeginPart(c)
      BY <2>5 DEF BeginPart
    <2>6. CASE FinishPart(c)
      BY <2>6 DEF FinishPart
    <2> QED
      BY <1>5, <2>1, <2>2, <2>3, <2>4, <2>5, <2>6 DEF ServeExecute
  <1>6. CASE Finish(c)
    <2>1. CASE FinishStatement(c)
      BY <2>1 DEF FinishStatement
    <2>2. CASE FinishMisfit(c) \/ FinishFailed(c) \/ FinishOption(c)
      BY <2>2 DEF FinishMisfit, FinishFailed, FinishOption
    <2>3. CASE FinishCreate(c) \/ FinishDrop(c)
      BY <2>3 DEF FinishCreate, FinishDrop
    <2>4. CASE FinishDdlFailed(c)
      BY <2>4 DEF FinishDdlFailed
    <2> QED
      BY <1>6, <2>1, <2>2, <2>3, <2>4 DEF Finish
  <1> QED
    BY <1>1, <1>2, <1>3, <1>4, <1>5, <1>6 DEF FrontStep, Serve

-----------------------------------------------------------------------------
(* Type correctness *)

LEMMA Initials ==
  /\ NoQuery \in Query /\ NoRequest \in Request
  /\ NoTable \in [StmtId -> {NoStmt}]
  <1>1. NoQuery \in Query
    BY FrontendAssumption DEF NoQuery, Query, Local, Noop, ConnId
  <1> QED
    BY <1>1, FrontendAssumption DEF NoRequest, Request, NoTable

LEMMA BackendType ==
  ASSUME FrontTypeOK, NEW c \in Conn, NEW id \in 0 .. MaxConnId, NEW db \in Db \cup {NoDb},
         Backend(c, id, db)
  PROVE  /\ connId' \in [Conn -> 0 .. MaxConnId]
         /\ currentDb' \in [Conn -> Db \cup {NoDb}]
         /\ session' \in [Conn -> SessionValue]
         /\ lastInsertId' \in [Conn -> 0 .. MaxIdentity]
         /\ nextStmt' \in [Conn -> 1 .. MaxStmt + 1]
         /\ prepared' \in [Conn -> [StmtId -> Prepared \cup {NoStmt}]]
  BY FrontendAssumption, ExecutorAssumption, Initials DEF FrontTypeOK, Backend

LEMMA EndType ==
  ASSUME FrontTypeOK, NEW c \in Conn, NEW why \in {"quit", "killed", "error", "protocol", "panic"},
         End(c, why), nextConnId' = nextConnId, killed' \subseteq killed, defaultDb' = defaultDb
  PROVE  FrontTypeOK'
  <1>1. 0 \in 0 .. MaxConnId
    BY FrontendAssumption
  <1>2. /\ connId' \in [Conn -> 0 .. MaxConnId]
        /\ currentDb' \in [Conn -> Db \cup {NoDb}]
        /\ session' \in [Conn -> SessionValue]
        /\ lastInsertId' \in [Conn -> 0 .. MaxIdentity]
        /\ nextStmt' \in [Conn -> 1 .. MaxStmt + 1]
        /\ prepared' \in [Conn -> [StmtId -> Prepared \cup {NoStmt}]]
    BY <1>1, BackendType DEF End
  <1>3. /\ phase' \in [Conn -> {"closed", "greeted", "ready", "received", "checked", "calling"}]
        /\ cause' \in [Conn -> {"none", "quit", "killed", "error", "protocol", "panic"}]
        /\ stmts' \in [Conn -> [StmtId -> StmtData \cup {NoStmt}]]
        /\ request' \in [Conn -> Request]
        /\ partsLeft' \in [Conn -> 0 .. MaxParts]
        /\ response' \in [Conn -> {"none", "ok", "err", "rows", "stmt"}]
        /\ handles' \in [Conn -> [StmtId -> {"none", "new", "typed"}]]
    BY FrontendAssumption, Initials DEF FrontTypeOK, End
  <1>4. doomed' \in [Conn -> BOOLEAN]
    BY DEF FrontTypeOK, End
  <1> QED
    BY <1>2, <1>3, <1>4 DEF FrontTypeOK

LEMMA AnswerType ==
  ASSUME FrontTypeOK, NEW c \in Conn, NEW reply \in {"none", "ok", "err", "rows", "stmt"},
         Answer(c, reply)
  PROVE  /\ phase' \in [Conn -> {"closed", "greeted", "ready", "received", "checked", "calling"}]
         /\ cause' = cause
         /\ request' \in [Conn -> Request]
         /\ partsLeft' \in [Conn -> 0 .. MaxParts]
         /\ response' \in [Conn -> {"none", "ok", "err", "rows", "stmt"}]
         /\ doomed' \in [Conn -> BOOLEAN]
  <1>1. doomed' \in [Conn -> BOOLEAN]
    BY DEF FrontTypeOK, Answer
  <1> QED
    BY <1>1, FrontendAssumption, Initials DEF FrontTypeOK, Answer

LEMMA RegisterType ==
  ASSUME FrontTypeOK, NEW c \in Conn, NEW id \in StmtId, Register(c, id)
  PROVE  /\ prepared' \in [Conn -> [StmtId -> Prepared \cup {NoStmt}]]
         /\ stmts' \in [Conn -> [StmtId -> StmtData \cup {NoStmt}]]
         /\ handles' \in [Conn -> [StmtId -> {"none", "new", "typed"}]]
  <1> DEFINE q == Asked(c)
             n == IF q.kind = "session_read" THEN 0 ELSE q.params
             p == [query |-> q, params |-> n, shape |-> ShapeOf(q.kind)]
             m == [params |-> n % ParamModulus, bound |-> FALSE]
  <1>1. q \in Query /\ n \in Nat
    BY QueryFields DEF Query
  <1>2. n % ParamModulus \in 0 .. ParamModulus - 1
    BY <1>1, FrontendAssumption
  <1>3. ShapeOf(q.kind) \in {"canned", "noop", "sql"}
    BY DEF ShapeOf
  <1>4. p \in Prepared /\ m \in StmtData
    BY <1>1, <1>2, <1>3 DEF Prepared, StmtData
  <1>5. /\ prepared' = [prepared EXCEPT ![c][id] = p]
        /\ stmts' = [stmts EXCEPT ![c][id] = m]
        /\ handles' = [handles EXCEPT ![c][id] = "new"]
    BY DEF Register
  <1> HIDE DEF p, m
  <1> QED
    BY <1>4, <1>5 DEF FrontTypeOK

LEMMA RequestType ==
  ASSUME FrontTypeOK, NEW c \in Conn, NEW r \in Requests(c)
  PROVE  /\ r \in Request
         /\ r.cmd \in {"execute", "close", "reset"} => r.stmt \in StmtId
         /\ r.cmd = "prepare" => r.query.kind # "kill" /\ nextStmt[c] <= MaxStmt
         /\ Conforming /\ r.cmd \in {"execute", "reset"} => Holds(c, r.stmt)
         /\ Conforming /\ r.cmd = "execute" => r.types = (handles[c][r.stmt] = "new")
  <1> USE DEF Request, Command
  <1>1. NoRequest \in Request
    BY Initials
  <1>2. StmtId \subseteq 0 .. MaxStmt /\ 0 \in 0 .. MaxStmt
    BY FrontendAssumption DEF StmtId
  <1>3. CASE \E q \in Queries : r = [NoRequest EXCEPT !.cmd = "query", !.query = q]
    BY <1>1, <1>3
  <1>4. CASE \E q \in {x \in Queries : x.kind # "kill" /\ nextStmt[c] <= MaxStmt} :
               r = [NoRequest EXCEPT !.cmd = "prepare", !.query = q]
    BY <1>1, <1>4
  <1>5. CASE /\ \E s \in {x \in StmtId : Conforming => Holds(c, x)}, t \in BOOLEAN : r = Execution(s, t)
             /\ Conforming => r.types = (handles[c][r.stmt] = "new")
    BY <1>1, <1>2, <1>5 DEF Execution
  <1>6. CASE \E s \in StmtId : r = [NoRequest EXCEPT !.cmd = "close", !.stmt = s]
    BY <1>1, <1>2, <1>6
  <1>7. CASE \E s \in {x \in StmtId : Conforming => Holds(c, x)} : r = [NoRequest EXCEPT !.cmd = "reset", !.stmt = s]
    BY <1>1, <1>2, <1>7
  <1>8. CASE \E db \in Db \cup {NoDb} : r = [NoRequest EXCEPT !.cmd = "init_db", !.db = db]
    BY <1>1, <1>8
  <1>9. CASE r = [NoRequest EXCEPT !.cmd = "ping"]
    BY <1>1, <1>9
  <1>10. \/ r \in {[NoRequest EXCEPT !.cmd = "query", !.query = q] : q \in Queries}
         \/ r \in {[NoRequest EXCEPT !.cmd = "prepare", !.query = q] :
                     q \in {x \in Queries : x.kind # "kill" /\ nextStmt[c] <= MaxStmt}}
         \/ r \in {x \in Executions(c) : Conforming => x.types = (handles[c][x.stmt] = "new")}
         \/ r \in {[NoRequest EXCEPT !.cmd = "close", !.stmt = s] : s \in StmtId}
         \/ r \in {[NoRequest EXCEPT !.cmd = "reset", !.stmt = s] :
                     s \in {x \in StmtId : Conforming => Holds(c, x)}}
         \/ r \in {[NoRequest EXCEPT !.cmd = "init_db", !.db = db] : db \in Db \cup {NoDb}}
         \/ r \in {[NoRequest EXCEPT !.cmd = "ping"]}
    BY Zenon DEF Requests
  <1>11. r \in Executions(c) =>
           \E s \in {x \in StmtId : Conforming => Holds(c, x)}, t \in BOOLEAN : r = Execution(s, t)
    BY DEF Executions
  <1> QED
    BY <1>3, <1>4, <1>5, <1>6, <1>7, <1>8, <1>9, <1>10, <1>11

LEMMA AwaitsType ==
  ASSUME FrontTypeOK, NEW c \in Conn, NEW op, NEW schema, NEW prep, Awaits(c, op, schema, prep)
  PROVE  /\ phase' \in [Conn -> {"closed", "greeted", "ready", "received", "checked", "calling"}]
         /\ UNCHANGED <<sharedVars, cause, request, response, doomed>>
  BY DEF FrontTypeOK, Awaits

LEMMA BindType ==
  ASSUME FrontTypeOK, NEW c \in Conn, WellShaped(c), Decodes(c), BindTypes(c)
  PROVE  /\ stmts' \in [Conn -> [StmtId -> StmtData \cup {NoStmt}]]
         /\ request[c].stmt \in StmtId
         /\ \A s \in StmtId : stmts'[c][s] = IF s = request[c].stmt
                                             THEN [Data(c) EXCEPT !.bound = @ \/ (Data(c).params > 0)]
                                             ELSE stmts[c][s]
  <1>1. request[c].stmt \in StmtId
    BY DEF Decodes, Serving, WellShaped
  <1>2. Data(c) \in StmtData
    BY <1>1 DEF Decodes, Statement, Data, WellShaped, FrontTypeOK
  <1> DEFINE bound == [Data(c) EXCEPT !.bound = @ \/ (Data(c).params > 0)]
  <1>3. bound \in StmtData
    BY <1>2 DEF StmtData
  <1>4. stmts' = [stmts EXCEPT ![c] = [stmts[c] EXCEPT ![request[c].stmt] = bound]]
    BY DEF BindTypes, Data
  <1> HIDE DEF bound
  <1>5. stmts' \in [Conn -> [StmtId -> StmtData \cup {NoStmt}]]
    BY <1>1, <1>3, <1>4 DEF FrontTypeOK
  <1>6. \A s \in StmtId : stmts'[c][s] = IF s = request[c].stmt THEN bound ELSE stmts[c][s]
    BY <1>1, <1>4 DEF FrontTypeOK
  <1> QED
    BY <1>1, <1>5, <1>6 DEF bound

LEMMA ReceiveType ==
  ASSUME FrontTypeOK, NEW c \in Conn, Receive(c)
  PROVE  FrontTypeOK'
  <1>1. PICK r \in Requests(c) :
          /\ request' = [request EXCEPT ![c] = r]
          /\ doomed' = [doomed EXCEPT ![c] = r.cmd \in Killable /\ connId[c] \in killed]
          /\ handles' = IF r.cmd = "execute"
                        THEN [handles EXCEPT ![c][r.stmt] = IF @ = "none" THEN @ ELSE "typed"]
                        ELSE IF r.cmd = "close"
                        THEN [handles EXCEPT ![c][r.stmt] = "none"]
                        ELSE handles
    BY DEF Receive
  <1>2. r \in Request
    BY RequestType
  <1>3. handles' \in [Conn -> [StmtId -> {"none", "new", "typed"}]]
    BY <1>1 DEF FrontTypeOK
  <1>4. doomed' \in [Conn -> BOOLEAN]
    BY <1>1 DEF FrontTypeOK
  <1> QED
    BY <1>1, <1>2, <1>3, <1>4 DEF FrontTypeOK, Receive, sharedVars, backendVars

LEMMA FrontTypeStep ==
  ASSUME FrontTypeOK, TypeOK, NEW c \in Conn, WellShaped(c), FrontStep(c)
  PROVE  FrontTypeOK'
  <1> USE DEF FrontTypeOK, sharedVars, backendVars, taskVars, frontVars
  <1>1. CASE Connect(c)
    <2>1. CASE Accept(c)
      <3>1. nextConnId \in 0 .. MaxConnId /\ nextConnId' \in 1 .. MaxConnId + 1
        BY <2>1, FrontendAssumption DEF Accept
      <3>2. Backend(c, nextConnId, defaultDb) /\ defaultDb \in Db \cup {NoDb}
        BY <2>1 DEF Accept
      <3>3. /\ connId' \in [Conn -> 0 .. MaxConnId]
            /\ currentDb' \in [Conn -> Db \cup {NoDb}]
            /\ session' \in [Conn -> SessionValue]
            /\ lastInsertId' \in [Conn -> 0 .. MaxIdentity]
            /\ nextStmt' \in [Conn -> 1 .. MaxStmt + 1]
            /\ prepared' \in [Conn -> [StmtId -> Prepared \cup {NoStmt}]]
        BY <3>1, <3>2, BackendType
      <3> QED
        BY <2>1, <3>1, <3>3 DEF Accept
    <2>2. CASE HandshakeWithoutDb(c)
      BY <2>2 DEF HandshakeWithoutDb
    <2>3. CASE \E db \in Db \cup {NoDb} : HandshakeWithDb(c, db)
      BY <2>3 DEF HandshakeWithDb, InitDb
    <2> QED
      BY <1>1, <2>1, <2>2, <2>3 DEF Connect
  <1>2. CASE Receive(c)
    BY <1>2, ReceiveType
  <1>3. CASE PgLeaves(c) \/ Awaited(c)
    BY <1>3 DEF PgLeaves, Awaited
  <1>4. CASE Quit(c)
    BY <1>4, EndType DEF Quit
  <1>5. CASE ServeCommand(c)
    <2>1. CASE CheckNotKilled(c)
      BY <2>1 DEF CheckNotKilled
    <2>2. CASE AbortIfKilled(c)
      BY <2>2, EndType DEF AbortIfKilled
    <2>3. CASE UnknownToLoop(c)
      BY <2>3, EndType DEF UnknownToLoop
    <2>4. CASE Ping(c) \/ ServeReset(c)
      BY <2>4, AnswerType DEF Ping, ServeReset
    <2>5. CASE ServeInit(c)
      <3>1. request[c].db \in Db \cup {NoDb}
        BY DEF Request
      <3> QED
        BY <2>5, <3>1, AnswerType DEF ServeInit, InitDb
    <2>6. CASE ServeClose(c)
      BY <2>6, AnswerType DEF ServeClose
    <2> QED
      BY <1>5, <2>1, <2>2, <2>3, <2>4, <2>5, <2>6 DEF ServeCommand
  <1>6. CASE ServeQuery(c)
    <2>1. CASE QueryLocal(c)
      <3>1. LocalReply(Asked(c).kind) \in {"none", "ok", "err", "rows", "stmt"}
        BY DEF LocalReply
      <3> QED
        BY <2>1, <3>1, AnswerType DEF QueryLocal
    <2>2. CASE QueryKill(c)
      <3>1. Asked(c).target \in 0 .. MaxConnId
        BY QueryFields DEF Query
      <3> QED
        BY <2>2, <3>1, AnswerType DEF QueryKill
    <2>3. CASE QuerySet(c)
      <3>1. Asked(c).value \in SessionValue
        BY QueryFields DEF Query
      <3> QED
        BY <2>3, <3>1, AnswerType DEF QuerySet
    <2>4. CASE QuerySchemaDdl(c)
      BY <2>4, AwaitsType DEF QuerySchemaDdl
    <2>5. CASE QueryStatement(c)
      BY <2>5, AwaitsType DEF QueryStatement
    <2> QED
      BY <1>6, <2>1, <2>2, <2>3, <2>4, <2>5 DEF ServeQuery
  <1>7. CASE ServePrepare(c)
    <2>1. CASE PrepareAtOnce(c)
      <3>1. nextStmt[c] \in StmtId /\ nextStmt[c] + 1 \in 1 .. MaxStmt + 1
        BY <2>1, FrontendAssumption DEF PrepareAtOnce, Serving, WellShaped, StmtId
      <3>2. Answer(c, "stmt")
        BY <2>1 DEF PrepareAtOnce, Register
      <3> QED
        BY <2>1, <3>1, <3>2, RegisterType, AnswerType DEF PrepareAtOnce
    <2>2. CASE PrepareRefused(c)
      BY <2>2, AnswerType DEF PrepareRefused
    <2>3. CASE PrepareDescribes(c)
      <3>1. nextStmt[c] + 1 \in 1 .. MaxStmt + 1
        BY <2>3, FrontendAssumption DEF PrepareDescribes, Serving, WellShaped
      <3> QED
        BY <2>3, <3>1, AwaitsType DEF PrepareDescribes
    <2>4. CASE FinishPrepare(c)
      <3>1. nextStmt[c] - 1 \in StmtId
        BY <2>4, FrontendAssumption DEF FinishPrepare, Serving, WellShaped, StmtId
      <3>2. Answer(c, "stmt")
        BY <2>4 DEF FinishPrepare, Register
      <3> QED
        BY <2>4, <3>1, <3>2, RegisterType, AnswerType DEF FinishPrepare
    <2> QED
      BY <1>7, <2>1, <2>2, <2>3, <2>4 DEF ServePrepare
  <1>8. CASE ServeExecute(c)
    <2>1. CASE ExecuteLocal(c)
      <3>1. \E reply \in {"ok", "err", "rows"} : Answer(c, reply)
        BY <2>1 DEF ExecuteLocal
      <3> QED
        BY <2>1, <3>1, AnswerType DEF ExecuteLocal
    <2>2. CASE ExecuteSet(c)
      <3>1. /\ request[c].stmt \in StmtId
            /\ Statement(c) \in Prepared
        BY <2>2 DEF ExecuteSet, Serving, WellShaped, Statement
      <3>2. Statement(c).query.value \in SessionValue
        BY <3>1 DEF Prepared, Query
      <3> QED
        BY <2>2, <3>2, AnswerType DEF ExecuteSet
    <2>3. CASE ExecuteWithoutTypes(c)
      BY <2>3, EndType DEF ExecuteWithoutTypes
    <2>4. CASE ExecuteRefused(c)
      BY <2>4, AnswerType, BindType DEF ExecuteRefused
    <2>5. CASE ExecuteStatement(c)
      BY <2>5, AwaitsType, BindType DEF ExecuteStatement
    <2>6. CASE ExecuteParts(c)
      BY <2>6, FrontendAssumption DEF ExecuteParts
    <2>7. CASE BeginPart(c)
      <3>1. PICK op \in Runnable : Awaits(c, op, currentDb[c], FALSE)
        BY <2>7 DEF BeginPart
      <3>2. partsLeft' \in [Conn -> 0 .. MaxParts]
        BY <2>7, FrontendAssumption DEF BeginPart
      <3> QED
        BY <2>7, <3>1, <3>2, AwaitsType DEF BeginPart
    <2>8. CASE FinishPart(c)
      BY <2>8 DEF FinishPart
    <2> QED
      BY <1>8, <2>1, <2>2, <2>3, <2>4, <2>5, <2>6, <2>7, <2>8 DEF ServeExecute
  <1>9. CASE Finish(c)
    <2>1. CASE FinishStatement(c)
      <3>1. call[c].lastId \in 0 .. MaxIdentity
        BY DEF TypeOK, Call
      <3>2. \E reply \in {"ok", "rows"} : Answer(c, reply)
        BY <2>1 DEF FinishStatement
      <3> QED
        BY <2>1, <3>1, <3>2, AnswerType DEF FinishStatement
    <2>2. CASE FinishMisfit(c)
      BY <2>2, EndType DEF FinishMisfit
    <2>3. CASE FinishDdlFailed(c)
      BY <2>3, EndType DEF FinishDdlFailed
    <2>4. CASE FinishFailed(c) \/ FinishOption(c)
      BY <2>4, AnswerType DEF FinishFailed, FinishOption
    <2>5. CASE FinishCreate(c)
      BY <2>5, AnswerType, QueryFields DEF FinishCreate
    <2>6. CASE FinishDrop(c)
      BY <2>6, AnswerType DEF FinishDrop
    <2> QED
      BY <1>9, <2>1, <2>2, <2>3, <2>4, <2>5, <2>6 DEF Finish
  <1> QED
    BY <1>1, <1>2, <1>3, <1>4, <1>5, <1>6, <1>7, <1>8, <1>9 DEF FrontStep, Serve

-----------------------------------------------------------------------------
(* The tables of statements *)

\* What a command leaves in the fields of its connection.
LEMMA Ended ==
  ASSUME FrontTypeOK, NEW c \in Conn, NEW why, End(c, why)
  PROVE  /\ request'[c] = NoRequest /\ phase'[c] = "closed" /\ cause'[c] = why
         /\ prepared'[c] = NoTable /\ stmts'[c] = NoTable /\ nextStmt'[c] = 1
         /\ handles'[c] = [s \in StmtId |-> "none"]
         /\ connId'[c] = 0 /\ currentDb'[c] = NoDb /\ lastInsertId'[c] = 0 /\ doomed'[c] = FALSE
  BY DEF FrontTypeOK, End, Backend

LEMMA Answered ==
  ASSUME FrontTypeOK, NEW c \in Conn, NEW reply, Answer(c, reply)
  PROVE  request'[c] = NoRequest /\ phase'[c] = "ready" /\ doomed'[c] = FALSE
  BY DEF FrontTypeOK, Answer

LEMMA Awaited_ ==
  ASSUME FrontTypeOK, NEW c \in Conn, NEW op, NEW schema, NEW prep, Awaits(c, op, schema, prep)
  PROVE  phase'[c] = "calling" /\ request' = request /\ doomed' = doomed
  BY DEF FrontTypeOK, Awaits

LEMMA Registered ==
  ASSUME FrontTypeOK, NEW c \in Conn, NEW id \in StmtId, Register(c, id)
  PROVE  LET q == Asked(c)
             n == IF q.kind = "session_read" THEN 0 ELSE q.params
         IN  \A s \in StmtId :
               /\ prepared'[c][s] = IF s = id THEN [query |-> q, params |-> n, shape |-> ShapeOf(q.kind)]
                                    ELSE prepared[c][s]
               /\ stmts'[c][s] = IF s = id THEN [params |-> n % ParamModulus, bound |-> FALSE]
                                 ELSE stmts[c][s]
               /\ handles'[c][s] = IF s = id THEN "new" ELSE handles[c][s]
  BY DEF FrontTypeOK, Register

LEMMA NoCommand ==
  /\ NoRequest.cmd = "none"
  /\ \A s \in StmtId : NoTable[s] = NoStmt
  BY DEF NoRequest, NoTable

\* The conditions of WellShaped on the command hold when there is none.
LEMMA EndShape ==
  ASSUME FrontTypeOK, NEW c \in Conn, NEW why, End(c, why)
  PROVE  WellShaped(c)'
  <1>1. /\ request'[c].cmd = "none"
        /\ \A s \in StmtId : prepared'[c][s] = NoStmt /\ stmts'[c][s] = NoStmt
    <2>1. request'[c] = NoRequest /\ prepared'[c] = NoTable /\ stmts'[c] = NoTable
      BY Ended
    <2> QED
      BY <2>1, NoCommand
  <1> QED
    BY <1>1 DEF WellShaped

LEMMA AnswerShape ==
  ASSUME FrontTypeOK, NEW c \in Conn, WellShaped(c), NEW reply, Answer(c, reply),
         prepared'[c] = prepared[c], stmts'[c] = stmts[c]
  PROVE  WellShaped(c)'
  BY Answered, NoCommand DEF WellShaped, Asked

LEMMA RegisterShape ==
  ASSUME FrontTypeOK, FrontTypeOK', NEW c \in Conn, WellShaped(c), NEW id \in StmtId, Register(c, id),
         ShapeOf(Asked(c).kind) = "sql" => Asked(c).kind \in Translated
  PROVE  WellShaped(c)'
  <1> DEFINE q == Asked(c)
             n == IF q.kind = "session_read" THEN 0 ELSE q.params
             p == [query |-> q, params |-> n, shape |-> ShapeOf(q.kind)]
             m == [params |-> n % ParamModulus, bound |-> FALSE]
  <1>1. \A s \in StmtId : /\ prepared'[c][s] = IF s = id THEN p ELSE prepared[c][s]
                          /\ stmts'[c][s] = IF s = id THEN m ELSE stmts[c][s]
    BY Registered
  <1>2. p.shape = ShapeOf(q.kind) /\ p.query = q
    OBVIOUS
  <1>3. p # NoStmt /\ m # NoStmt
    <2>1. q \in Query /\ n \in Nat
      BY QueryFields DEF Query
    <2>2. n % ParamModulus \in 0 .. ParamModulus - 1
      BY <2>1, FrontendAssumption
    <2>3. p \in Prepared /\ m \in StmtData
      BY <2>1, <2>2 DEF Prepared, StmtData, ShapeOf
    <2> QED
      BY <2>3, NoStmtAssumption
  <1>4. request'[c].cmd = "none" /\ phase'[c] = "ready"
    BY Answered, NoCommand DEF Register
  <1> HIDE DEF p, m, q, n
  <1> QED
    BY <1>1, <1>2, <1>3, <1>4 DEF WellShaped, q

LEMMA ShapeStep ==
  ASSUME FrontTypeOK, FrontTypeOK', NEW c \in Conn, WellShaped(c), FrontStep(c)
  PROVE  WellShaped(c)'
  <1> USE DEF sharedVars, backendVars, taskVars, frontVars
  <1>1. CASE Connect(c)
    <2>1. CASE Accept(c)
      <3>1. prepared'[c] = NoTable /\ stmts' = stmts /\ request' = request /\ phase'[c] = "greeted"
        BY <2>1 DEF Accept, Backend, FrontTypeOK
      <3>2. phase[c] = "closed"
        BY <2>1 DEF Accept
      <3> QED
        BY <3>1, <3>2, NoCommand DEF WellShaped, Asked
    <2>2. CASE HandshakeWithoutDb(c) \/ \E db \in Db \cup {NoDb} : HandshakeWithDb(c, db)
      <3>1. UNCHANGED <<prepared, stmts, request>> /\ phase'[c] = "ready"
        BY <2>2 DEF HandshakeWithoutDb, HandshakeWithDb, FrontTypeOK
      <3> QED
        BY <3>1 DEF WellShaped, Asked
    <2> QED
      BY <1>1, <2>1, <2>2 DEF Connect
  <1>2. CASE Receive(c)
    <2>1. PICK r \in Requests(c) : request' = [request EXCEPT ![c] = r]
      BY <1>2 DEF Receive
    <2>2. request'[c] = r /\ phase'[c] = "received" /\ UNCHANGED <<prepared, stmts, nextStmt>>
      BY <1>2, <2>1 DEF Receive, FrontTypeOK
    <2> QED
      BY <2>2, RequestType DEF WellShaped, Asked
  <1>3. CASE PgLeaves(c) \/ Awaited(c)
    BY <1>3 DEF PgLeaves, Awaited, WellShaped, Asked
  <1>4. CASE Quit(c)
    BY <1>4, EndShape DEF Quit
  <1>5. CASE ServeCommand(c)
    <2>1. CASE CheckNotKilled(c)
      BY <2>1 DEF CheckNotKilled, WellShaped, Asked, FrontTypeOK
    <2>2. CASE AbortIfKilled(c) \/ UnknownToLoop(c)
      BY <2>2, EndShape DEF AbortIfKilled, UnknownToLoop
    <2>3. CASE Ping(c) \/ ServeReset(c) \/ ServeInit(c)
      BY <2>3, AnswerShape DEF Ping, ServeReset, ServeInit
    <2>4. CASE ServeClose(c)
      <3>1. \A s \in StmtId :
              \/ prepared'[c][s] = NoStmt /\ stmts'[c][s] = NoStmt
              \/ prepared'[c][s] = prepared[c][s] /\ stmts'[c][s] = stmts[c][s]
        BY <2>4 DEF ServeClose, Serving, FrontTypeOK
      <3>2. request'[c].cmd = "none" /\ phase'[c] = "ready"
        BY <2>4, Answered, NoCommand DEF ServeClose
      <3> QED
        BY <3>1, <3>2 DEF WellShaped
    <2> QED
      BY <1>5, <2>1, <2>2, <2>3, <2>4 DEF ServeCommand
  <1>6. CASE ServeQuery(c)
    <2>1. CASE QueryLocal(c) \/ QueryKill(c) \/ QuerySet(c)
      BY <2>1, AnswerShape DEF QueryLocal, QueryKill, QuerySet
    <2>2. CASE QuerySchemaDdl(c) \/ QueryStatement(c)
      BY <2>2, Awaited_ DEF QuerySchemaDdl, QueryStatement, Serving, WellShaped, Asked
    <2> QED
      BY <1>6, <2>1, <2>2 DEF ServeQuery
  <1>7. CASE ServePrepare(c)
    <2>1. CASE PrepareAtOnce(c)
      <3>1. nextStmt[c] \in StmtId
        BY <2>1, FrontendAssumption DEF PrepareAtOnce, Serving, WellShaped, FrontTypeOK, StmtId
      <3>2. ShapeOf(Asked(c).kind) = "sql" => Asked(c).kind \in Translated
        BY <2>1 DEF PrepareAtOnce, Inferred, Translated
      <3> QED
        BY <2>1, <3>1, <3>2, RegisterShape DEF PrepareAtOnce
    <2>2. CASE PrepareRefused(c)
      BY <2>2, AnswerShape DEF PrepareRefused
    <2>3. CASE PrepareDescribes(c)
      <3>1. nextStmt'[c] > 1
        BY <2>3 DEF PrepareDescribes, FrontTypeOK
      <3> QED
        BY <2>3, <3>1, Awaited_ DEF PrepareDescribes, WellShaped, Asked, Serving
    <2>4. CASE FinishPrepare(c)
      <3>1. nextStmt[c] - 1 \in StmtId /\ Asked(c).kind \in Translated
        BY <2>4, FrontendAssumption DEF FinishPrepare, Serving, WellShaped, FrontTypeOK, StmtId
      <3> QED
        BY <2>4, <3>1, RegisterShape DEF FinishPrepare
    <2> QED
      BY <1>7, <2>1, <2>2, <2>3, <2>4 DEF ServePrepare
  <1>8. CASE ServeExecute(c)
    <2>1. CASE ExecuteLocal(c) \/ ExecuteSet(c)
      BY <2>1, AnswerShape DEF ExecuteLocal, ExecuteSet
    <2>2. CASE ExecuteWithoutTypes(c)
      BY <2>2, EndShape DEF ExecuteWithoutTypes
    <2>3. CASE ExecuteRefused(c) \/ ExecuteStatement(c)
      <3>1. Decodes(c) /\ BindTypes(c) /\ UNCHANGED <<prepared, nextStmt>>
        BY <2>3 DEF ExecuteRefused, ExecuteStatement
      <3>2. \A s \in StmtId : (stmts'[c][s] = NoStmt) = (stmts[c][s] = NoStmt)
        <4> TAKE s \in StmtId
        <4>1. CASE s = request[c].stmt
          <5>1. stmts[c][s] \in StmtData
            BY <3>1, <4>1 DEF Decodes, Statement, WellShaped, FrontTypeOK
          <5>2. [Data(c) EXCEPT !.bound = @ \/ (Data(c).params > 0)] \in StmtData
            BY <4>1, <5>1 DEF Data, StmtData
          <5> QED
            BY <3>1, <4>1, <5>1, <5>2, BindType, NoStmtAssumption
        <4>2. CASE s # request[c].stmt
          BY <3>1, <4>2, BindType
        <4> QED
          BY <4>1, <4>2
      <3>3. /\ request'[c].cmd = "none" \/ (request' = request /\ request[c].cmd = "execute")
            /\ phase'[c] # "closed"
        BY <2>3, Answered, Awaited_, NoCommand
           DEF ExecuteRefused, ExecuteStatement, Decodes, Serving
      <3> QED
        BY <3>1, <3>2, <3>3 DEF WellShaped, Asked
    <2>4. CASE ExecuteParts(c)
      BY <2>4 DEF ExecuteParts, Decodes, Serving, WellShaped, Asked
    <2>5. CASE BeginPart(c)
      BY <2>5, Awaited_ DEF BeginPart, Serving, WellShaped, Asked
    <2>6. CASE FinishPart(c)
      BY <2>6 DEF FinishPart, WellShaped, Asked
    <2> QED
      BY <1>8, <2>1, <2>2, <2>3, <2>4, <2>5, <2>6 DEF ServeExecute
  <1>9. CASE Finish(c)
    <2>1. CASE FinishMisfit(c) \/ FinishDdlFailed(c)
      BY <2>1, EndShape DEF FinishMisfit, FinishDdlFailed
    <2>2. CASE FinishStatement(c)
      BY <2>2, AnswerShape DEF FinishStatement
    <2>3. CASE FinishFailed(c) \/ FinishOption(c) \/ FinishCreate(c) \/ FinishDrop(c)
      BY <2>3, AnswerShape DEF FinishFailed, FinishOption, FinishCreate, FinishDrop
    <2> QED
      BY <1>9, <2>1, <2>2, <2>3 DEF Finish
  <1> QED
    BY <1>1, <1>2, <1>3, <1>4, <1>5, <1>6, <1>7, <1>8, <1>9 DEF FrontStep, Serve

-----------------------------------------------------------------------------
(* Kinds of steps *)

\* A step of c that leaves its tables alone, and takes or finishes a command.
\* One that finishes an execution has no types to keep.
KeepsTables(c) ==
  /\ prepared'[c] = prepared[c] /\ stmts'[c] = stmts[c] /\ handles'[c] = handles[c]
  /\ nextStmt'[c] >= nextStmt[c]
  /\ cause'[c] = cause[c]
  /\ \/ phase[c] = "received" /\ phase'[c] = "checked" /\ request'[c] = request[c]
     \/ /\ phase'[c] \in {"ready", "calling"}
        /\ /\ phase[c] \in {"received", "checked"} /\ request[c].cmd = "execute"
           /\ Statement(c) # NoStmt /\ Statement(c).shape = "sql"
           => Data(c).params = 0

EndsFor(c, why) ==
  /\ End(c, why)
  /\ \/ why \in {"quit", "killed", "error"}
     \/ UnknownToLoop(c) /\ why = "protocol"
     \/ ExecuteWithoutTypes(c) /\ why = "panic"

LEMMA StepKinds ==
  ASSUME FrontTypeOK, NEW c \in Conn, WellShaped(c), FrontStep(c)
  PROVE  \/ UNCHANGED frontVars
         \/ Accept(c) \/ Receive(c) \/ ServeClose(c)
         \/ PrepareAtOnce(c) \/ FinishPrepare(c)
         \/ ExecuteRefused(c) \/ ExecuteStatement(c)
         \/ \E why \in {"quit", "killed", "error", "protocol", "panic"} : EndsFor(c, why)
         \/ KeepsTables(c)
  <1> USE DEF sharedVars, backendVars, taskVars, frontVars, FrontTypeOK, Answer, Awaits
  <1>1. CASE Connect(c)
    BY <1>1 DEF Connect, HandshakeWithoutDb, HandshakeWithDb, KeepsTables
  <1>2. CASE Receive(c)
    BY <1>2
  <1>3. CASE PgLeaves(c) \/ Awaited(c)
    BY <1>3 DEF PgLeaves, Awaited
  <1>4. CASE Quit(c)
    BY <1>4 DEF Quit, EndsFor
  <1>5. CASE ServeCommand(c)
    <2>1. CASE CheckNotKilled(c)
      BY <2>1 DEF CheckNotKilled, KeepsTables
    <2>2. CASE AbortIfKilled(c) \/ UnknownToLoop(c)
      BY <2>2 DEF AbortIfKilled, UnknownToLoop, EndsFor
    <2>3. CASE Ping(c) \/ ServeReset(c) \/ ServeInit(c)
      BY <2>3 DEF Ping, ServeReset, ServeInit, Serving, KeepsTables
    <2> QED
      BY <1>5, <2>1, <2>2, <2>3 DEF ServeCommand
  <1>6. CASE ServeQuery(c)
    <2>1. CASE QueryLocal(c) \/ QueryKill(c) \/ QuerySet(c)
      BY <2>1 DEF QueryLocal, QueryKill, QuerySet, Serving, KeepsTables
    <2>2. CASE QuerySchemaDdl(c)
      <3>1. \E op \in SchemaDdl : Awaits(c, op, Asked(c).db, FALSE)
        BY <2>2 DEF QuerySchemaDdl, SchemaDdl
      <3> QED
        BY <2>2, <3>1 DEF QuerySchemaDdl, Serving, KeepsTables
    <2>3. CASE QueryStatement(c)
      BY <2>3 DEF QueryStatement, Serving, KeepsTables
    <2> QED
      BY <1>6, <2>1, <2>2, <2>3 DEF ServeQuery
  <1>7. CASE ServePrepare(c)
    <2>1. CASE PrepareRefused(c)
      BY <2>1 DEF PrepareRefused, Serving, KeepsTables
    <2>2. CASE PrepareDescribes(c)
      BY <2>2 DEF PrepareDescribes, Serving, KeepsTables
    <2> QED
      BY <1>7, <2>1, <2>2 DEF ServePrepare
  <1>8. CASE ServeExecute(c)
    <2>1. CASE ExecuteLocal(c)
      BY <2>1 DEF ExecuteLocal, Serving, KeepsTables
    <2>2. CASE ExecuteSet(c)
      <3>1. Statement(c).shape # "sql"
        BY <2>2 DEF ExecuteSet, Serving, Statement, WellShaped, Translated
      <3> QED
        BY <2>2, <3>1 DEF ExecuteSet, Serving, KeepsTables
    <2>3. CASE ExecuteWithoutTypes(c)
      BY <2>3 DEF ExecuteWithoutTypes, EndsFor
    <2>4. CASE ExecuteParts(c)
      BY <2>4 DEF ExecuteParts, IsSplit, KeepsTables
    <2>5. CASE BeginPart(c)
      BY <2>5 DEF BeginPart, Serving, KeepsTables
    <2>6. CASE FinishPart(c)
      BY <2>6 DEF FinishPart
    <2> QED
      BY <1>8, <2>1, <2>2, <2>3, <2>4, <2>5, <2>6 DEF ServeExecute
  <1>9. CASE Finish(c)
    <2>1. CASE FinishMisfit(c) \/ FinishDdlFailed(c)
      BY <2>1 DEF FinishMisfit, FinishDdlFailed, EndsFor
    <2>2. CASE FinishStatement(c)
      BY <2>2 DEF FinishStatement, Ends, KeepsTables
    <2>3. CASE FinishFailed(c) \/ FinishOption(c) \/ FinishCreate(c) \/ FinishDrop(c)
      BY <2>3 DEF FinishFailed, FinishOption, FinishCreate, FinishDrop, Ends, KeepsTables
    <2> QED
      BY <1>9, <2>1, <2>2, <2>3 DEF Finish
  <1> QED
    BY <1>1, <1>2, <1>3, <1>4, <1>5, <1>6, <1>7, <1>8, <1>9 DEF FrontStep, Serve

-----------------------------------------------------------------------------
(* The tables agree, and a conforming client is served *)

Tabled(c) ==
  /\ \A s \in StmtId :
       /\ prepared[c][s] # NoStmt => stmts[c][s].params = prepared[c][s].params % ParamModulus
       /\ Holds(c, s) => prepared[c][s] # NoStmt
       /\ s >= nextStmt[c] => prepared[c][s] = NoStmt
  /\ phase[c] = "received" /\ request[c].cmd = "close" => handles[c][request[c].stmt] = "none"

\* The types of a statement are kept, or there is none, or they came with the
\* execution that is being served.
Typed(c, s) ==
  \/ stmts[c][s].params = 0 \/ stmts[c][s].bound
  \/ /\ phase[c] \in {"received", "checked"} /\ request[c].cmd = "execute"
     /\ request[c].stmt = s /\ request[c].types

Served(c) ==
  Conforming =>
    /\ cause[c] \notin {"protocol", "panic"}
    /\ phase[c] = "received" /\ request[c].cmd \in {"execute", "reset"} => Holds(c, request[c].stmt)
    /\ phase[c] \in {"received", "checked"} /\ request[c].cmd = "execute" =>
         handles[c][request[c].stmt] = "typed"
    /\ \A s \in StmtId :
         handles[c][s] = "typed" /\ prepared[c][s] # NoStmt /\ prepared[c][s].shape = "sql"
           => Typed(c, s)

LEMMA ReceiveTables ==
  ASSUME FrontTypeOK, NEW c \in Conn, WellShaped(c), Tabled(c), Served(c), Receive(c)
  PROVE  Tabled(c)' /\ Served(c)'
  <1>1. PICK r \in Requests(c) :
          /\ request' = [request EXCEPT ![c] = r]
          /\ handles' = IF r.cmd = "execute"
                        THEN [handles EXCEPT ![c][r.stmt] = IF @ = "none" THEN @ ELSE "typed"]
                        ELSE IF r.cmd = "close"
                        THEN [handles EXCEPT ![c][r.stmt] = "none"]
                        ELSE handles
    BY DEF Receive
  <1>2. /\ r \in Request
        /\ r.cmd \in {"execute", "close", "reset"} => r.stmt \in StmtId
        /\ Conforming /\ r.cmd \in {"execute", "reset"} => Holds(c, r.stmt)
        /\ Conforming /\ r.cmd = "execute" => r.types = (handles[c][r.stmt] = "new")
    BY RequestType
  <1>3. /\ request'[c] = r /\ phase[c] = "ready" /\ phase'[c] = "received"
        /\ UNCHANGED <<prepared, stmts, nextStmt, cause>>
    BY <1>1 DEF Receive, FrontTypeOK, backendVars
  <1>4. \A s \in StmtId :
          handles'[c][s] = IF r.cmd = "execute" /\ s = r.stmt /\ handles[c][s] # "none" THEN "typed"
                           ELSE IF r.cmd = "close" /\ s = r.stmt THEN "none" ELSE handles[c][s]
    BY <1>1, <1>2 DEF FrontTypeOK
  <1>5. \A s \in StmtId : handles[c][s] \in {"none", "new", "typed"}
    BY DEF FrontTypeOK
  <1>6. Tabled(c)'
    BY <1>2, <1>3, <1>4 DEF Tabled, Holds
  <1>7. Served(c)'
    <2> SUFFICES ASSUME Conforming PROVE Served(c)'
      BY DEF Served
    <2>1. cause'[c] \notin {"protocol", "panic"}
      BY <1>3 DEF Served
    <2>2. r.cmd \in {"execute", "reset"} => handles'[c][r.stmt] # "none"
      BY <1>2, <1>4 DEF Holds
    <2>3. r.cmd = "execute" => handles'[c][r.stmt] = "typed"
      BY <1>2, <1>4 DEF Holds
    <2>4. ASSUME NEW s \in StmtId, handles'[c][s] = "typed", prepared'[c][s] # NoStmt,
                 prepared'[c][s].shape = "sql"
          PROVE  Typed(c, s)'
      <3>1. CASE handles[c][s] = "typed"
        BY <1>3, <2>4, <3>1 DEF Served, Typed
      <3>2. CASE handles[c][s] # "typed"
        <4>1. r.cmd = "execute" /\ s = r.stmt /\ handles[c][s] = "new"
          BY <1>4, <1>5, <2>4, <3>2
        <4> QED
          BY <1>2, <1>3, <4>1 DEF Typed
      <3> QED
        BY <3>1, <3>2
    <2> QED
      BY <1>3, <2>1, <2>2, <2>3, <2>4 DEF Served, Holds
  <1> QED
    BY <1>6, <1>7

LEMMA RegisterTables ==
  ASSUME FrontTypeOK, NEW c \in Conn, WellShaped(c), Tabled(c), Served(c),
         PrepareAtOnce(c) \/ FinishPrepare(c)
  PROVE  Tabled(c)' /\ Served(c)'
  <1>1. PICK id \in StmtId : /\ Register(c, id) /\ id < nextStmt'[c] /\ nextStmt'[c] >= nextStmt[c]
    <2>1. CASE PrepareAtOnce(c)
      <3>1. nextStmt[c] \in StmtId /\ nextStmt'[c] = nextStmt[c] + 1
        BY <2>1, FrontendAssumption DEF PrepareAtOnce, Serving, WellShaped, FrontTypeOK, StmtId
      <3> QED
        BY <2>1, <3>1 DEF PrepareAtOnce, StmtId
    <2>2. CASE FinishPrepare(c)
      <3>1. nextStmt[c] - 1 \in StmtId /\ nextStmt' = nextStmt /\ nextStmt[c] \in Nat
        BY <2>2, FrontendAssumption DEF FinishPrepare, Serving, WellShaped, FrontTypeOK, StmtId
      <3>2. nextStmt[c] - 1 < nextStmt'[c] /\ nextStmt'[c] >= nextStmt[c]
        BY <3>1
      <3> QED
        BY <2>2, <3>1, <3>2 DEF FinishPrepare
    <2> QED
      BY <2>1, <2>2
  <1> DEFINE q == Asked(c)
             n == IF q.kind = "session_read" THEN 0 ELSE q.params
             p == [query |-> q, params |-> n, shape |-> ShapeOf(q.kind)]
             m == [params |-> n % ParamModulus, bound |-> FALSE]
  <1>2. \A s \in StmtId : /\ prepared'[c][s] = IF s = id THEN p ELSE prepared[c][s]
                          /\ stmts'[c][s] = IF s = id THEN m ELSE stmts[c][s]
                          /\ handles'[c][s] = IF s = id THEN "new" ELSE handles[c][s]
    BY <1>1, Registered
  <1>3. p.params = n /\ m.params = n % ParamModulus
    OBVIOUS
  <1>4. p # NoStmt
    <2>1. q \in Query /\ n \in Nat
      BY QueryFields DEF Query
    <2> QED
      BY <2>1, NoStmtAssumption DEF Prepared, ShapeOf
  <1>5. phase'[c] = "ready" /\ request'[c].cmd = "none" /\ cause' = cause
    BY <1>1, Answered, NoCommand DEF Register, Answer
  <1>6. phase[c] = "received" => request[c].cmd # "execute"
    BY DEF PrepareAtOnce, FinishPrepare, Serving
  <1>7. nextStmt[c] \in Nat /\ nextStmt'[c] \in Nat
    BY <1>1 DEF FrontTypeOK, PrepareAtOnce, FinishPrepare
  <1> HIDE DEF p, m, n, q
  <1>8. Tabled(c)'
    BY <1>1, <1>2, <1>3, <1>4, <1>5, <1>7 DEF Tabled, Holds, StmtId
  <1>9. Served(c)'
    BY <1>2, <1>5, <1>6 DEF Served, Typed, PrepareAtOnce, FinishPrepare, Serving
  <1> QED
    BY <1>8, <1>9

LEMMA Bound ==
  ASSUME NEW m \in StmtData
  PROVE  LET b == [m EXCEPT !.bound = @ \/ (m.params > 0)]
         IN  b.params = m.params /\ (b.params = 0 \/ b.bound)
  <1>1. m.params = 0 \/ m.params > 0
    BY FrontendAssumption DEF StmtData
  <1> QED
    BY <1>1, Zenon DEF StmtData

LEMMA BindTables ==
  ASSUME FrontTypeOK, NEW c \in Conn, WellShaped(c), Tabled(c), Served(c),
         ExecuteRefused(c) \/ ExecuteStatement(c)
  PROVE  Tabled(c)' /\ Served(c)'
  <1>1. Decodes(c) /\ BindTypes(c) /\ UNCHANGED <<prepared, nextStmt, handles>>
    BY DEF ExecuteRefused, ExecuteStatement, backendVars
  <1>2. phase'[c] \in {"ready", "calling"} /\ cause' = cause
    BY Answered, Awaited_ DEF ExecuteRefused, ExecuteStatement, Answer, Awaits
  <1>3. /\ request[c].stmt \in StmtId
        /\ Data(c) \in StmtData
    <2>1. request[c].stmt \in StmtId
      BY <1>1, BindType
    <2>2. Data(c) # NoStmt
      BY <1>1, <2>1 DEF Decodes, Statement, Data, WellShaped
    <2> QED
      BY <2>1, <2>2 DEF Data, FrontTypeOK
  <1> DEFINE bound == [Data(c) EXCEPT !.bound = @ \/ (Data(c).params > 0)]
  <1>4. \A s \in StmtId : stmts'[c][s] = IF s = request[c].stmt THEN bound ELSE stmts[c][s]
    BY <1>1, BindType
  <1>5. /\ bound.params = Data(c).params
        /\ bound.params = 0 \/ bound.bound
    BY <1>3, Bound
  <1> HIDE DEF bound
  <1>6. Tabled(c)'
    BY <1>1, <1>2, <1>3, <1>4, <1>5 DEF Tabled, Holds, Data
  <1>7. Served(c)'
    BY <1>1, <1>2, <1>3, <1>4, <1>5 DEF Served, Typed, Data
  <1> QED
    BY <1>6, <1>7

\* A step of c leaves its tables in agreement and, for a conforming client, does
\* not cut it off.
LEMMA TablesStep ==
  ASSUME FrontTypeOK, FrontTypeOK', NEW c \in Conn, WellShaped(c), Tabled(c), Served(c), FrontStep(c)
  PROVE  Tabled(c)' /\ Served(c)'
  <1>1. CASE UNCHANGED frontVars
    BY <1>1 DEF frontVars, sharedVars, backendVars, taskVars, Tabled, Served, Typed, Holds
  <1>2. CASE Accept(c)
    <2>1. /\ prepared'[c] = NoTable /\ nextStmt'[c] = 1 /\ phase'[c] = "greeted"
          /\ cause'[c] = "none" /\ UNCHANGED <<stmts, request, handles>>
      BY <1>2 DEF Accept, Backend, FrontTypeOK
    <2>2. \A s \in StmtId : handles[c][s] = "none" /\ prepared'[c][s] = NoStmt
      BY <1>2, <2>1, NoCommand DEF Accept, WellShaped, Tabled, Holds
    <2> QED
      BY <2>1, <2>2 DEF Tabled, Served, Typed, Holds
  <1>3. CASE ServeClose(c)
    <2>1. request[c].stmt \in StmtId /\ handles[c][request[c].stmt] = "none"
      BY <1>3 DEF ServeClose, Serving, WellShaped, Tabled
    <2>2. /\ request'[c].cmd = "none" /\ phase'[c] = "ready"
          /\ UNCHANGED <<handles, nextStmt, cause>>
      BY <1>3, Answered, NoCommand DEF ServeClose, Answer
    <2>3. \A s \in StmtId :
            /\ prepared'[c][s] = IF s = request[c].stmt THEN NoStmt ELSE prepared[c][s]
            /\ stmts'[c][s] = IF s = request[c].stmt THEN NoStmt ELSE stmts[c][s]
      BY <1>3, <2>1 DEF ServeClose, FrontTypeOK
    <2>4. Tabled(c)'
      BY <2>1, <2>2, <2>3 DEF Tabled, Holds
    <2>5. Served(c)'
      <3>1. phase[c] = "received" /\ request[c].cmd = "close"
        BY <1>3 DEF ServeClose, Serving
      <3> QED
        BY <2>1, <2>2, <2>3, <3>1 DEF Served, Typed, Holds
    <2> QED
      BY <2>4, <2>5
  <1>4. CASE \E why \in {"quit", "killed", "error", "protocol", "panic"} : EndsFor(c, why)
    <2>1. PICK why \in {"quit", "killed", "error", "protocol", "panic"} : EndsFor(c, why)
      BY <1>4
    <2>2. /\ \A s \in StmtId : prepared'[c][s] = NoStmt /\ handles'[c][s] = "none"
          /\ request'[c].cmd = "none" /\ phase'[c] = "closed" /\ cause'[c] = why
      <3>1. End(c, why)
        BY <2>1 DEF EndsFor
      <3>2. /\ prepared'[c] = NoTable /\ handles'[c] = [s \in StmtId |-> "none"]
            /\ request'[c] = NoRequest /\ phase'[c] = "closed" /\ cause'[c] = why
        BY <3>1, Ended
      <3> QED
        BY <3>2, NoCommand
    <2>3. Conforming => why \notin {"protocol", "panic"}
      <3> SUFFICES ASSUME Conforming, why \in {"protocol", "panic"} PROVE FALSE
        OBVIOUS
      <3>1. CASE UnknownToLoop(c)
        <4>1. /\ request[c].stmt \in StmtId /\ stmts[c][request[c].stmt] = NoStmt
              /\ phase[c] = "received" /\ request[c].cmd \in {"execute", "reset"}
          BY <3>1 DEF UnknownToLoop, WellShaped
        <4> QED
          BY <4>1 DEF WellShaped, Tabled, Served
      <3>2. CASE ExecuteWithoutTypes(c)
        <4>1. /\ request[c].stmt \in StmtId /\ Statement(c) # NoStmt /\ Statement(c).shape = "sql"
              /\ phase[c] = "checked" /\ request[c].cmd = "execute" /\ ~HasTypes(c)
          BY <3>2 DEF ExecuteWithoutTypes, Decodes, Serving, WellShaped
        <4>2. Typed(c, request[c].stmt)
          BY <4>1 DEF Served, Statement
        <4> QED
          BY <4>1, <4>2 DEF Typed, HasTypes, Data
      <3> QED
        BY <2>1, <3>1, <3>2 DEF EndsFor
    <2> QED
      BY <2>2, <2>3 DEF Tabled, Served, Holds
  <1>5. CASE KeepsTables(c)
    <2>1. nextStmt[c] \in Nat /\ nextStmt'[c] \in Nat
      BY DEF FrontTypeOK
    <2>2. Tabled(c)'
      BY <1>5, <2>1 DEF KeepsTables, Tabled, Holds, StmtId
    <2>3. ASSUME Conforming, NEW s \in StmtId, handles'[c][s] = "typed", prepared'[c][s] # NoStmt,
                 prepared'[c][s].shape = "sql"
          PROVE  Typed(c, s)'
      <3>1. /\ handles[c][s] = "typed" /\ prepared[c][s] # NoStmt /\ prepared[c][s].shape = "sql"
            /\ stmts'[c][s] = stmts[c][s]
        BY <1>5, <2>3 DEF KeepsTables
      <3>2. Typed(c, s)
        BY <2>3, <3>1 DEF Served
      <3>3. stmts[c][s].params = 0 \/ stmts[c][s].bound
             \/ (phase'[c] = "checked" /\ request'[c] = request[c])
        <4>1. CASE stmts[c][s].params = 0 \/ stmts[c][s].bound
          BY <4>1
        <4>2. CASE /\ phase[c] \in {"received", "checked"} /\ request[c].cmd = "execute"
                   /\ request[c].stmt = s
          <5>1. Statement(c) = prepared[c][s] /\ Data(c) = stmts[c][s]
            BY <4>2 DEF Statement, Data
          <5>2. \/ phase'[c] = "checked" /\ request'[c] = request[c]
                \/ (Statement(c) # NoStmt /\ Statement(c).shape = "sql" => Data(c).params = 0)
            BY <1>5, <4>2 DEF KeepsTables
          <5> QED
            BY <3>1, <5>1, <5>2
        <4> QED
          BY <3>2, <4>1, <4>2 DEF Typed
      <3> QED
        BY <1>5, <3>1, <3>2, <3>3 DEF KeepsTables, Typed
    <2>4. Served(c)'
      BY <1>5, <2>3 DEF KeepsTables, Served, Holds
    <2> QED
      BY <2>2, <2>4
  <1> QED
    BY <1>1, <1>2, <1>3, <1>4, <1>5, StepKinds, ReceiveTables, RegisterTables, BindTables

-----------------------------------------------------------------------------
(* A connection and its executor *)

\* What ties a connection to its id, its call and the rows it wrote: a call is
\* only in flight while the handler awaits it, and it is for the database the
\* connection is in.
Linked(c) ==
  /\ (phase[c] = "closed") = (connId[c] = 0)
  /\ phase[c] # "calling" => At(c, "idle")
  /\ ~At(c, "idle") /\ call[c].op \in SchemaDdl =>
       request[c].cmd = "query" /\ Asked(c).kind \in {"create_db", "drop_db"}
  /\ ~At(c, "idle") /\ call[c].op \notin SchemaDdl => call[c].schema = currentDb[c]
  /\ doomed[c] => phase[c] = "received" /\ request[c].cmd \in Killable /\ connId[c] \in killed
  /\ lastInsertId[c] # 0 => lastInsertId[c] \in wrote[c]

\* No two connections have the same id, and none has one not yet given out.
Distinct ==
  /\ \A c \in Conn : connId[c] < nextConnId
  /\ \A c, d \in Conn : c # d /\ connId[c] = connId[d] => connId[c] = 0

\* A step of c after which no call is in flight, on a connection that stays.
Settles(c) ==
  /\ phase[c] # "closed" /\ phase'[c] # "closed"
  /\ connId'[c] = connId[c] /\ nextConnId' = nextConnId
  /\ call'[c].stage = "idle" /\ wrote'[c] = wrote[c]
  /\ doomed'[c] = FALSE
  /\ lastInsertId'[c] \in {lastInsertId[c], call[c].lastId}

\* A step that begins a call.
Starts(c) ==
  /\ phase[c] # "closed" /\ phase'[c] = "calling"
  /\ connId'[c] = connId[c] /\ nextConnId' = nextConnId
  /\ \/ /\ call'[c].op \in SchemaDdl
        /\ request'[c].cmd = "query" /\ request'[c].query.kind \in {"create_db", "drop_db"}
     \/ call'[c].op \notin SchemaDdl /\ call'[c].schema = currentDb'[c]
  /\ doomed'[c] = FALSE
  /\ lastInsertId'[c] = lastInsertId[c] /\ wrote'[c] = wrote[c]

\* A step of the call or of PostgreSQL.
Proceeds(c) ==
  /\ UNCHANGED frontVars
  /\ call'[c].op = call[c].op /\ call'[c].schema = call[c].schema
  /\ At(c, "idle") => call'[c].stage = "idle"
  /\ wrote[c] \subseteq wrote'[c]

LEMMA AwaitsStarts ==
  ASSUME FrontTypeOK, TypeOK, NEW c \in Conn, Linked(c), phase[c] \in {"received", "checked", "calling"},
         phase[c] = "received" => request[c].cmd \notin Killable,
         NEW op, NEW schema, NEW prep, Awaits(c, op, schema, prep), UNCHANGED <<connId, currentDb, lastInsertId>>,
         \/ op \in SchemaDdl /\ request[c].cmd = "query" /\ Asked(c).kind \in {"create_db", "drop_db"}
         \/ op \notin SchemaDdl /\ schema = currentDb[c]
  PROVE  Starts(c)
  <1>1. call'[c].op = op /\ call'[c].schema = schema /\ wrote' = wrote
    BY DEF Awaits, Begin, TypeOK
  <1>2. phase'[c] = "calling" /\ request' = request /\ doomed' = doomed /\ nextConnId' = nextConnId
    BY Awaited_ DEF Awaits, sharedVars
  <1>3. doomed[c] = FALSE
    BY DEF Linked, FrontTypeOK
  <1> QED
    BY <1>1, <1>2, <1>3 DEF Starts, Asked

LEMMA AwaitedProceeds ==
  ASSUME TypeOK, NEW c \in Conn, Awaited(c)
  PROVE  Proceeds(c)
  <1> USE DEF TypeOK, GoTo, At
  <1>1. Advance(c) /\ UNCHANGED frontVars
    BY DEF Awaited
  <1>2. CASE AcquireHeld(c)
    BY <1>1, <1>2 DEF AcquireHeld, Proceeds
  <1>12. CASE AcquireFail(c)
    BY <1>1, <1>12 DEF AcquireFail, Proceeds
  <1>11. CASE SetSchema(c)
    BY <1>1, <1>11 DEF SetSchema, Proceeds
  <1>6. CASE Prepare(c)
    BY <1>1, <1>6 DEF Prepare, Proceeds
  <1>7. CASE LookupFinds(c)
    BY <1>1, <1>7 DEF LookupFinds, Proceeds
  <1>8. CASE LookupMisses(c)
    BY <1>1, <1>8 DEF LookupMisses, Proceeds
  <1>13. CASE PrepareWrapped(c)
    BY <1>1, <1>13 DEF PrepareWrapped, Proceeds
  <1>9. CASE PgRejects(c)
    BY <1>1, <1>9 DEF PgRejects, AtPg, AtWork, Proceeds
  <1>10. CASE PgGone(c)
    BY <1>1, <1>10 DEF PgGone, AtPg, AtWork, Proceeds
  <1>3. CASE AcquireConnect(c)
    BY <1>1, <1>3 DEF AcquireConnect, Proceeds
  <1>4. CASE Run(c)
    BY <1>1, <1>4 DEF Run, TakesEffect, Proceeds
  <1>5. CASE RunLost(c)
    BY <1>1, <1>5 DEF RunLost, TakesEffect, Proceeds
  <1> QED
    BY <1>1, <1>2, <1>3, <1>4, <1>5, <1>6, <1>7, <1>8, <1>9, <1>10,
       <1>11, <1>12, <1>13 DEF Advance

LEMMA AnswerSettles ==
  ASSUME FrontTypeOK, TypeOK, NEW c \in Conn, Linked(c), phase[c] # "closed",
         NEW reply, Answer(c, reply),
         UNCHANGED <<connId, nextConnId>>,
         \/ UNCHANGED execVars /\ phase[c] # "calling"
         \/ Return(c),
         lastInsertId'[c] \in {lastInsertId[c], call[c].lastId}
  PROVE  Settles(c)
  <1>1. call'[c].stage = "idle" /\ wrote' = wrote
    BY DEF execVars, Return, IdleCall, TypeOK, Linked, At
  <1> QED
    BY <1>1, Answered DEF Settles

LEMMA LinkKinds ==
  ASSUME FrontTypeOK, TypeOK, NEW c \in Conn, WellShaped(c), Linked(c), FrontStep(c)
  PROVE  \/ Accept(c) \/ Receive(c)
         \/ Settles(c) \/ Starts(c) \/ Proceeds(c)
         \/ nextConnId' = nextConnId /\ \E why : End(c, why)
  <1> USE DEF sharedVars, backendVars, taskVars, frontVars
  <1>1. CASE Connect(c)
    <2>1. CASE HandshakeWithoutDb(c) \/ \E db \in Db \cup {NoDb} : HandshakeWithDb(c, db)
      <3>1. /\ phase[c] = "greeted" /\ phase'[c] = "ready"
            /\ UNCHANGED <<connId, nextConnId, doomed, lastInsertId, execVars>>
        BY <2>1 DEF HandshakeWithoutDb, HandshakeWithDb, FrontTypeOK
      <3> QED
        BY <3>1 DEF Settles, Linked, At, FrontTypeOK, execVars
    <2> QED
      BY <1>1, <2>1 DEF Connect
  <1>2. CASE Receive(c)
    BY <1>2
  <1>3. CASE PgLeaves(c)
    BY <1>3 DEF PgLeaves, PgDisconnects, Proceeds, At
  <1>4. CASE Awaited(c)
    BY <1>4, AwaitedProceeds
  <1>5. CASE Quit(c)
    BY <1>5 DEF Quit
  <1>6. CASE ServeCommand(c)
    <2>1. CASE CheckNotKilled(c)
      BY <2>1 DEF CheckNotKilled, Settles, Linked, At, FrontTypeOK, execVars
    <2>2. CASE AbortIfKilled(c) \/ UnknownToLoop(c)
      BY <2>2 DEF AbortIfKilled, UnknownToLoop
    <2>3. CASE Ping(c) \/ ServeReset(c)
      BY <2>3, AnswerSettles DEF Ping, ServeReset, Serving
    <2>4. CASE ServeInit(c) \/ ServeClose(c)
      BY <2>4, AnswerSettles DEF ServeInit, ServeClose, Serving
    <2> QED
      BY <1>6, <2>1, <2>2, <2>3, <2>4 DEF ServeCommand
  <1>7. CASE ServeQuery(c)
    <2>1. CASE QueryLocal(c) \/ QueryKill(c) \/ QuerySet(c)
      BY <2>1, AnswerSettles DEF QueryLocal, QueryKill, QuerySet, Serving
    <2>2. CASE QuerySchemaDdl(c)
      <3>1. PICK op \in SchemaDdl : Awaits(c, op, Asked(c).db, FALSE)
        BY <2>2 DEF QuerySchemaDdl, SchemaDdl
      <3>2. /\ phase[c] = "checked" /\ request[c].cmd = "query" /\ Asked(c).kind \in {"create_db", "drop_db"}
            /\ UNCHANGED <<connId, currentDb, lastInsertId>>
        BY <2>2 DEF QuerySchemaDdl, Serving
      <3> QED
        BY <3>1, <3>2, AwaitsStarts
    <2>3. CASE QueryStatement(c)
      <3>1. OpOf(Asked(c).kind) \notin SchemaDdl
        BY <2>3 DEF QueryStatement, OpOf, Translated, SchemaDdl
      <3> QED
        BY <2>3, <3>1, AwaitsStarts DEF QueryStatement, Serving
    <2> QED
      BY <1>7, <2>1, <2>2, <2>3 DEF ServeQuery
  <1>8. CASE ServePrepare(c)
    <2>1. CASE PrepareAtOnce(c)
      BY <2>1, AnswerSettles DEF PrepareAtOnce, Register, Serving
    <2>2. CASE PrepareRefused(c)
      BY <2>2, AnswerSettles DEF PrepareRefused, Serving
    <2>3. CASE PrepareDescribes(c)
      <3>1. "describe" \notin SchemaDdl /\ "prepare" \notin Killable
        BY DEF SchemaDdl, Killable
      <3> QED
        BY <2>3, <3>1, AwaitsStarts DEF PrepareDescribes, Serving
    <2>4. CASE FinishPrepare(c)
      BY <2>4, AnswerSettles DEF FinishPrepare, Register, Serving
    <2> QED
      BY <1>8, <2>1, <2>2, <2>3, <2>4 DEF ServePrepare
  <1>9. CASE ServeExecute(c)
    <2>1. CASE ExecuteLocal(c)
      BY <2>1, AnswerSettles DEF ExecuteLocal, Serving
    <2>2. CASE ExecuteSet(c)
      BY <2>2, AnswerSettles DEF ExecuteSet, Serving
    <2>3. CASE ExecuteWithoutTypes(c)
      BY <2>3 DEF ExecuteWithoutTypes
    <2>4. CASE ExecuteRefused(c)
      BY <2>4, AnswerSettles DEF ExecuteRefused, Decodes, Serving
    <2>5. CASE ExecuteStatement(c)
      <3>1. Statement(c).query.kind \in Translated
        BY <2>5 DEF ExecuteStatement, Decodes, Serving, Statement, WellShaped
      <3>2. OpOf(Statement(c).query.kind) \notin SchemaDdl
        BY <3>1 DEF OpOf, Translated, SchemaDdl
      <3> QED
        BY <2>5, <3>2, AwaitsStarts DEF ExecuteStatement, Decodes, Serving
    <2>6. CASE ExecuteParts(c)
      BY <2>6 DEF ExecuteParts, Decodes, Serving, Settles, Linked, At, FrontTypeOK, execVars
    <2>7. CASE BeginPart(c)
      <3>1. PICK op \in Runnable : Awaits(c, op, currentDb[c], FALSE)
        BY <2>7 DEF BeginPart
      <3>2. op \notin SchemaDdl
        BY DEF SchemaDdl, Runnable, Ending
      <3> QED
        BY <2>7, <3>1, <3>2, AwaitsStarts DEF BeginPart, Serving
    <2>8. CASE FinishPart(c)
      BY <2>8 DEF FinishPart, Serving, Return, IdleCall, Settles, Linked, FrontTypeOK, TypeOK
    <2> QED
      BY <1>9, <2>1, <2>2, <2>3, <2>4, <2>5, <2>6, <2>7, <2>8 DEF ServeExecute
  <1>10. CASE Finish(c)
    <2>1. CASE FinishMisfit(c) \/ FinishDdlFailed(c)
      BY <2>1 DEF FinishMisfit, FinishDdlFailed
    <2>2. CASE FinishStatement(c)
      <3>1. lastInsertId'[c] \in {lastInsertId[c], call[c].lastId}
        BY <2>2 DEF FinishStatement, FrontTypeOK
      <3> QED
        BY <2>2, <3>1, AnswerSettles DEF FinishStatement, Ends
    <2>3. CASE FinishFailed(c) \/ FinishOption(c) \/ FinishCreate(c) \/ FinishDrop(c)
      BY <2>3, AnswerSettles DEF FinishFailed, FinishOption, FinishCreate, FinishDrop, Ends
    <2> QED
      BY <1>10, <2>1, <2>2, <2>3 DEF Finish
  <1> QED
    BY <1>1, <1>2, <1>3, <1>4, <1>5, <1>6, <1>7, <1>8, <1>9, <1>10 DEF FrontStep, Serve

\* A step of c keeps the link, and gives c no id but a new one.
LEMMA LinkStep ==
  ASSUME FrontTypeOK, FrontTypeOK', TypeOK, InsertIdIsOwn, NEW c \in Conn, WellShaped(c), Linked(c),
         connId[c] < nextConnId, FrontStep(c)
  PROVE  /\ Linked(c)'
         /\ \/ connId'[c] \in {connId[c], 0} /\ nextConnId' = nextConnId
            \/ connId'[c] = nextConnId /\ nextConnId' = nextConnId + 1
  <1>1. /\ lastInsertId[c] # 0 => lastInsertId[c] \in wrote[c]
        /\ call[c].lastId # 0 => call[c].lastId \in wrote[c]
        /\ nextConnId \in Nat \ {0}
    BY DEF InsertIdIsOwn, Linked, FrontTypeOK
  <1>2. CASE Accept(c)
    <2>1. /\ connId'[c] = nextConnId /\ nextConnId' = nextConnId + 1 /\ phase'[c] = "greeted"
          /\ lastInsertId'[c] = 0 /\ UNCHANGED <<doomed, execVars>> /\ phase[c] = "closed"
      BY <1>2 DEF Accept, Backend, FrontTypeOK
    <2> QED
      BY <1>1, <2>1 DEF Linked, At, execVars
  <1>3. CASE Receive(c)
    <2>1. PICK r \in Requests(c) :
            /\ request' = [request EXCEPT ![c] = r]
            /\ doomed' = [doomed EXCEPT ![c] = r.cmd \in Killable /\ connId[c] \in killed]
      BY <1>3 DEF Receive
    <2>2. /\ request'[c] = r /\ doomed'[c] = (r.cmd \in Killable /\ connId[c] \in killed)
          /\ phase[c] = "ready" /\ phase'[c] = "received"
          /\ UNCHANGED <<connId, nextConnId, killed, currentDb, lastInsertId, call, wrote>>
      BY <1>3, <2>1 DEF Receive, FrontTypeOK, sharedVars, backendVars, execVars
    <2> QED
      BY <2>2 DEF Linked, At
  <1>4. CASE Settles(c)
    BY <1>1, <1>4 DEF Settles, Linked, At
  <1>5. CASE Starts(c)
    BY <1>1, <1>5 DEF Starts, Linked, At, Asked
  <1>6. CASE Proceeds(c)
    BY <1>1, <1>6 DEF Proceeds, Linked, At, Asked, frontVars, sharedVars, backendVars, taskVars
  <1>7. CASE nextConnId' = nextConnId /\ \E why : End(c, why)
    <2>1. PICK why : End(c, why)
      BY <1>7
    <2>2. call'[c].stage = "idle"
      BY <2>1 DEF End, Release, IdleCall, TypeOK
    <2> QED
      BY <1>7, <2>1, <2>2, Ended DEF Linked, At
  <1> QED
    BY <1>2, <1>3, <1>4, <1>5, <1>6, <1>7, LinkKinds

-----------------------------------------------------------------------------
(* The invariant *)

ConnInv(c) == WellShaped(c) /\ Tabled(c) /\ Served(c) /\ Linked(c)

\* The inductive invariant.
FrontInv == FrontTypeOK /\ ExecInv /\ Distinct /\ \A c \in Conn : ConnInv(c)

LEMMA FrontInvInit == FrontInit => FrontInv
  <1> SUFFICES ASSUME FrontInit PROVE FrontInv
    OBVIOUS
  <1>1. FrontTypeOK
    BY FrontendAssumption, ExecutorAssumption, Initials DEF FrontInit, FrontTypeOK
  <1>2. ExecInv
    BY InvInit DEF FrontInit
  <1>3. Distinct
    BY DEF FrontInit, Distinct
  <1>4. ASSUME NEW c \in Conn PROVE ConnInv(c)
    <2>1. /\ request[c].cmd = "none" /\ phase[c] = "closed" /\ cause[c] = "none"
          /\ \A s \in StmtId : prepared[c][s] = NoStmt /\ stmts[c][s] = NoStmt /\ handles[c][s] = "none"
      BY NoCommand DEF FrontInit
    <2>2. Linked(c)
      BY <2>1 DEF FrontInit, Init, IdleCall, Linked, At
    <2> QED
      BY <2>1, <2>2 DEF ConnInv, WellShaped, Tabled, Served, Holds
  <1> QED
    BY <1>1, <1>2, <1>3, <1>4 DEF FrontInv

LEMMA FrontInvStep ==
  ASSUME FrontInv, NEW c \in Conn, FrontStep(c)
  PROVE  FrontInv'
  <1>1. FrontTypeOK /\ TypeOK /\ InsertIdIsOwn /\ ConnInv(c)
    BY DEF FrontInv, ExecInv
  <1>2. ExecStep(c) \/ UNCHANGED execVars
    BY <1>1, ExecMoves DEF ConnInv
  <1>3. ExecInv'
    BY <1>2, SomeStep DEF FrontInv
  <1>4. FrontTypeOK'
    BY <1>1, FrontTypeStep DEF ConnInv
  <1>5. /\ Linked(c)'
        /\ \/ connId'[c] \in {connId[c], 0} /\ nextConnId' = nextConnId
           \/ connId'[c] = nextConnId /\ nextConnId' = nextConnId + 1
    BY <1>1, <1>4, LinkStep DEF FrontInv, Distinct, ConnInv
  <1>6. ConnInv(c)'
    BY <1>1, <1>4, <1>5, ShapeStep, TablesStep DEF ConnInv
  <1>7. ASSUME NEW d \in Conn, d # c PROVE ConnInv(d)' /\ connId'[d] = connId[d]
    <2>1. Same(d) /\ connId[d] \notin killed \ (killed' \cup {connId[c]})
      BY <1>1, <1>7, FrontFrame
    <2>2. call'[d] = call[d] /\ wrote'[d] = wrote[d]
      BY <1>1, <1>2, <1>7, OthersUntouched DEF execVars
    <2>3. ConnInv(d)
      BY <1>7 DEF FrontInv
    <2>4. WellShaped(d)'
      BY <2>1, <2>3 DEF Same, ConnInv, WellShaped, Asked
    <2>5. Tabled(d)'
      BY <2>1, <2>3 DEF Same, ConnInv, Tabled, Holds
    <2>6. Served(d)'
      BY <2>1, <2>3 DEF Same, ConnInv, Served, Typed, Holds
    <2>7. Linked(d)'
      <3>1. doomed[d] => connId[d] \in killed'
        <4> SUFFICES ASSUME doomed[d] PROVE connId[d] \in killed'
          OBVIOUS
        <4>1. connId[d] \in killed /\ connId[d] # 0
          BY <2>3 DEF ConnInv, Linked
        <4>2. connId[d] # connId[c]
          BY <1>7, <4>1 DEF FrontInv, Distinct
        <4> QED
          BY <2>1, <4>1, <4>2
      <3> QED
        BY <2>1, <2>2, <2>3, <3>1 DEF Same, ConnInv, Linked, At, Asked
    <2> QED
      BY <2>1, <2>4, <2>5, <2>6, <2>7 DEF ConnInv, Same
  <1>8. Distinct'
    <2>1. /\ \A d \in Conn : connId[d] \in Nat /\ connId'[d] \in Nat
          /\ nextConnId \in Nat \ {0} /\ nextConnId' \in Nat
          /\ Distinct
      BY <1>1, <1>4 DEF FrontTypeOK, FrontInv
    <2>2. \A d \in Conn : connId'[d] < nextConnId'
      BY <1>5, <1>7, <2>1 DEF Distinct
    <2>3. ASSUME NEW d \in Conn, NEW e \in Conn, d # e, connId'[d] = connId'[e] PROVE connId'[d] = 0
      BY <1>5, <1>7, <2>1, <2>3 DEF Distinct
    <2> QED
      BY <2>2, <2>3 DEF Distinct
  <1> QED
    BY <1>3, <1>4, <1>6, <1>7, <1>8 DEF FrontInv

LEMMA FrontNextIsStep == FrontNext => \E c \in Conn : FrontStep(c)
  BY DEF FrontNext, FrontStep

LEMMA FrontInvariance == FrontSpec => []FrontInv
  <1>1. FrontInv /\ [FrontNext]_vars => FrontInv'
    <2> SUFFICES ASSUME FrontInv, [FrontNext]_vars PROVE FrontInv'
      OBVIOUS
    <2>1. CASE FrontNext
      BY <2>1, FrontNextIsStep, FrontInvStep
    <2>2. CASE UNCHANGED vars
      <3>1. ExecInv'
        BY <2>2, SomeStep DEF vars, FrontInv
      <3>2. UNCHANGED <<frontVars, execVars>>
        BY <2>2 DEF vars
      <3> USE DEF frontVars, sharedVars, backendVars, taskVars, execVars
      <3>3. FrontTypeOK' /\ Distinct'
        BY <3>2 DEF FrontInv, FrontTypeOK, Distinct
      <3>4. ASSUME NEW c \in Conn PROVE ConnInv(c)'
        <4>1. ConnInv(c)
          BY DEF FrontInv
        <4>2. WellShaped(c)' /\ Tabled(c)'
          BY <3>2, <4>1 DEF ConnInv, WellShaped, Tabled, Holds, Asked
        <4>3. Served(c)' /\ Linked(c)'
          BY <3>2, <4>1 DEF ConnInv, Served, Typed, Linked, At, Holds, Asked
        <4> QED
          BY <4>2, <4>3 DEF ConnInv
      <3> QED
        BY <3>1, <3>3, <3>4 DEF FrontInv
    <2> QED
      BY <2>1, <2>2
  <1> QED
    BY <1>1, FrontInvInit, PTL DEF FrontSpec

-----------------------------------------------------------------------------
(* Theorems *)

\* Every variable of the frontend keeps its type (mysql_server.rs and the loop's
\* tables in lib.rs).
THEOREM FrontTypeCorrect == FrontSpec => []FrontTypeOK
  BY FrontInvariance, PTL DEF FrontInv

\* The backend's table of prepared statements and the command loop's hold the
\* same statements with the same number of parameters (on_prepare, on_close).
THEOREM TablesAgreement == FrontSpec => []TablesAgree
  <1>1. FrontInv => TablesAgree
    BY DEF FrontInv, ConnInv, WellShaped, Tabled, TablesAgree
  <1> QED
    BY <1>1, FrontInvariance, PTL

\* A conforming client is never cut off for a statement the server lost or for
\* types it did not keep (lib.rs: COM_STMT_EXECUTE; params.rs: bound_types).
THEOREM ConformingService == FrontSpec => []ConformingIsServed
  <1>1. FrontInv => ConformingIsServed
    BY DEF FrontInv, ConnInv, Served, ConformingIsServed
  <1> QED
    BY <1>1, FrontInvariance, PTL

\* A connection killed before its query or execute arrived does not start it,
\* however many connections share the set of killed ids
\* (abort_if_connection_killed).
THEOREM KillSafety == FrontSpec => []KilledRunsNothing
  <1>1. FrontInv => KilledRunsNothing
    BY DEF FrontInv, ConnInv, Linked, KilledRunsNothing
  <1> QED
    BY <1>1, FrontInvariance, PTL

\* A statement runs under the database its own connection is in
\* (active_schema_name at every call, set_schema in every call of the executor).
THEOREM CurrentDbSafety == FrontSpec => []RunsInCurrentDb
  <1>1. FrontInv => RunsInCurrentDb
    <2> SUFFICES ASSUME FrontInv, NEW c \in Conn, At(c, "run"), client[c] = "open",
                        call[c].op \notin SchemaDdl, currentDb[c] # NoDb
                 PROVE  path[c] = currentDb[c]
      BY DEF RunsInCurrentDb
    <2>1. call[c].schema = currentDb[c]
      BY DEF FrontInv, ConnInv, Linked, At
    <2> QED
      BY <2>1 DEF FrontInv, ExecInv, PathFollowsSchema, SetsSchema, At, AtWork
  <1> QED
    BY <1>1, FrontInvariance, PTL

\* The insert id of a connection is that of a row it wrote itself (on_query and
\* on_execute: last_insert_id).
THEOREM OwnInsertId == FrontSpec => []LastInsertIdIsOwn
  <1>1. FrontInv => LastInsertIdIsOwn
    BY DEF FrontInv, ConnInv, Linked, LastInsertIdIsOwn
  <1> QED
    BY <1>1, FrontInvariance, PTL

\* Of the calls that fail only those of CREATE and DROP DATABASE end their
\* connection (the ? in on_query).
THEOREM DropSafety == FrontSpec => OnlySchemaDdlDrops
  <1>1. ASSUME FrontInv, NEW c \in Conn, FrontStep(c), NEW d \in Conn, phase[d] = "calling",
               call[d].stage \in Failure, phase'[d] = "closed"
        PROVE  Asked(d).kind \in {"create_db", "drop_db"}
    <2>1. FrontTypeOK /\ TypeOK /\ ConnInv(c)
      BY <1>1 DEF FrontInv, ExecInv
    <2>2. d = c
      BY <1>1, <2>1, FrontFrame DEF Same
    <2>3. ~At(c, "idle")
      BY <1>1, <2>2 DEF At, Failure
    <2>4. CASE FinishDdlFailed(c)
      BY <2>1, <2>2, <2>3, <2>4 DEF FinishDdlFailed, ConnInv, Linked
    <2>5. CASE ~FinishDdlFailed(c)
      <3> USE DEF FrontTypeOK, Answer, Awaits, Serving, Ends, frontVars, taskVars
      <3>1. CASE Connect(c) \/ Quit(c) \/ Receive(c) \/ PgLeaves(c) \/ Awaited(c)
        BY <1>1, <2>1, <2>2, <3>1 DEF Connect, Accept, HandshakeWithoutDb, HandshakeWithDb, Quit,
                                      Receive, PgLeaves, Awaited
      <3>2. CASE ServeCommand(c)
        BY <1>1, <2>1, <2>2, <3>2 DEF ServeCommand, CheckNotKilled, AbortIfKilled, UnknownToLoop, Ping,
                                      ServeInit, ServeClose, ServeReset
      <3>3. CASE ServeQuery(c)
        BY <1>1, <2>1, <2>2, <3>3 DEF ServeQuery, QueryLocal, QueryKill, QuerySet, QuerySchemaDdl,
                                      QueryStatement
      <3>4. CASE ServePrepare(c)
        BY <1>1, <2>1, <2>2, <3>4 DEF ServePrepare, PrepareAtOnce, PrepareRefused, PrepareDescribes,
                                      FinishPrepare, Register
      <3>5. CASE ServeExecute(c)
        BY <1>1, <2>1, <2>2, <3>5 DEF ServeExecute, ExecuteLocal, ExecuteSet, ExecuteWithoutTypes,
                                      ExecuteRefused, ExecuteStatement, ExecuteParts, BeginPart,
                                      FinishPart, Decodes
      <3>6. CASE Finish(c)
        BY <1>1, <2>1, <2>2, <2>5, <3>6 DEF Finish, FinishStatement, FinishMisfit, FinishFailed,
                                      FinishOption, FinishCreate, FinishDrop, Failure
      <3> QED
        BY <1>1, <3>1, <3>2, <3>3, <3>4, <3>5, <3>6 DEF FrontStep, Serve
    <2> QED
      BY <2>4, <2>5
  <1>2. FrontInv /\ [FrontNext]_vars =>
          [\A c \in Conn :
             phase[c] = "calling" /\ call[c].stage \in Failure /\ phase'[c] = "closed"
               => Asked(c).kind \in {"create_db", "drop_db"}]_vars
    BY <1>1, FrontNextIsStep
  <1> QED
    BY <1>2, FrontInvariance, PTL DEF FrontSpec, OnlySchemaDdlDrops

\* The frontend uses the executors as a service that answers a call once and
\* never runs it twice (StatementService), however its commands interleave.
THEOREM FrontendUsesService == FrontSpec => ServiceSpec
  <1>1. FrontInit => Service!Init
    BY DEF FrontInit, Init, Service!Init, Outcome, IdleCall, Failure
  <1>2. FrontInv /\ [FrontNext]_vars => [Service!Next]_(Service!vars)
    <2> SUFFICES ASSUME FrontInv, [FrontNext]_vars PROVE [Service!Next]_(Service!vars)
      OBVIOUS
    <2>1. CASE FrontNext
      <3>1. PICK c \in Conn : FrontStep(c)
        BY <2>1, FrontNextIsStep
      <3>2. ExecStep(c) \/ UNCHANGED execVars
        BY <3>1, ExecMoves DEF FrontInv, ConnInv
      <3> QED
        BY <3>2, ServiceStep DEF FrontInv, execVars, Service!vars, Outcome
    <2>2. CASE UNCHANGED vars
      BY <2>2 DEF vars, execVars, Service!vars, Outcome
    <2> QED
      BY <2>1, <2>2
  <1> QED
    BY FrontInvariance, <1>1, <1>2, PTL DEF FrontSpec, ServiceSpec, Service!Spec

\* What the frontend does to the executors is a behaviour of them alone: it calls
\* each one call at a time, describes prepared texts only, and creates or drops a
\* schema by the methods for it, whatever its clients send (mysql_server.rs: every
\* await of self.executor).  Ops = Op because the frontend makes every kind of call.
THEOREM FrontendUsesExecutor == Ops = Op => (FrontSpec => ExecutorSpec)
  <1> SUFFICES ASSUME Ops = Op PROVE FrontSpec => ExecutorSpec
    OBVIOUS
  <1>1. FrontInit => Init
    BY DEF FrontInit
  <1>2. FrontInv /\ [FrontNext]_vars => [Next]_execVars
    <2> SUFFICES ASSUME FrontInv, [FrontNext]_vars PROVE [Next]_execVars
      OBVIOUS
    <2>1. CASE FrontNext
      <3>1. PICK c \in Conn : FrontStep(c)
        BY <2>1, FrontNextIsStep
      <3>2. ExecStep(c) \/ UNCHANGED execVars
        BY <3>1, ExecMoves DEF FrontInv, ConnInv
      <3>3. ExecStep(c) => ExecNext(c)
        BY DEF ExecStep, ExecNext, BeginSome, BeginAny
      <3> QED
        BY <3>2, <3>3 DEF Next
    <2>2. CASE UNCHANGED vars
      BY <2>2 DEF vars, execVars
    <2> QED
      BY <2>1, <2>2
  <1> QED
    BY FrontInvariance, <1>1, <1>2, PTL DEF FrontSpec, ExecutorSpec
=============================================================================
