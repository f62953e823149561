CONSTANTS
  Conn = {c1}
  Db = {d1}
  NoDb = NoDb
  Ops = {"query", "insert", "begin", "commit", "rollback", "describe", "create_schema", "drop_schema"}
  MaxIdentity = 0
  MaxRows = 1
  Queries <- LocalQueries
  Commands = {"query", "prepare", "execute", "close", "reset", "init_db", "ping"}
  SessionValue = {v0, v1}
  InitialValue = v0
  MaxConnId = 2
  MaxStmt = 1
  MaxParts = 2
  ParamModulus = 2
  Conforming = FALSE
  NoStmt = NoStmt
  v0 = v0
  v1 = v1
SPECIFICATION FrontSpec

PROPERTIES OnlySchemaDdlDrops CommandsEnd ExecutorSpec
\* All clients may have come and gone.
CHECK_DEADLOCK FALSE
