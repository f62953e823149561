CONSTANTS
  Conn = {c1}
  Db = {}
  NoDb = NoDb
  Ops = {"query", "insert", "begin", "commit", "rollback", "describe", "create_schema", "drop_schema"}
  MaxIdentity = 1
  MaxRows = 1
  Queries <- StatementQueries
  Commands = {"prepare", "execute", "close", "reset"}
  SessionValue = {v0, v1}
  InitialValue = v0
  MaxConnId = 1
  MaxStmt = 2
  MaxParts = 2
  ParamModulus = 2
  Conforming = TRUE
  NoStmt = NoStmt
  v0 = v0
  v1 = v1
SPECIFICATION FrontSpec
INVARIANTS FrontTypeOK TablesAgree ConformingIsServed
\* All clients may have come and gone.
CHECK_DEADLOCK FALSE
