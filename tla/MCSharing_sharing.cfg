CONSTANTS
  Conn = {c1, c2}
  Db = {d1, d2}
  NoDb = NoDb
  Ops = {"query", "insert", "begin", "commit", "rollback", "describe", "create_schema", "drop_schema"}
  MaxIdentity = 2
  MaxRows = 1
  Queries <- SharedQueries
  Commands = {"query", "init_db"}
  SessionValue = {v0, v1}
  InitialValue = v0
  MaxConnId = 3
  MaxStmt = 0
  MaxParts = 2
  ParamModulus = 2
  Conforming = TRUE
  NoStmt = NoStmt
  v0 = v0
  v1 = v1
SPECIFICATION MixSpec
INVARIANTS RunsInCurrentDb LastInsertIdIsOwn InsertIdIsOwn
\* All clients may have come and gone.
CHECK_DEADLOCK FALSE
