CONSTANTS
  Conn = {c1, c2}
  Db = {}
  NoDb = NoDb
  Ops = {"query", "insert", "begin", "commit", "rollback", "describe", "create_schema", "drop_schema"}
  MaxIdentity = 0
  MaxRows = 1
  Queries <- KillQueries
  Commands = {"query"}
  SessionValue = {v0, v1}
  InitialValue = v0
  MaxConnId = 3
  MaxStmt = 0
  MaxParts = 2
  ParamModulus = 2
  Conforming = TRUE
  NoStmt = NoStmt
  v0 = v0
  v1 = v1
SPECIFICATION FrontSpec
INVARIANTS KilledRunsNothing
PROPERTIES KillsEnd
\* All clients may have come and gone.
CHECK_DEADLOCK FALSE
