CONSTANTS
  Conn = {c1}
  Db = {d1, d2}
  NoDb = NoDb
  Ops = {"query", "insert", "begin", "commit", "rollback", "describe", "create_schema", "drop_schema"}
  MaxIdentity = 2
  MaxRows = 2
SPECIFICATION Spec
INVARIANTS TypeOK PathFollowsSchema
PROPERTIES AbortedStaysAborted ServiceSpec CallsEnd
