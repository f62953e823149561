SPECIFICATION IndexSpec
CONSTANTS
  Schema = {"s1", "public"}
  PublicSchema = "public"
  TableName <- MCTableName
  KeyLists <- OneKeyList
  Changes <- FewChanges
  Anonymous <- MCAnonymous
  ColumnName <- MCColumn
  MaxRelations = 3
  Careful = FALSE
INVARIANTS InlineKeysAreRejected
