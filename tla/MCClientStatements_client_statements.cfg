SPECIFICATION Spec
CONSTANTS
  Column = {"c", "Size"}
  QuotedOnly = {"Size"}
  Member = {"new", "sale", "other"}
  NoColumn = NoColumn
  Definition <- MCDefinition
  Schema = {"s1", "public"}
  PublicSchema = "public"
  TableName <- MCTableName
  KeyLists <- MCKeyLists
  Changes <- MCChanges
  Anonymous <- MCAnonymous
  ColumnName <- MCColumn
  MaxRelations = 4
  Careful = TRUE
  Field <- MCField
  Keys <- MCKeys
  Lists <- MCLists
  FieldValue = {"", "a", "b"}
  Defaults <- MCDefaults
  MaxRows = 2
  Client = {c1, c2}
  Db = {d1, d2}
  NoDb = NoDb
  Public = Public
  SystemSchemas = {"pg_catalog", "information_schema"}
  RelName = {"t"}
  Texts <- MCTexts
  Mode = {"", "ANSI_QUOTES", "NO_AUTO_VALUE_ON_ZERO"}
  Level = {"READ-COMMITTED", "REPEATABLE-READ"}
  FirstMode = "NO_AUTO_VALUE_ON_ZERO"
  FirstLevel = "REPEATABLE-READ"
INVARIANTS
  ColumnTypeOK UnsignedBounded UnmodifiedKeepsValues ColumnsAgree
  IndexTypeOK IndexesAgree NamedKeyCanBeDropped
  UpsertTypeOK ServedAsMySql FirstKeyIsServed
  CatalogTypeOK DatabasesAgree AnsweredAsMySql StaysInDatabase
  TextTypeOK CountsAsMySql PgReadsAsMySql
  SettingsAsMySql
PROPERTIES RefusedTextChangesNothing
SYMMETRY Alike
