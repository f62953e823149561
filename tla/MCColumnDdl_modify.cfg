SPECIFICATION ColumnSpec
CONSTANTS
  Column = {"c"}
  QuotedOnly = {}
  Member = {"new", "sale", "other"}
  NoColumn = NoColumn
  Definition <- MCDefinition
INVARIANTS RangePreserved
