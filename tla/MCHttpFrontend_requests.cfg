SPECIFICATION Spec
CONSTANTS
  Task = {"web", "shell"}
  RoutesOf <- MCRoutesOf
  Texts <- MCTexts
  PgLimit = 1
INVARIANTS TypeOK AllOrNothing StatusTellsEffect
PROPERTIES SessionsEnd RequestsAreAnswered
