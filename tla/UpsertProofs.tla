---------------------------- MODULE UpsertProofs ----------------------------
(* Proofs about INSERTs into a table, for any columns, unique keys, values  *)
(* and lists of columns.                                                    *)
EXTENDS Upsert, SequenceTheorems, FoldLemmas

\* The inductive invariant: no two rows have a key in common, and there are
\* finitely many.
UpsertInv == UpsertTypeOK /\ IsFiniteSet(rows)

DefaultsTyped == default \in [Field -> FieldValue]

-----------------------------------------------------------------------------
(* Rows *)

LEMMA ListedColumns ==
  ASSUME NEW columns, NEW values \in [DOMAIN columns -> FieldValue]
  PROVE  /\ DefaultsTyped => RowOf(columns, values) \in Row
         /\ columns \in Seq(Field) => values \in Seq(FieldValue) /\ Len(values) = Len(columns)
  <1>1. ASSUME NEW c \in Field, Contains(columns, c)
        PROVE  values[CHOOSE i \in DOMAIN columns : columns[i] = c] \in FieldValue
    <2>1. \E i \in DOMAIN columns : columns[i] = c
      BY <1>1 DEF Contains
    <2>2. (CHOOSE i \in DOMAIN columns : columns[i] = c) \in DOMAIN columns
      BY <2>1
    <2> QED
      BY <2>2
  <1>2. DefaultsTyped => \A c \in Field : default[c] \in FieldValue
    BY DEF DefaultsTyped
  <1>3. DefaultsTyped => RowOf(columns, values) \in Row
    BY <1>1, <1>2 DEF RowOf, Row
  <1> QED
    BY <1>3

\* The language that is the column's default is the one the column has anyway.
ByDefault(columns) == Fills(columns) => "language" \in Field /\ default["language"] = ""

\* Filling in a language leaves the first column and the login what they are.
LEMMA FilledRow ==
  ASSUME NEW columns \in Seq(Field), NEW values \in [DOMAIN columns -> FieldValue]
  PROVE  LET filled == InsertDefaults(columns, values)
         IN  /\ filled[2] \in [DOMAIN filled[1] -> FieldValue]
             /\ columns # <<>> => Head(filled[1]) = Head(columns)
             /\ Contains(filled[1], "login") <=> Contains(columns, "login")
             /\ ByDefault(columns) => /\ ToSet(filled[1]) \subseteq Field
                                     /\ RowOf(filled[1], filled[2]) = RowOf(columns, values)
  <1> DEFINE more == Append(columns, "language")
             vals == Append(values, "")
  <1>1. CASE ~Fills(columns)
    <2>1. InsertDefaults(columns, values) = <<columns, values>>
      BY <1>1 DEF InsertDefaults
    <2>2. ToSet(columns) \subseteq Field
      BY DEF ToSet
    <2> QED
      BY <2>1, <2>2
  <1>2. CASE Fills(columns)
    <2>1. InsertDefaults(columns, values) = <<more, vals>>
      BY <1>2 DEF InsertDefaults
    <2> USE <1>2 DEF Fills
    <2>2. /\ values \in Seq(FieldValue) /\ Len(values) = Len(columns) /\ Len(columns) \in Nat
          /\ Len(more) = Len(columns) + 1 /\ DOMAIN more = 1 .. (Len(columns) + 1)
          /\ more[Len(columns) + 1] = "language" /\ vals[Len(columns) + 1] = ""
          /\ DOMAIN columns = 1 .. Len(columns)
          /\ \A i \in 1 .. Len(columns) : more[i] = columns[i] /\ vals[i] = values[i]
      <3>1. values \in Seq(FieldValue) /\ Len(values) = Len(columns) /\ Len(columns) \in Nat
        BY ListedColumns
      <3>2. columns \in Seq(Field \cup {"language"})
        OBVIOUS
      <3>3. /\ Len(more) = Len(columns) + 1 /\ DOMAIN more = 1 .. (Len(columns) + 1)
            /\ more[Len(columns) + 1] = "language"
            /\ \A i \in 1 .. Len(columns) : more[i] = columns[i]
        BY <3>1, <3>2
      <3>4. /\ vals[Len(columns) + 1] = ""
            /\ \A i \in 1 .. Len(columns) : vals[i] = values[i]
        <4>1. "" \in FieldValue
          BY UpsertAssumption
        <4>2. \A v \in Seq(FieldValue) : /\ Append(v, "")[Len(v) + 1] = ""
                                        /\ \A i \in 1 .. Len(v) : Append(v, "")[i] = v[i]
          BY Zenon, <4>1, Appended
        <4> QED
          BY Zenon, <3>1, <4>2
      <3>5. DOMAIN columns = 1 .. Len(columns)
        OBVIOUS
      <3> HIDE DEF more, vals
      <3> QED
        BY <3>1, <3>3, <3>4, <3>5
    <2> HIDE DEF more, vals
    <2>3. ASSUME NEW c
          PROVE  Contains(more, c) <=> Contains(columns, c) \/ c = "language"
      <3>1. 1 .. Len(more) = 1 .. Len(columns) \cup {Len(columns) + 1}
        BY <2>2, NextInterval
      <3> QED
        BY <2>2, <3>1 DEF Contains
    <2>4. ASSUME NEW c \in Field, Contains(columns, c)
          PROVE  vals[CHOOSE i \in DOMAIN more : more[i] = c]
                   = values[CHOOSE i \in DOMAIN columns : columns[i] = c]
      <3>1. c # "language"
        BY <1>2, <2>4
      <3>2. \A i : i \in DOMAIN more /\ more[i] = c <=> i \in DOMAIN columns /\ columns[i] = c
        <4>1. DOMAIN more = DOMAIN columns \cup {Len(columns) + 1}
          BY <2>2, NextInterval
        <4> QED
          BY <2>2, <3>1, <4>1
      <3>3. (CHOOSE i \in DOMAIN more : more[i] = c) = CHOOSE i \in DOMAIN columns : columns[i] = c
        BY <3>2
      <3>4. \E i \in DOMAIN columns : columns[i] = c
        BY <2>4 DEF Contains
      <3>5. (CHOOSE i \in DOMAIN columns : columns[i] = c) \in 1 .. Len(columns)
        BY <3>4
      <3> QED
        BY <2>2, <3>3, <3>5
    <2>5. ASSUME "language" \in Field
          PROVE  vals[CHOOSE i \in DOMAIN more : more[i] = "language"] = ""
      <3>1. \A i \in DOMAIN more : more[i] = "language" <=> i = Len(columns) + 1
        <4>1. DOMAIN more = DOMAIN columns \cup {Len(columns) + 1}
          BY <2>2, NextInterval
        <4>2. \A i \in DOMAIN columns : columns[i] # "language"
          BY <1>2, <2>2 DEF Contains
        <4> QED
          BY <2>2, <4>1, <4>2
      <3>2. (CHOOSE i \in DOMAIN more : more[i] = "language") = Len(columns) + 1
        <4>1. Len(columns) + 1 \in DOMAIN more
          BY <2>2, NextInterval
        <4> QED
          BY <3>1, <4>1
      <3> QED
        BY <2>2, <3>2
    <2>6. ASSUME NEW c \in Field, ByDefault(columns)
          PROVE  RowOf(more, vals)[c] = RowOf(columns, values)[c]
      <3>1. CASE Contains(columns, c)
        <4>1. Contains(more, c)
          BY <2>3, <3>1
        <4>2. /\ RowOf(more, vals)[c] = vals[CHOOSE i \in DOMAIN more : more[i] = c]
              /\ RowOf(columns, values)[c] = values[CHOOSE i \in DOMAIN columns : columns[i] = c]
          BY <3>1, <4>1 DEF RowOf
        <4> QED
          BY Zenon, <2>4, <3>1, <4>2
      <3>2. CASE c = "language"
        BY <1>2, <2>3, <2>5, <2>6, <3>2 DEF RowOf, ByDefault
      <3>3. CASE ~Contains(columns, c) /\ c # "language"
        BY <2>3, <3>3 DEF RowOf
      <3> QED
        BY <3>1, <3>2, <3>3
    <2>7. ByDefault(columns) => RowOf(more, vals) = RowOf(columns, values)
      BY <2>6 DEF RowOf
    <2>8. columns # <<>> => Head(more) = Head(columns)
      <3>1. Head(more) = more[1]
        BY DEF more
      <3>2. columns # <<>> => Head(columns) = columns[1] /\ 1 \in 1 .. Len(columns)
        OBVIOUS
      <3> QED
        BY <2>2, <3>1, <3>2
    <2>9. ByDefault(columns) => ToSet(more) \subseteq Field
      <3>1. ASSUME NEW i \in DOMAIN more
            PROVE  more[i] \in Field \cup {"language"}
        <4>1. i \in 1 .. Len(columns) \/ i = Len(columns) + 1
          BY <2>2, NextInterval
        <4>2. \A j \in 1 .. Len(columns) : columns[j] \in Field
          OBVIOUS
        <4> QED
          BY <2>2, <4>1, <4>2
      <3> QED
        BY <3>1 DEF ByDefault, ToSet
    <2>10. vals \in [DOMAIN more -> FieldValue]
      <3>1. "" \in FieldValue
        BY UpsertAssumption
      <3>2. \A v \in Seq(FieldValue) : /\ Append(v, "") \in Seq(FieldValue)
                                      /\ Len(Append(v, "")) = Len(v) + 1
        BY Zenon, <3>1, AppendProperties
      <3>3. vals \in Seq(FieldValue) /\ Len(vals) = Len(values) + 1
        BY Zenon, <2>2, <3>2 DEF vals
      <3>4. DOMAIN vals = 1 .. (Len(values) + 1)
        BY <3>3
      <3>5. vals \in [DOMAIN vals -> FieldValue]
        BY <3>3
      <3>6. DOMAIN vals = DOMAIN more
        BY Zenon, <2>2, <3>4
      <3> QED
        BY Zenon, <3>5, <3>6
    <2> QED
      BY <2>1, <2>3, <2>7, <2>8, <2>9, <2>10
  <1> QED
    BY <1>1, <1>2

-----------------------------------------------------------------------------
(* What a statement does to the rows *)

KeysAre == /\ DOMAIN Keys = 1 .. Len(Keys) /\ Len(Keys) \in Nat /\ 1 \in DOMAIN Keys
           /\ \A i \in DOMAIN Keys : Keys[i] \subseteq Field

LEMMA KeysGiven == KeysAre
  <1>1. Keys \in Seq(SUBSET Field) /\ Keys # <<>>
    BY UpsertAssumption
  <1>2. Len(Keys) \in Nat /\ Len(Keys) # 0 /\ DOMAIN Keys = 1 .. Len(Keys)
    BY <1>1
  <1>3. \A i \in DOMAIN Keys : Keys[i] \subseteq Field
    BY <1>1
  <1> QED
    BY <1>2, <1>3 DEF KeysAre

\* Rows that have no key in common stay so with one that has none in common with
\* them.
LEMMA AddRow ==
  ASSUME NEW others, \A q \in others : ~Clashes(q, others \ {q}),
         NEW new, ~Clashes(new, others)
  PROVE  \A q \in others \cup {new} : ~Clashes(q, (others \cup {new}) \ {q})
  <1> SUFFICES ASSUME NEW q \in others \cup {new}, NEW p \in (others \cup {new}) \ {q},
                      NEW i \in DOMAIN Keys, Conflicts(p, q, Keys[i])
               PROVE  FALSE
    BY DEF Clashes
  <1>1. Conflicts(q, p, Keys[i])
    BY DEF Conflicts
  <1>2. CASE q = new
    BY <1>2 DEF Clashes
  <1>3. CASE q # new /\ p = new
    BY <1>1, <1>3 DEF Clashes
  <1>4. CASE q # new /\ p # new
    BY <1>4 DEF Clashes
  <1> QED
    BY <1>2, <1>3, <1>4

\* What a statement may leave.
Good(R) == R \subseteq Row /\ IsFiniteSet(R) /\ \A q \in R : ~Clashes(q, R \ {q})

LEMMA GoodAdded ==
  ASSUME NEW R, Good(R), NEW new \in Row, ~Clashes(new, R)
  PROVE  Good(R \cup {new})
  BY AddRow, FS_AddElement DEF Good

LEMMA GoodReplaced ==
  ASSUME UpsertInv, NEW q \in rows, NEW updates,
         \A c \in DOMAIN updates : updates[c] \in FieldValue
  PROVE  Good(Replaced(q, updates).rows)
  <1> DEFINE new == Updated(q, updates)
  <1>1. Good(rows)
    BY DEF UpsertInv, UpsertTypeOK, Good
  <1>2. Good(rows \ {q})
    <2>1. IsFiniteSet(rows \ {q})
      BY <1>1, FS_RemoveElement DEF Good
    <2>2. ASSUME NEW p \in rows \ {q} PROVE ~Clashes(p, (rows \ {q}) \ {p})
      BY <1>1 DEF Good, Clashes
    <2> QED
      BY <1>1, <2>1, <2>2 DEF Good
  <1>3. new \in Row
    BY <1>1 DEF Good, Updated, Row
  <1>4. Replaced(q, updates).rows = IF Clashes(new, rows \ {q}) THEN rows
                                    ELSE (rows \ {q}) \cup {new}
    BY DEF Replaced
  <1> HIDE DEF new
  <1> QED
    BY <1>1, <1>2, <1>3, <1>4, GoodAdded

\* The statements clients send, field by field.
Sent(stmt) ==
  /\ stmt.op \in {"insert", "ignore", "upsert"}
  /\ stmt.columns \in Lists /\ stmt.columns \in Seq(Field) /\ stmt.columns # <<>>
  /\ stmt.values \in [DOMAIN stmt.columns -> FieldValue]
  /\ stmt.op = "upsert" => \A c \in DOMAIN stmt.updates :
                             stmt.updates[c] \in FieldValue \cup {Expression}

LEMMA StatementsAre ==
  ASSUME NEW stmt \in InsertStatement
  PROVE  Sent(stmt)
  <1>1. ASSUME NEW f \in Filled
        PROVE  /\ f[1] \in Lists /\ f[1] \in Seq(Field) /\ f[1] # <<>>
               /\ f[2] \in [DOMAIN f[1] -> FieldValue]
    <2>1. PICK columns \in Lists : \E values \in [DOMAIN columns -> FieldValue] : f = <<columns, values>>
      BY <1>1 DEF Filled
    <2>2. PICK values \in [DOMAIN columns -> FieldValue] : f = <<columns, values>>
      BY <2>1
    <2>3. f[1] = columns /\ f[2] = values
      BY <2>2
    <2>4. columns \in Seq(Field) /\ columns # <<>>
      BY UpsertAssumption
    <2> QED
      BY <2>3, <2>4
  <1>2. ASSUME NEW u \in Updates
        PROVE  \A c \in DOMAIN u : u[c] \in FieldValue \cup {Expression}
    <2>1. PICK c \in Field, v \in FieldValue \cup {Expression} : u = [x \in {c} |-> v]
      BY DEF Updates
    <2> QED
      BY <2>1
  <1>3. CASE \E op \in {"insert", "ignore"}, f \in Filled : stmt = Insert(op, f[1], f[2], 1, TRUE, <<>>)
    <2>1. PICK op \in {"insert", "ignore"}, f \in Filled : stmt = Insert(op, f[1], f[2], 1, TRUE, <<>>)
      BY <1>3
    <2>2. stmt.op = op /\ stmt.columns = f[1] /\ stmt.values = f[2]
      BY <2>1 DEF Insert
    <2> QED
      BY <1>1, <2>2 DEF Sent
  <1>4. CASE \E f \in Filled, u \in Updates, n \in {1, 2}, b \in BOOLEAN :
               stmt = Insert("upsert", f[1], f[2], n, b, u)
    <2>1. PICK f \in Filled, u \in Updates, n \in {1, 2}, b \in BOOLEAN :
                 stmt = Insert("upsert", f[1], f[2], n, b, u)
      BY <1>4
    <2>2. stmt.op = "upsert" /\ stmt.columns = f[1] /\ stmt.values = f[2] /\ stmt.updates = u
      BY <2>1 DEF Insert
    <2> QED
      BY <1>1, <1>2, <2>2 DEF Sent
  <1>5. \/ \E op \in {"insert", "ignore"}, f \in Filled : stmt = Insert(op, f[1], f[2], 1, TRUE, <<>>)
        \/ \E f \in Filled, u \in Updates : stmt = Insert("upsert", f[1], f[2], 1, TRUE, u)
        \/ \E f \in Filled, u \in Updates : stmt = Insert("upsert", f[1], f[2], 2, TRUE, u)
        \/ \E f \in Filled, u \in Updates : stmt = Insert("upsert", f[1], f[2], 1, FALSE, u)
    <2> DEFINE Plain == {Insert(op, f[1], f[2], 1, TRUE, <<>>) : op \in {"insert", "ignore"}, f \in Filled}
               One   == {Insert("upsert", f[1], f[2], 1, TRUE, u) : f \in Filled, u \in Updates}
               Two   == {Insert("upsert", f[1], f[2], 2, TRUE, u) : f \in Filled, u \in Updates}
               Other == {Insert("upsert", f[1], f[2], 1, FALSE, u) : f \in Filled, u \in Updates}
    <2>1. stmt \in Plain \/ stmt \in One \/ stmt \in Two \/ stmt \in Other
      <3>1. InsertStatement = Plain \cup One \cup Two \cup Other
        BY DEF InsertStatement
      <3> HIDE DEF Plain, One, Two, Other
      <3> QED
        BY <3>1
    <2>2. ASSUME stmt \in Plain
          PROVE  \E op \in {"insert", "ignore"}, f \in Filled : stmt = Insert(op, f[1], f[2], 1, TRUE, <<>>)
      BY SMT, <2>2 DEF Insert
    <2>3. ASSUME stmt \in One
          PROVE  \E f \in Filled, u \in Updates : stmt = Insert("upsert", f[1], f[2], 1, TRUE, u)
      BY SMT, <2>3 DEF Insert
    <2>4. ASSUME stmt \in Two
          PROVE  \E f \in Filled, u \in Updates : stmt = Insert("upsert", f[1], f[2], 2, TRUE, u)
      BY SMT, <2>4 DEF Insert
    <2>5. ASSUME stmt \in Other
          PROVE  \E f \in Filled, u \in Updates : stmt = Insert("upsert", f[1], f[2], 1, FALSE, u)
      BY SMT, <2>5 DEF Insert
    <2> HIDE DEF Plain, One, Two, Other
    <2> QED
      BY Zenon, <2>1, <2>2, <2>3, <2>4, <2>5
  <1>6. 1 \in {1, 2} /\ 2 \in {1, 2} /\ TRUE \in BOOLEAN /\ FALSE \in BOOLEAN
    OBVIOUS
  <1> QED
    BY Zenon, <1>3, <1>4, <1>5, <1>6

\* What is sent of a statement that translates.
LEMMA Translated ==
  ASSUME NEW stmt, Sent(stmt), Translate(stmt).kind # "error"
  PROVE  /\ Translate(stmt).values \in [DOMAIN Translate(stmt).columns -> FieldValue]
         /\ FilledAsDefault(stmt) =>
              /\ ToSet(Translate(stmt).columns) \subseteq Field
              /\ RowOf(Translate(stmt).columns, Translate(stmt).values) = RowOf(stmt.columns, stmt.values)
         /\ Translate(stmt).kind = CASE stmt.op = "insert" -> "insert"
                                     [] stmt.op = "ignore" -> "nothing"
                                     [] stmt.op = "upsert" -> "upsert"
         /\ stmt.op = "upsert" =>
              /\ Translate(stmt).updates = stmt.updates
              /\ Translate(stmt).target
                   = ConflictTarget(InsertDefaults(stmt.columns, stmt.values)[1], stmt.updates)
  <1>1. CASE stmt.op = "upsert"
    <2> DEFINE filled == InsertDefaults(stmt.columns, stmt.values)
               target == ConflictTarget(filled[1], stmt.updates)
    <2>1. Translate(stmt) = [kind |-> "upsert", columns |-> filled[1], values |-> filled[2],
                             target |-> target, updates |-> stmt.updates]
      <3>1. Translate(stmt) = TranslateUpsert(stmt)
        BY <1>1 DEF Translate
      <3>2. TranslateUpsert(stmt) # NoInsert
        BY <3>1 DEF NoInsert
      <3> QED
        BY <3>1, <3>2 DEF TranslateUpsert
    <2>2. /\ filled[2] \in [DOMAIN filled[1] -> FieldValue]
          /\ FilledAsDefault(stmt) =>
               /\ ToSet(filled[1]) \subseteq Field
               /\ RowOf(filled[1], filled[2]) = RowOf(stmt.columns, stmt.values)
      BY <1>1, FilledRow DEF Sent, FilledAsDefault, ByDefault
    <2> HIDE DEF filled, target
    <2> QED
      BY <1>1, <2>1, <2>2 DEF filled, target
  <1>2. CASE stmt.op \in {"insert", "ignore"}
    <2>1. ToSet(stmt.columns) \subseteq Field
      BY DEF Sent, ToSet
    <2> QED
      BY <1>2, <2>1 DEF Translate, TranslateInsert, Sent
  <1> QED
    BY <1>1, <1>2 DEF Sent

\* Every way a statement ends leaves rows that have no key in common.
LEMMA ResultIsGood ==
  ASSUME UpsertInv, NEW stmt \in InsertStatement
  PROVE  Good(Result(stmt).rows)
  <1> DEFINE text == Translate(stmt)
             new == RowOf(text.columns, text.values)
  <1>1. Good(rows) /\ Sent(stmt)
    BY StatementsAre DEF UpsertInv, UpsertTypeOK, Good
  <1>2. CASE text.kind = "error" \/ ~Finds(stmt)
    <2>1. Result(stmt) = Unserved
      BY <1>2 DEF Result
    <2> QED
      BY <1>1, <2>1 DEF Unserved
  <1>3. CASE ~(text.kind = "error" \/ ~Finds(stmt))
    <2>1. Result(stmt) = PgRuns(text)
      BY <1>3 DEF Result
    <2>2. /\ text.values \in [DOMAIN text.columns -> FieldValue]
          /\ text.kind \in {"insert", "nothing", "upsert"}
          /\ text.kind = "upsert" => stmt.op = "upsert" /\ text.updates = stmt.updates
      BY <1>1, <1>3, Translated DEF Sent
    <2>3. new \in Row
      BY <2>2, ListedColumns DEF UpsertInv, UpsertTypeOK, DefaultsTyped
    <2>6. CASE ~(ToSet(text.columns) \subseteq Field)
      BY <1>1, <2>1, <2>6 DEF PgRuns, Unserved
    <2>4. CASE ToSet(text.columns) \subseteq Field /\ text.kind # "upsert"
      <3>1. PgRuns(text).rows = IF ~Clashes(new, rows) THEN rows \cup {new} ELSE rows
        <4> HIDE DEF text
        <4>1. text.kind \in {"insert", "nothing"}
          BY <2>2, <2>4
        <4>2. CASE ~Clashes(new, rows)
          BY <2>4, <4>1, <4>2 DEF PgRuns
        <4>3. CASE Clashes(new, rows)
          BY <2>4, <4>1, <4>3 DEF PgRuns, Unserved
        <4> QED
          BY <4>2, <4>3
      <3> HIDE DEF new
      <3> QED
        BY <1>1, <2>1, <2>3, <3>1, GoodAdded
    <2>5. CASE ToSet(text.columns) \subseteq Field /\ text.kind = "upsert"
      <3> DEFINE found == Matching(new, text.target)
      <3>1. PgRuns(text) = PgUpsert(text, new)
        <4> HIDE DEF text
        <4> QED
          BY <2>5 DEF PgRuns
      <3>2. CASE PgUpsert(text, new) = Unserved
        BY <1>1, <2>1, <3>1, <3>2 DEF Unserved
      <3>3. CASE /\ \A c \in DOMAIN text.updates : text.updates[c] # Expression
                 /\ found # {} /\ PgUpsert(text, new) = Replaced(CHOOSE q \in found : TRUE, text.updates)
        <4>1. (CHOOSE q \in found : TRUE) \in rows
          BY <3>3 DEF Matching
        <4>2. \A c \in DOMAIN text.updates : text.updates[c] \in FieldValue
          BY <1>1, <2>2, <2>5, <3>3 DEF Sent
        <4> HIDE DEF found, text
        <4> QED
          BY <2>1, <3>1, <3>3, <4>1, <4>2, GoodReplaced
      <3>4. CASE ~Clashes(new, rows) /\ PgUpsert(text, new) = [ok |-> TRUE, rows |-> rows \cup {new}]
        <4> HIDE DEF new, text
        <4> QED
          BY <1>1, <2>1, <2>3, <3>1, <3>4, GoodAdded
      <3> QED
        BY <3>2, <3>3, <3>4 DEF PgUpsert
    <2> QED
      BY <2>4, <2>5, <2>6
  <1> QED
    BY <1>2, <1>3

-----------------------------------------------------------------------------
(* The invariant *)

THEOREM UpsertInvariant == UpsertSpec => []UpsertInv
  <1>1. UpsertInit => UpsertInv
    BY FS_EmptySet, UpsertAssumption DEF UpsertInit, UpsertInv, UpsertTypeOK
  <1>2. UpsertInv /\ [UpsertNext]_upsertVars => UpsertInv'
    <2> SUFFICES ASSUME UpsertInv, [UpsertNext]_upsertVars PROVE UpsertInv'
      OBVIOUS
    <2>1. ASSUME NEW name \in {"user_language", "other"}, NEW d \in Defaults, MakeTable(name, d)
          PROVE  UpsertInv'
      <3>1. d \in [Field -> FieldValue]
        BY UpsertAssumption
      <3>2. ASSUME NEW q \in rows' PROVE ~Clashes(q, rows' \ {q})
        BY <2>1 DEF UpsertInv, UpsertTypeOK, MakeTable
      <3> QED
        BY <2>1, <3>1, <3>2 DEF UpsertInv, UpsertTypeOK, MakeTable
    <2>2. ASSUME NEW stmt \in InsertStatement, RunInsert(stmt) PROVE UpsertInv'
      <3>1. Good(Result(stmt).rows)
        BY ResultIsGood
      <3>2. rows' = Result(stmt).rows /\ named' = named /\ default' = default
        BY <2>2 DEF RunInsert
      <3>3. Good(rows')
        BY <3>1, <3>2
      <3> QED
        BY <3>2, <3>3 DEF Good, UpsertInv, UpsertTypeOK
    <2>3. CASE UNCHANGED upsertVars
      BY <2>3 DEF UpsertInv, UpsertTypeOK, upsertVars
    <2> QED
      BY <2>1, <2>2, <2>3 DEF UpsertNext
  <1> QED
    BY <1>1, <1>2, PTL DEF UpsertSpec

\* Type correctness, and that no two rows of the table have a unique key in
\* common, whatever ON CONFLICT names as the key (translate_mysql_upsert).
THEOREM UpsertTyped == UpsertSpec => []UpsertTypeOK
  <1>1. UpsertInv => UpsertTypeOK
    BY DEF UpsertInv
  <1> QED
    BY <1>1, UpsertInvariant, PTL

-----------------------------------------------------------------------------
(* What a statement does in MySQL and in PostgreSQL *)

LEMMA AtMostOne ==
  ASSUME NEW S, IsFiniteSet(S), ~(Cardinality(S) > 1), NEW x \in S, NEW y \in S
  PROVE  x = y
  <1> SUFFICES ASSUME x # y PROVE FALSE
    OBVIOUS
  <1>1. IsFiniteSet({x}) /\ Cardinality({x}) = 1
    BY FS_Singleton
  <1>2. Cardinality({x} \cup {y}) = 2
    BY <1>1, FS_AddElement
  <1>3. Cardinality({x} \cup {y}) <= Cardinality(S)
    BY FS_Subset
  <1>4. Cardinality(S) \in Nat
    BY FS_CardinalityType
  <1> QED
    BY <1>2, <1>3, <1>4

\* The keys by which a row of the table matches a new one.
Matched(new) == {i \in DOMAIN Keys : Matching(new, Keys[i]) # {}}

LEMMA MatchedIs ==
  ASSUME NEW new
  PROVE  /\ Clashes(new, rows) <=> Matched(new) # {}
         /\ Matched(new) # {} => Min(Matched(new)) \in Matched(new)
                                  /\ \A i \in Matched(new) : Min(Matched(new)) <= i
  <1>1. Clashes(new, rows) <=> Matched(new) # {}
    BY DEF Clashes, Matched, Matching
  <1>2. Matched(new) \subseteq Nat
    BY KeysGiven DEF KeysAre, Matched
  <1> QED
    BY <1>1, <1>2, MinIs

\* MySQL's three ways with a row that a key matches.
LEMMA MySqlDoes ==
  ASSUME NEW stmt, Sent(stmt)
  PROVE  LET new   == RowOf(stmt.columns, stmt.values)
             first == CHOOSE q \in Matching(new, Keys[Min(Matched(new))]) : TRUE
         IN  /\ ~Clashes(new, rows) => MySql(stmt) = [ok |-> TRUE, rows |-> rows \cup {new}]
             /\ Clashes(new, rows) =>
                  MySql(stmt) = IF stmt.op = "insert" THEN [ok |-> FALSE, rows |-> rows]
                                ELSE IF stmt.op = "ignore" THEN [ok |-> TRUE, rows |-> rows]
                                ELSE Replaced(first, stmt.updates)
  <1> DEFINE new == RowOf(stmt.columns, stmt.values)
             first == CHOOSE q \in Matching(new, Keys[Min(Matched(new))]) : TRUE
  <1>1. MySql(stmt) = IF Matched(new) = {} THEN [ok |-> TRUE, rows |-> rows \cup {new}]
                      ELSE CASE stmt.op = "insert" -> [ok |-> FALSE, rows |-> rows]
                             [] stmt.op = "ignore" -> [ok |-> TRUE, rows |-> rows]
                             [] stmt.op = "upsert" -> Replaced(first, stmt.updates)
    BY Zenon DEF MySql, Matched
  <1>2. Clashes(new, rows) <=> Matched(new) # {}
    BY MatchedIs
  <1>3. stmt.op \in {"insert", "ignore", "upsert"}
    BY DEF Sent
  <1> HIDE DEF new, first
  <1>4. ~Clashes(new, rows) => MySql(stmt) = [ok |-> TRUE, rows |-> rows \cup {new}]
    BY <1>1, <1>2
  <1>5. ASSUME Clashes(new, rows)
        PROVE  MySql(stmt) = IF stmt.op = "insert" THEN [ok |-> FALSE, rows |-> rows]
                             ELSE IF stmt.op = "ignore" THEN [ok |-> TRUE, rows |-> rows]
                             ELSE Replaced(first, stmt.updates)
    <2>1. CASE stmt.op = "insert"
      BY <1>1, <1>2, <1>5, <2>1
    <2>2. CASE stmt.op = "ignore"
      BY <1>1, <1>2, <1>5, <2>2
    <2>3. CASE stmt.op = "upsert"
      BY <1>1, <1>2, <1>5, <2>3
    <2> QED
      BY <1>3, <2>1, <2>2, <2>3
  <1> QED
    BY <1>4, <1>5 DEF new, first

\* PostgreSQL's, of a statement that is sent to it.
LEMMA PgUpsertDoes ==
  ASSUME NEW stmt, Sent(stmt), stmt.op = "upsert",
         Translate(stmt).kind # "error", Finds(stmt), FilledAsDefault(stmt)
  PROVE  LET new    == RowOf(stmt.columns, stmt.values)
             target == ConflictTarget(InsertDefaults(stmt.columns, stmt.values)[1], stmt.updates)
             found  == Matching(new, target)
         IN  Result(stmt) =
               IF target \notin Range(Keys) \/ \E c \in DOMAIN stmt.updates : stmt.updates[c] = Expression
               THEN Unserved
               ELSE IF found # {} THEN Replaced(CHOOSE q \in found : TRUE, stmt.updates)
               ELSE IF Clashes(new, rows) THEN Unserved
               ELSE [ok |-> TRUE, rows |-> rows \cup {new}]
  <1> DEFINE text   == Translate(stmt)
             target == ConflictTarget(InsertDefaults(stmt.columns, stmt.values)[1], stmt.updates)
  <1>1. Result(stmt) = PgRuns(text)
    BY DEF Result
  <1>2. /\ RowOf(text.columns, text.values) = RowOf(stmt.columns, stmt.values)
        /\ ToSet(text.columns) \subseteq Field
        /\ text.kind = "upsert" /\ text.updates = stmt.updates /\ text.target = target
    BY Translated
  <1> HIDE DEF text, target
  <1>3. PgRuns(text) = PgUpsert(text, RowOf(stmt.columns, stmt.values))
    BY <1>2 DEF PgRuns
  <1> QED
    BY Zenon, <1>1, <1>2, <1>3 DEF PgUpsert, target

LEMMA PgInsertDoes ==
  ASSUME NEW stmt, Sent(stmt), stmt.op \in {"insert", "ignore"}
  PROVE  LET new == RowOf(stmt.columns, stmt.values)
         IN  Result(stmt) = IF ~Clashes(new, rows) THEN [ok |-> TRUE, rows |-> rows \cup {new}]
                            ELSE IF stmt.op = "ignore" THEN [ok |-> TRUE, rows |-> rows]
                            ELSE Unserved
  <1> DEFINE text == Translate(stmt)
             new  == RowOf(stmt.columns, stmt.values)
  <1>1. /\ text.columns = stmt.columns /\ text.values = stmt.values
        /\ text.kind = IF stmt.op = "ignore" THEN "nothing" ELSE "insert"
        /\ ToSet(stmt.columns) \subseteq Field
    BY DEF Translate, TranslateInsert, Sent, ToSet
  <1> HIDE DEF text
  <1>2. Result(stmt) = PgRuns(text)
    BY <1>1 DEF Result, Finds, text
  <1>3. PgRuns(text) = IF ~Clashes(new, rows) THEN [ok |-> TRUE, rows |-> rows \cup {new}]
                       ELSE IF text.kind = "nothing" THEN [ok |-> TRUE, rows |-> rows] ELSE Unserved
    <2>1. text.kind # "upsert"
      BY <1>1
    <2> QED
      BY Zenon, <1>1, <2>1 DEF PgRuns
  <1>4. text.kind = "nothing" <=> stmt.op = "ignore"
    BY <1>1
  <1> HIDE DEF new
  <1> QED
    BY Zenon, <1>2, <1>3, <1>4 DEF new

\* What is served does what it does in MySQL: if a key matches, PostgreSQL has
\* found the row by one of the table's keys, and but one row is met by any.
LEMMA ServedStatement ==
  ASSUME UpsertInv, NEW stmt \in InsertStatement, Result(stmt).ok, FilledAsDefault(stmt),
         stmt.op = "upsert" => ~MeetsTwoRows(stmt)
  PROVE  Result(stmt) = MySql(stmt)
  <1> DEFINE new    == RowOf(stmt.columns, stmt.values)
             target == ConflictTarget(InsertDefaults(stmt.columns, stmt.values)[1], stmt.updates)
             met    == {q \in rows : \E i \in DOMAIN Keys : Conflicts(q, new, Keys[i])}
             ours   == CHOOSE q \in Matching(new, target) : TRUE
             first  == CHOOSE q \in Matching(new, Keys[Min(Matched(new))]) : TRUE
  <1>1. Sent(stmt)
    BY StatementsAre
  <1>2. /\ ~Clashes(new, rows) => MySql(stmt) = [ok |-> TRUE, rows |-> rows \cup {new}]
        /\ Clashes(new, rows) =>
             MySql(stmt) = IF stmt.op = "insert" THEN [ok |-> FALSE, rows |-> rows]
                           ELSE IF stmt.op = "ignore" THEN [ok |-> TRUE, rows |-> rows]
                           ELSE Replaced(first, stmt.updates)
    BY Zenon, <1>1, MySqlDoes
  <1>3. CASE stmt.op \in {"insert", "ignore"}
    <2>1. Result(stmt) = IF ~Clashes(new, rows) THEN [ok |-> TRUE, rows |-> rows \cup {new}]
                         ELSE IF stmt.op = "ignore" THEN [ok |-> TRUE, rows |-> rows]
                         ELSE Unserved
      BY <1>1, <1>3, PgInsertDoes
    <2> HIDE DEF new, first
    <2>2. CASE ~Clashes(new, rows)
      BY <1>2, <2>1, <2>2
    <2>3. CASE Clashes(new, rows) /\ stmt.op = "ignore"
      BY <1>2, <2>1, <2>3
    <2>4. CASE Clashes(new, rows) /\ stmt.op = "insert"
      BY <2>1, <2>4 DEF Unserved
    <2> QED
      BY <1>3, <2>2, <2>3, <2>4
  <1>4. CASE stmt.op = "upsert"
    <2>1. Translate(stmt).kind # "error" /\ Finds(stmt)
      BY DEF Result, Unserved
    <2>2. Result(stmt) =
            IF target \notin Range(Keys) \/ \E c \in DOMAIN stmt.updates : stmt.updates[c] = Expression
            THEN Unserved
            ELSE IF Matching(new, target) # {} THEN Replaced(ours, stmt.updates)
            ELSE IF Clashes(new, rows) THEN Unserved
            ELSE [ok |-> TRUE, rows |-> rows \cup {new}]
      BY Zenon, <1>1, <1>4, <2>1, PgUpsertDoes
    <2>3. Result(stmt) # Unserved
      BY DEF Unserved
    <2>4. CASE target \in Range(Keys) /\ Matching(new, target) # {} /\ Result(stmt) = Replaced(ours, stmt.updates)
      <3>1. PICK i \in DOMAIN Keys : Keys[i] = target
        BY <2>4 DEF Range
      <3>2. Clashes(new, rows) /\ Min(Matched(new)) \in Matched(new)
        <4>1. i \in Matched(new)
          BY <2>4, <3>1 DEF Matched
        <4> QED
          BY <4>1, MatchedIs
      <3>3. Matching(new, Keys[Min(Matched(new))]) # {} /\ Min(Matched(new)) \in DOMAIN Keys
        BY <3>2 DEF Matched
      <3>4. ours \in met
        BY <2>4, <3>1 DEF Matching
      <3>5. first \in met
        BY <3>3 DEF Matching
      <3>6. IsFiniteSet(met) /\ ~(Cardinality(met) > 1)
        <4>1. ~(Cardinality(met) > 1)
          BY Zenon, <1>4 DEF MeetsTwoRows
        <4>2. met \subseteq rows /\ IsFiniteSet(rows)
          BY DEF UpsertInv
        <4> QED
          BY <4>1, <4>2, FS_Subset
      <3>7. ours = first
        <4> HIDE DEF ours, first, met
        <4> QED
          BY <3>4, <3>5, <3>6, AtMostOne
      <3>8. stmt.op # "insert" /\ stmt.op # "ignore"
        BY <1>4
      <3> HIDE DEF ours, first, met, new, target
      <3> QED
        BY Zenon, <1>2, <2>4, <3>2, <3>7, <3>8
    <2>5. CASE ~Clashes(new, rows) /\ Result(stmt) = [ok |-> TRUE, rows |-> rows \cup {new}]
      BY Zenon, <1>2, <2>5
    <2> HIDE DEF ours, new, target, first
    <2> QED
      BY Zenon, <2>2, <2>3, <2>4, <2>5
  <1> QED
    BY <1>1, <1>3, <1>4 DEF Sent

\* A statement that is served does what it does in MySQL unless it meets two
\* rows, whatever columns, keys and values, but for a language filled in against
\* the column's default: the guess of the key is harmless
\* (infer_on_conflict_target, apply_on_duplicate_insert_defaults).
THEOREM ServedStatementsAgree == UpsertSpec => []ServedAsMySql
  <1>1. UpsertInv => ServedAsMySql
    BY Zenon, ServedStatement DEF ServedAsMySql
  <1> QED
    BY <1>1, UpsertInvariant, PTL

\* The guess is right for the statements it is made for.
LEMMA FirstKeyGuessed ==
  ASSUME NEW stmt, Sent(stmt), stmt.op = "upsert", stmt.count = 1,
         Keys[1] = {Head(stmt.columns)}, Head(stmt.columns) \notin DOMAIN stmt.updates,
         UserLanguage /\ Contains(stmt.columns, "login") => Keys[1] = {"login"}
  PROVE  /\ ConflictTarget(InsertDefaults(stmt.columns, stmt.values)[1], stmt.updates) = Keys[1]
         /\ Translate(stmt).kind = "upsert"
  <1> DEFINE filled == InsertDefaults(stmt.columns, stmt.values)
             target == ConflictTarget(filled[1], stmt.updates)
  <1>1. Head(filled[1]) = Head(stmt.columns)
        /\ (Contains(filled[1], "login") <=> Contains(stmt.columns, "login"))
    BY FilledRow DEF Sent
  <1>2. target = Keys[1]
    <2> HIDE DEF filled
    <2>1. CASE UserLanguage /\ Contains(filled[1], "login")
      BY <1>1, <2>1 DEF ConflictTarget
    <2>2. CASE ~(UserLanguage /\ Contains(filled[1], "login"))
      BY Zenon, <1>1, <2>2 DEF ConflictTarget
    <2> QED
      BY <2>1, <2>2
  <1>3. target # {}
    BY <1>2
  <1>4. Translate(stmt) = TranslateUpsert(stmt)
    BY DEF Translate
  <1>5. TranslateUpsert(stmt) = [kind |-> "upsert", columns |-> filled[1], values |-> filled[2],
                                 target |-> target, updates |-> stmt.updates]
    <2>1. ~(stmt.count > 1 \/ stmt.columns = <<>> \/ target = {})
      BY <1>3 DEF Sent
    <2> QED
      BY Zenon, <2>1 DEF TranslateUpsert
  <1> HIDE DEF filled
  <1> QED
    BY <1>2, <1>4, <1>5 DEF filled

\* An upsert by the table's first key is served if and only if MySQL serves it,
\* whatever columns, keys and values (infer_on_conflict_target).
THEOREM FirstKeyServed == UpsertSpec => []FirstKeyIsServed
  <1>1. FirstKeyIsServed
    <2> SUFFICES ASSUME NEW stmt \in InsertStatement,
                        stmt.op = "upsert", stmt.count = 1, stmt.asCreated,
                        FilledAsDefault(stmt),
                        Keys[1] = {Head(stmt.columns)}, Head(stmt.columns) \notin DOMAIN stmt.updates,
                        UserLanguage /\ Contains(stmt.columns, "login") => Keys[1] = {"login"},
                        \A c \in DOMAIN stmt.updates : stmt.updates[c] # Expression,
                        \/ Matching(RowOf(stmt.columns, stmt.values), Keys[1]) # {}
                        \/ ~Clashes(RowOf(stmt.columns, stmt.values), rows)
                 PROVE  Result(stmt).ok = MySql(stmt).ok
      BY Zenon DEF FirstKeyIsServed
    <2> DEFINE new   == RowOf(stmt.columns, stmt.values)
               found == Matching(new, Keys[1])
               first == CHOOSE q \in Matching(new, Keys[Min(Matched(new))]) : TRUE
    <2>1. Sent(stmt)
      BY StatementsAre
    <2>2. /\ ConflictTarget(InsertDefaults(stmt.columns, stmt.values)[1], stmt.updates) = Keys[1]
          /\ Translate(stmt).kind # "error" /\ Finds(stmt)
      BY <2>1, FirstKeyGuessed DEF Finds
    <2>3. Keys[1] \in Range(Keys) /\ 1 \in DOMAIN Keys
      BY KeysGiven DEF KeysAre, Range
    <2>4. Result(stmt) = IF found # {} THEN Replaced(CHOOSE q \in found : TRUE, stmt.updates)
                         ELSE IF Clashes(new, rows) THEN Unserved
                         ELSE [ok |-> TRUE, rows |-> rows \cup {new}]
      BY Zenon, <2>1, <2>2, <2>3, PgUpsertDoes
    <2>5. /\ ~Clashes(new, rows) => MySql(stmt) = [ok |-> TRUE, rows |-> rows \cup {new}]
          /\ Clashes(new, rows) =>
               MySql(stmt) = IF stmt.op = "insert" THEN [ok |-> FALSE, rows |-> rows]
                             ELSE IF stmt.op = "ignore" THEN [ok |-> TRUE, rows |-> rows]
                             ELSE Replaced(first, stmt.updates)
      BY Zenon, <2>1, MySqlDoes
    <2>6. stmt.op # "insert" /\ stmt.op # "ignore"
      OBVIOUS
    <2>7. CASE found # {}
      <3>1. 1 \in Matched(new)
        BY <2>3, <2>7 DEF Matched
      <3>2. Clashes(new, rows) /\ Min(Matched(new)) \in Matched(new) /\ Min(Matched(new)) <= 1
        BY <3>1, MatchedIs
      <3>3. Min(Matched(new)) = 1
        BY <3>2, KeysGiven DEF KeysAre, Matched
      <3>4. first = CHOOSE q \in found : TRUE
        BY Zenon, <3>3
      <3> HIDE DEF new, found, first
      <3> QED
        BY Zenon, <2>4, <2>5, <2>6, <2>7, <3>2, <3>4
    <2>8. CASE found = {}
      <3>1. ~Clashes(new, rows)
        BY <2>8
      <3> HIDE DEF new, found, first
      <3> QED
        BY Zenon, <2>4, <2>5, <2>8, <3>1
    <2> QED
      BY <2>7, <2>8
  <1> QED
    BY <1>1, PTL
=============================================================================
