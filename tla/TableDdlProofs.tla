--------------------------- MODULE TableDdlProofs ---------------------------
(* Proofs about the columns of a client's tables, for any columns,           *)
(* definitions of them and texts, and about their indexes, for any tables,   *)
(* columns, names and lists of keys, and for statements of any length.       *)
EXTENDS ColumnDdl, IndexDdl, SequenceTheorems, FoldLemmas

\* A column of PostgreSQL has the type of the last statement about it, takes
\* what that statement's CHECK lets pass, and whoever made it a key knows.
Follows(p, b) ==
  /\ p.type = PgTypeOf(b.type)
  /\ p.passes \subseteq CheckOf(b.type)
  /\ ~b.modified => p.passes = CheckOf(b.type)
  /\ p.key = b.key
  /\ p.notNull = b.notNull /\ p.default = b.default /\ p.identity = b.auto

\* The inductive invariant.
ColumnInv ==
  /\ ColumnTypeOK
  /\ \A c \in Columns : Follows(pg[c], believed[c])

-----------------------------------------------------------------------------
(* The translation of types *)

LEMMA Bases ==
  /\ Whole = {"tiny", "small", "medium", "int", "big"}
  /\ PgType = {"smallint", "integer", "bigint", "numeric", "real", "double precision", "text"}
  BY DEF Whole, Width, PgType, PgBits

LEMMA Apart == \A b : ~(b \in Whole /\ b \in Broken)
  BY DEF Whole, Width, Broken

\* The tables of PgTypeOf.
LEMMA UnsignedTable ==
  ASSUME NEW b \in {"tiny", "small", "medium", "int", "big"}
  PROVE  [tiny |-> "smallint", small |-> "integer", medium |-> "integer", int |-> "bigint",
          big |-> "bigint"][b] \in {"smallint", "integer", "bigint"}
  <1>1. CASE b = "tiny"
    BY <1>1
  <1>2. CASE b = "small"
    BY <1>2
  <1>3. CASE b = "medium"
    BY <1>3
  <1>4. CASE b = "int"
    BY <1>4
  <1>5. CASE b = "big"
    BY <1>5
  <1> QED
    BY <1>1, <1>2, <1>3, <1>4, <1>5

LEMMA SignedTable ==
  ASSUME NEW b \in {"tiny", "small", "medium", "int", "big"}
  PROVE  [tiny |-> "smallint", small |-> "smallint", medium |-> "integer", int |-> "integer",
          big |-> "bigint"][b] \in {"smallint", "integer", "bigint"}
  <1>1. CASE b = "tiny"
    BY <1>1
  <1>2. CASE b = "small"
    BY <1>2
  <1>3. CASE b = "medium"
    BY <1>3
  <1>4. CASE b = "int"
    BY <1>4
  <1>5. CASE b = "big"
    BY <1>5
  <1> QED
    BY <1>1, <1>2, <1>3, <1>4, <1>5

LEMMA BrokenTable ==
  ASSUME NEW b \in {"decimal", "float", "double"}
  PROVE  [decimal |-> "numeric", float |-> "real", double |-> "double precision"][b]
           \in {"numeric", "real", "double precision"}
  <1>1. CASE b = "decimal"
    BY <1>1
  <1>2. CASE b = "float"
    BY <1>2
  <1>3. CASE b = "double"
    BY <1>3
  <1> QED
    BY <1>1, <1>2, <1>3

LEMMA TypesTranslate ==
  ASSUME NEW t \in Type
  PROVE  PgTypeOf(t) \in PgType /\ CheckOf(t) \subseteq Value
  <1>1. PgTypeOf(t) \in PgType
    <2>1. CASE t.base \in Whole
      <3>1. PgTypeOf(t) = IF t.unsigned
                          THEN [tiny |-> "smallint", small |-> "integer", medium |-> "integer",
                                int |-> "bigint", big |-> "bigint"][t.base]
                          ELSE [tiny |-> "smallint", small |-> "smallint", medium |-> "integer",
                                int |-> "integer", big |-> "bigint"][t.base]
        BY <2>1, Apart DEF PgTypeOf
      <3>2. t.base \in {"tiny", "small", "medium", "int", "big"}
        BY <2>1, Bases
      <3>3. PgTypeOf(t) \in {"smallint", "integer", "bigint"}
        BY <3>1, <3>2, UnsignedTable, SignedTable, Zenon
      <3> QED
        BY <3>3, Bases
    <2>2. CASE t.base \in Broken
      <3>1. PgTypeOf(t) = [decimal |-> "numeric", float |-> "real",
                           double |-> "double precision"][t.base]
        BY <2>2, Apart DEF PgTypeOf
      <3>2. PgTypeOf(t) \in {"numeric", "real", "double precision"}
        BY <2>2, <3>1, BrokenTable, Zenon DEF Broken
      <3> QED
        BY <3>2, Bases
    <2>3. CASE t.base \notin Whole \cup Broken
      BY <2>3, Bases DEF PgTypeOf
    <2> QED
      BY <2>1, <2>2, <2>3
  <1>2. CheckOf(t) \subseteq Value
    BY DEF CheckOf, Value, NonNegative, Upto, TextIn
  <1> QED
    BY <1>1, <1>2

\* An unsigned type other than BIGINT lets pass no value out of its range.
LEMMA CheckBoundsUnsigned ==
  ASSUME NEW t \in Type, t.unsigned, t.base # "big"
  PROVE  CheckOf(t) \subseteq MySqlRange(t)
  <1>1. CASE t.base \in Whole
    BY <1>1 DEF CheckOf, MySqlRange
  <1>2. CASE t.base \in Broken
    BY <1>2, Bases DEF CheckOf, MySqlRange, Broken
  <1> QED
    BY <1>1, <1>2 DEF Type

\* A type but BIGINT UNSIGNED is translated to one at least as wide, with a CHECK
\* that lets its range pass.
LEMMA WideEnough ==
  ASSUME NEW t \in Type, t.unsigned => t.base # "big"
  PROVE  MySqlRange(t) \subseteq PgRange(PgTypeOf(t)) \cap CheckOf(t)
  <1>1. CASE t.base \in Whole /\ t.unsigned
    BY <1>1 DEF MySqlRange, PgRange, PgTypeOf, CheckOf, Type, Broken, Whole, Width, PgBits, Upto,
                NonNegative, Number, Bits
  <1>2. CASE t.base \in Whole /\ ~t.unsigned
    BY <1>2 DEF MySqlRange, PgRange, PgTypeOf, CheckOf, Type, Broken, Whole, Width, PgBits, Upto,
                NonNegative, Number, Bits, Value
  <1>3. CASE t.base \in Broken
    BY <1>3 DEF MySqlRange, PgRange, PgTypeOf, CheckOf, Type, Broken, Whole, Width, PgBits,
                NonNegative, Value
  <1>4. CASE t.base \in {"enum", "text"}
    BY <1>4 DEF MySqlRange, PgRange, PgTypeOf, CheckOf, Type, Broken, Whole, Width, PgBits, TextIn,
                Value
  <1> QED
    BY <1>1, <1>2, <1>3, <1>4 DEF Type

-----------------------------------------------------------------------------
(* The invariant of the columns *)

LEMMA Added ==
  ASSUME NEW def \in Def
  PROVE  /\ TranslateColumn(def) \in PgColumn
         /\ MySqlColumn(def, FALSE) \in Believed
         /\ Follows(TranslateColumn(def), MySqlColumn(def, FALSE))
  BY TypesTranslate DEF TranslateColumn, MySqlColumn, PgColumn, Believed, Follows, Def

LEMMA Modified ==
  ASSUME NEW p \in PgColumn, NEW b \in Believed, Follows(p, b),
         NEW def \in Def, ~def.auto, PgModifies(p, def)
  PROVE  /\ TranslateModify(p, def) \in PgColumn
         /\ MySqlColumn([def EXCEPT !.key = b.key], TRUE) \in Believed
         /\ Follows(TranslateModify(p, def), MySqlColumn([def EXCEPT !.key = b.key], TRUE))
  BY TypesTranslate DEF TranslateModify, MySqlColumn, PgColumn, Believed, Follows, Def, PgModifies

LEMMA InvInit == ColumnInit => ColumnInv
  BY DEF ColumnInit, ColumnInv, ColumnTypeOK, Columns

\* A statement about one column leaves the invariant of all.
LEMMA OneColumn ==
  ASSUME ColumnInv, NEW c \in Column, NEW p \in PgColumn, NEW b \in Believed, Follows(p, b),
         pg' = [pg EXCEPT ![c] = p], believed' = [believed EXCEPT ![c] = b], columnReply' = "ok"
  PROVE  ColumnInv'
  BY NoColumnAssumption DEF ColumnInv, ColumnTypeOK, Columns

LEMMA InvStep == ColumnInv /\ [ColumnNext]_columnVars => ColumnInv'
  <1> SUFFICES ASSUME ColumnInv, [ColumnNext]_columnVars PROVE ColumnInv'
    OBVIOUS
  <1>1. ASSUME NEW c \in Column, AddColumn(c) PROVE ColumnInv'
    <2>1. PICK def \in Definition :
            /\ pg' = [pg EXCEPT ![c] = TranslateColumn(def)]
            /\ believed' = [believed EXCEPT ![c] = MySqlColumn(def, FALSE)]
      BY <1>1 DEF AddColumn
    <2> QED
      BY <1>1, <2>1, DefinitionAssumption, Added, OneColumn DEF AddColumn
  <1>2. ASSUME NEW c \in Column, ModifyColumn(c) PROVE ColumnInv'
    <2>1. PICK def \in Modifiable(c) :
            /\ pg' = [pg EXCEPT ![c] = TranslateModify(pg[c], def)]
            /\ believed' = [believed EXCEPT
                              ![c] = MySqlColumn([def EXCEPT !.key = believed[c].key], TRUE)]
      BY <1>2 DEF ModifyColumn
    <2>2. pg[c] \in PgColumn /\ believed[c] \in Believed /\ Follows(pg[c], believed[c])
      BY <1>2 DEF ModifyColumn, ColumnInv, ColumnTypeOK, Columns
    <2>3. def \in Def /\ ~def.auto /\ PgModifies(pg[c], def)
      BY DefinitionAssumption DEF Modifiable
    <2> DEFINE p == TranslateModify(pg[c], def)
               b == MySqlColumn([def EXCEPT !.key = believed[c].key], TRUE)
    <2>4. p \in PgColumn /\ b \in Believed /\ Follows(p, b)
      BY <2>2, <2>3, Modified
    <2>5. pg' = [pg EXCEPT ![c] = p] /\ believed' = [believed EXCEPT ![c] = b]
      BY <2>1
    <2>6. columnReply' = "ok"
      BY <1>2 DEF ModifyColumn
    <2> HIDE DEF p, b
    <2> QED
      BY <2>4, <2>5, <2>6, OneColumn
  <1>3. ASSUME NEW c \in Column, AddRefused(c) \/ ModifyRefused(c) \/ DropRefused(c)
        PROVE  ColumnInv'
    BY <1>3 DEF AddRefused, ModifyRefused, DropRefused, ColumnInv, ColumnTypeOK, Columns
  <1>4. ASSUME NEW c \in Column, DropColumn(c) PROVE ColumnInv'
    BY <1>4 DEF DropColumn, ColumnInv, ColumnTypeOK, Columns
  <1>5. CASE UNCHANGED columnVars
    BY <1>5 DEF columnVars, ColumnInv, ColumnTypeOK, Columns
  <1> QED
    BY <1>1, <1>2, <1>3, <1>4, <1>5 DEF ColumnNext

LEMMA Invariance == ColumnSpec => []ColumnInv
  BY InvInit, InvStep, PTL DEF ColumnSpec

-----------------------------------------------------------------------------
(* Theorems about columns *)

\* Type correctness: the columns MySQL would have are those PostgreSQL has
\* (translate_create_table, translate_alter_table).
THEOREM ColumnTypeCorrect == ColumnSpec => []ColumnTypeOK
  BY Invariance, PTL DEF ColumnInv

\* However often a column is changed and whatever the definitions, an unsigned
\* one takes no value MySQL would refuse, but for BIGINT (translate_data_type).
THEOREM UnsignedSafety == ColumnSpec => []UnsignedBounded
  <1>1. ColumnInv => UnsignedBounded
    <2> SUFFICES ASSUME ColumnInv, NEW c \in Columns, believed[c].type.unsigned,
                        believed[c].type.base # "big"
                 PROVE  Takes(pg[c]) \subseteq MySqlRange(believed[c].type)
      BY DEF UnsignedBounded
    <2>1. believed[c].type \in Type
      BY DEF ColumnInv, ColumnTypeOK, Columns, Believed
    <2>2. pg[c].passes \subseteq CheckOf(believed[c].type)
      BY DEF ColumnInv, Follows
    <2> QED
      BY <2>1, <2>2, CheckBoundsUnsigned DEF Takes
  <1> QED
    BY Invariance, <1>1, PTL

\* A column that was never modified takes every value of its MySQL type, but for
\* BIGINT UNSIGNED (translate_data_type).
THEOREM WideningSafety == ColumnSpec => []UnmodifiedKeepsValues
  <1>1. ColumnInv => UnmodifiedKeepsValues
    <2> SUFFICES ASSUME ColumnInv, NEW c \in Columns, ~believed[c].modified,
                        believed[c].type.unsigned => believed[c].type.base # "big"
                 PROVE  MySqlRange(believed[c].type) \subseteq Takes(pg[c])
      BY DEF UnmodifiedKeepsValues
    <2>1. believed[c].type \in Type
      BY DEF ColumnInv, ColumnTypeOK, Columns, Believed
    <2>2. pg[c].passes = CheckOf(believed[c].type) /\ pg[c].type = PgTypeOf(believed[c].type)
      BY DEF ColumnInv, Follows
    <2> QED
      BY <2>1, <2>2, WideEnough DEF Takes
  <1> QED
    BY Invariance, <1>1, PTL

\* Nullability, default and AUTO_INCREMENT of a column are what the last
\* statement about it says (translate_modify_column).
THEOREM OptionsAgree == ColumnSpec => []ColumnsAgree
  <1>1. ColumnInv => ColumnsAgree
    BY DEF ColumnInv, Follows, ColumnsAgree
  <1> QED
    BY Invariance, <1>1, PTL

-----------------------------------------------------------------------------
(* Indexes: parts of a list of keys *)

LEMMA ThoseInOrder ==
  ASSUME NEW list, list \in Seq(Range(list)), NEW S
  PROVE  \E g \in [0 .. Len(list) -> Seq(Range(list))] :
           /\ g[0] = <<>>
           /\ \A k \in 1 .. Len(list) :
                g[k] = IF list[k] \in S THEN Append(g[k - 1], list[k]) ELSE g[k - 1]
           /\ Those(list, S) = g[Len(list)]
  <1> DEFINE Elem  == Range(list)
             Lists == Seq(Elem)
             Step(out, e) == IF e \in S THEN Append(out, e) ELSE out
             F == [p \in Lists \X Elem |-> Step(p[1], p[2])]
  <1>1. F \in [Lists \X Elem -> Lists] /\ <<>> \in Lists /\ list \in Seq(Elem)
    OBVIOUS
  <1> HIDE DEF Elem, Lists
  <1>2. PICK e \in [SUBSET DOMAIN list -> Lists] : Iterates(e, <<>>, F, list)
    <2> HIDE DEF F
    <2> QED
      BY Zenon, <1>1, FoldExists
  <1>3. e = [s \in SUBSET DOMAIN list |->
               IF s = {} THEN <<>> ELSE Step(e[s \ {Max(s)}], list[Max(s)])]
    <2>1. ASSUME NEW s \in SUBSET DOMAIN list, s # {}
          PROVE  e[s] = Step(e[s \ {Max(s)}], list[Max(s)])
      <3>1. e[s \ {Max(s)}] \in Lists /\ list[Max(s)] \in Elem
        BY <1>1, <2>1, PositionOfMax
      <3>2. e[s] = F[<<e[s \ {Max(s)}], list[Max(s)]>>]
        BY Zenon, <1>2, <2>1 DEF Iterates
      <3> QED
        BY <3>1, <3>2
    <2>2. e[{}] = <<>>
      BY Zenon, <1>2 DEF Iterates
    <2> HIDE DEF F, Step
    <2> QED
      BY <2>1, <2>2
  <1>4. PICK f : /\ f = [s \in SUBSET DOMAIN list |->
                          IF s = {} THEN <<>> ELSE Step(f[s \ {Max(s)}], list[Max(s)])]
                 /\ Those(list, S) = f[DOMAIN list]
    BY Zenon, <1>3 DEF Those, FoldLeft, MapThenFoldSet
  <1>5. Unfolds(f, <<>>, F, list, Lists)
    <2>1. ASSUME NEW s \in SUBSET DOMAIN list, s # {}, f[s \ {Max(s)}] \in Lists
          PROVE  f[s] = F[<<f[s \ {Max(s)}], list[Max(s)]>>]
      <3>1. list[Max(s)] \in Elem
        BY <1>1, <2>1, PositionOfMax
      <3>2. f[s] = Step(f[s \ {Max(s)}], list[Max(s)])
        BY Zenon, <1>4, <2>1
      <3> QED
        BY <2>1, <3>1, <3>2
    <2>2. f[{}] = <<>>
      BY Zenon, <1>4
    <2> HIDE DEF F
    <2> QED
      BY Zenon, <2>1, <2>2 DEF Unfolds
  <1>6. PICK g \in [0 .. Len(list) -> Lists] : PrefixStates(g, <<>>, F, list, f[DOMAIN list])
    <2> HIDE DEF F
    <2> QED
      BY Zenon, <1>1, <1>5, IterationRuns
  <1>7. \A k \in 1 .. Len(list) : g[k - 1] \in Lists /\ list[k] \in Elem
    BY <1>1
  <1> QED
    BY <1>4, <1>6, <1>7 DEF PrefixStates, Lists, Elem

LEMMA ThoseAre ==
  ASSUME NEW list, list \in Seq(Range(list)), NEW S
  PROVE  /\ Those(list, S) \in Seq(Range(list))
         /\ Range(Those(list, S)) = Range(list) \cap S
         /\ IsInjective(list) => IsInjective(Those(list, S))
  <1>1. PICK g \in [0 .. Len(list) -> Seq(Range(list))] :
           /\ g[0] = <<>>
           /\ \A k \in 1 .. Len(list) :
                g[k] = IF list[k] \in S THEN Append(g[k - 1], list[k]) ELSE g[k - 1]
           /\ Those(list, S) = g[Len(list)]
    BY ThoseInOrder
  <1> DEFINE First(k) == {list[i] : i \in 1 .. k}
             Right(k) == /\ Range(g[k]) = First(k) \cap S
                         /\ IsInjective(list) => IsInjective(g[k])
             T == {k \in 0 .. Len(list) : Right(k)}
  <1>2. Len(list) \in Nat /\ 0 \in T
    <2>1. Range(g[0]) = {} /\ IsInjective(g[0])
      BY <1>1 DEF Range, IsInjective
    <2>2. First(0) = {}
      OBVIOUS
    <2> QED
      BY <2>1, <2>2
  <1>3. ASSUME NEW k \in 1 .. Len(list), k - 1 \in T PROVE k \in T
    <2>1. First(k) = First(k - 1) \cup {list[k]}
      <3>1. 1 .. k = (1 .. (k - 1)) \cup {k}
        OBVIOUS
      <3> QED
        BY <3>1
    <2>2. g[k - 1] \in Seq(Range(list)) /\ list[k] \in Range(list) /\ Right(k - 1)
      <3>1. k - 1 \in 0 .. Len(list) /\ k \in DOMAIN list
        OBVIOUS
      <3>2. g[k - 1] \in Seq(Range(list))
        BY Zenon, <1>1, <3>1
      <3>3. list[k] \in Range(list)
        BY Zenon, <3>1 DEF Range
      <3> QED
        BY <1>3, <3>2, <3>3
    <2>3. CASE list[k] \notin S
      <3>1. g[k] = g[k - 1]
        BY <1>1, <2>3
      <3> QED
        BY <2>1, <2>2, <2>3, <3>1
    <2>4. CASE list[k] \in S
      <3> DEFINE old == g[k - 1]
                 new == Append(old, list[k])
      <3>1. g[k] = new
        BY <1>1, <2>4
      <3>2. /\ Len(old) \in Nat /\ DOMAIN old = 1 .. Len(old)
            /\ DOMAIN new = 1 .. (Len(old) + 1) /\ new[Len(old) + 1] = list[k]
            /\ \A i \in 1 .. Len(old) : new[i] = old[i]
        BY <2>2
      <3>3. DOMAIN new = DOMAIN old \cup {Len(old) + 1} /\ Len(old) + 1 \notin DOMAIN old
        BY <3>2
      <3> HIDE DEF old, new
      <3>4. Range(new) = Range(old) \cup {list[k]}
        <4>1. \A i \in DOMAIN old : i \in DOMAIN new /\ new[i] = old[i]
          BY <3>2, <3>3
        <4>2. Len(old) + 1 \in DOMAIN new
          BY <3>3
        <4>3. ASSUME NEW i \in DOMAIN new PROVE i \in DOMAIN old \/ i = Len(old) + 1
          BY <3>3
        <4>4. ASSUME NEW x \in Range(new) PROVE x \in Range(old) \cup {list[k]}
          <5>1. PICK i \in DOMAIN new : x = new[i]
            BY Zenon DEF Range
          <5>2. CASE i \in DOMAIN old
            BY Zenon, <4>1, <5>1, <5>2 DEF Range
          <5>3. CASE i = Len(old) + 1
            BY Zenon, <3>2, <5>1, <5>3
          <5> QED
            BY Zenon, <4>3, <5>2, <5>3
        <4>5. Range(old) \subseteq Range(new)
          BY Zenon, <4>1 DEF Range
        <4>6. list[k] \in Range(new)
          BY Zenon, <3>2, <4>2 DEF Range
        <4> QED
          BY Zenon, <4>4, <4>5, <4>6
      <3>5. ASSUME IsInjective(list) PROVE IsInjective(new)
        <4>1. list[k] \notin First(k - 1)
          BY <3>5 DEF IsInjective
        <4>2. list[k] \notin Range(old) /\ IsInjective(old)
          BY <2>2, <3>5, <4>1 DEF old
        <4>3. \A i \in DOMAIN old : old[i] # list[k]
          BY <4>2 DEF Range
        <4> QED
          BY <3>2, <3>3, <4>2, <4>3 DEF IsInjective
      <3> QED
        BY <2>1, <2>2, <2>4, <3>1, <3>4, <3>5 DEF old
    <2> QED
      BY <2>3, <2>4
  <1>4. Len(list) \in T
    <2> HIDE DEF T
    <2>1. 0 .. Len(list) \subseteq T
      BY Zenon, <1>2, <1>3, BoundedInduction
    <2> QED
      BY <1>2, <2>1
  <1>5. First(Len(list)) = Range(list)
    BY DEF Range
  <1> HIDE DEF First
  <1> QED
    BY <1>1, <1>2, <1>4, <1>5

-----------------------------------------------------------------------------
(* PostgreSQL's relations *)

\* Finitely many, none with another's name, a table for each.
Shaped(r) == /\ r = Relation(r.schema, r.name, r.kind, r.on)
             /\ r.kind \in {"table", "index", "constraint"}
             /\ r.kind = "table" => r.name = r.on
OneEach(R) == \A r, q \in R : r.schema = q.schema /\ r.name = q.name => r = q
OnTables(R) == \A r \in R : TableRel(r.schema, r.on) \in R
Kept(R) == IsFiniteSet(R) /\ (\A r \in R : Shaped(r)) /\ OneEach(R) /\ OnTables(R)

\* The names PostgreSQL tries for the index of a constraint, one longer than the
\* other.
Tried(base, n) == base \o [i \in 1 .. n |-> "1"]

LEMMA Lengths ==
  ASSUME NEW base, base \in Seq(Range(base)), NEW c, NEW n \in Nat
  PROVE  Len(base \o [i \in 1 .. n |-> c]) = Len(base) + n /\ Len(base) \in Nat
  <1> DEFINE E == Range(base) \cup {c}
             v == [i \in 1 .. n |-> c]
  <1>1. base \in Seq(E)
    OBVIOUS
  <1>2. v \in Seq(E) /\ Len(v) = n
    OBVIOUS
  <1> HIDE DEF E, v
  <1>3. Len(base \o v) = Len(base) + Len(v) /\ Len(base) \in Nat
    BY <1>1, <1>2
  <1> QED
    BY <1>2, <1>3 DEF v

LEMMA TriedApart ==
  ASSUME NEW base, base \in Seq(Range(base))
  PROVE  \A n, m \in Nat : Tried(base, n) = Tried(base, m) => n = m
  <1>1. ASSUME NEW n \in Nat PROVE Len(Tried(base, n)) = Len(base) + n /\ Len(base) \in Nat
    <2> DEFINE w == "1"
    <2>1. Tried(base, n) = base \o [i \in 1 .. n |-> w]
      BY Zenon DEF Tried
    <2> HIDE DEF w
    <2>2. Len(base \o [i \in 1 .. n |-> w]) = Len(base) + n /\ Len(base) \in Nat
      BY Lengths
    <2> QED
      BY <2>1, <2>2
  <1>2. ASSUME NEW n \in Nat, NEW m \in Nat, Tried(base, n) = Tried(base, m) PROVE n = m
    <2>1. Len(base) + n = Len(base) + m /\ Len(base) \in Nat
      BY Zenon, <1>1, <1>2
    <2> QED
      BY <2>1
  <1> QED
    BY <1>2

\* A statement the translation makes.
Piece(st) == /\ st.kind \in {"create_table", "add_constraint", "create_index", "drop_index"}
             /\ st.table \in TableName
             /\ st.constraint \in {"none", "free", "named", "refused"}
             /\ st.kind = "add_constraint" => st.constraint # "none"
             /\ st.constraint = "free" => st.name \in Seq(Range(st.name))

IndexRel(st) == Relation(st.schema, st.name, "index", st.table)
Constraints(st) ==
  {Relation(st.schema, name, "constraint", st.table) :
     name \in {st.name} \cup {Tried(st.name, n) : n \in Nat}}
Makeable(st) == {TableRel(st.schema, st.table), IndexRel(st)} \cup Constraints(st)

\* One of the names that are tried is free.
LEMMA ConstraintIs ==
  ASSUME NEW R, IsFiniteSet(R), NEW st, Piece(st),
         \/ st.constraint = "free"
         \/ st.constraint = "named" /\ ~Taken(R, st.schema, st.name)
  PROVE  LET c == ConstraintRel(R, st)
         IN  /\ c \in Constraints(st) /\ ~Taken(R, st.schema, c.name)
             /\ c = Relation(st.schema, c.name, "constraint", st.table)
  <1> DEFINE s == st.schema
             base == st.name
             C == Cardinality(R)
             free == {n \in 0 .. C : ~Taken(R, s, Tried(base, n))}
  <1>0. ASSUME NEW name, ConstraintRel(R, st) = Relation(s, name, "constraint", st.table),
               name \in {base} \cup {Tried(base, n) : n \in Nat}, ~Taken(R, s, name)
        PROVE  LET c == ConstraintRel(R, st)
               IN  /\ c \in Constraints(st) /\ ~Taken(R, st.schema, c.name)
                   /\ c = Relation(st.schema, c.name, "constraint", st.table)
    <2>1. Relation(s, name, "constraint", st.table).name = name
      BY DEF Relation
    <2> QED
      BY Zenon, <1>0, <2>1 DEF Constraints
  <1>1. CASE st.constraint = "named"
    <2>1. ConstraintRel(R, st) = Relation(s, base, "constraint", st.table)
      BY Zenon, <1>1 DEF ConstraintRel
    <2>2. ~Taken(R, s, base)
      BY <1>1
    <2> QED
      BY Zenon, <1>0, <2>1, <2>2
  <1>2. CASE st.constraint = "free"
    <2>0. base \in Seq(Range(base)) /\ C \in Nat
      BY <1>2, FS_CardinalityType DEF Piece
    <2>1. free # {}
      <3> SUFFICES ASSUME free = {} PROVE FALSE
        OBVIOUS
      <3> DEFINE h == [n \in 0 .. C |-> CHOOSE r \in R : r.name = Tried(base, n)]
      <3>1. ASSUME NEW n \in 0 .. C PROVE h[n] \in R /\ h[n].name = Tried(base, n)
        <4>1. \E r \in R : r.name = Tried(base, n)
          BY DEF Taken
        <4> QED
          BY <4>1
      <3>2. h \in Injection(0 .. C, R)
        <4>1. h \in [0 .. C -> R]
          BY <3>1
        <4>2. ASSUME NEW n \in 0 .. C, NEW m \in 0 .. C, h[n] = h[m] PROVE n = m
          BY <2>0, <3>1, <4>2, TriedApart
        <4> QED
          BY <4>1, <4>2 DEF Injection, IsInjective
      <3>3. IsFiniteSet(0 .. C) /\ Cardinality(0 .. C) = C + 1
        BY <2>0, FS_Interval
      <3>4. Cardinality(0 .. C) <= C
        BY <3>2, <3>3, FS_Injection
      <3> QED
        BY <2>0, <3>3, <3>4
    <2>2. Min(free) \in free
      <3>1. free \subseteq Nat
        BY <2>0
      <3> HIDE DEF free
      <3> QED
        BY <2>1, <3>1, MinIs
    <2>3. ConstraintRel(R, st) = Relation(s, Tried(base, Min(free)), "constraint", st.table)
      <3>1. "free" # "named"
        OBVIOUS
      <3> QED
        BY Zenon, <1>2, <3>1 DEF ConstraintRel, Tried
    <2>4. Min(free) \in Nat /\ ~Taken(R, s, Tried(base, Min(free)))
      BY <2>0, <2>2
    <2> HIDE DEF free
    <2> QED
      BY Zenon, <1>0, <2>3, <2>4
  <1> QED
    BY <1>1, <1>2

LEMMA AddKept ==
  ASSUME NEW R, Kept(R), NEW r, Shaped(r), ~Taken(R, r.schema, r.name),
         r.kind = "table" \/ TableRel(r.schema, r.on) \in R
  PROVE  Kept(R \cup {r})
  <1>1. IsFiniteSet(R \cup {r})
    BY FS_AddElement DEF Kept
  <1>2. OneEach(R \cup {r})
    BY DEF Kept, OneEach, Taken
  <1>3. TableRel(r.schema, r.on) \in R \cup {r}
    BY DEF Shaped, TableRel
  <1>4. OnTables(R \cup {r})
    BY <1>3 DEF Kept, OnTables
  <1> QED
    BY <1>1, <1>2, <1>4 DEF Kept

LEMMA DropKept ==
  ASSUME NEW R, Kept(R), NEW found \in SUBSET R, \A r \in found : r.kind = "index"
  PROVE  Kept(R \ found)
  <1>1. IsFiniteSet(R \ found)
    BY FS_Subset DEF Kept
  <1>2. \A r \in R \ found : TableRel(r.schema, r.on) \notin found
    BY DEF TableRel, Relation
  <1> QED
    BY <1>1, <1>2 DEF Kept, OneEach, OnTables

LEMMA ShapesAre ==
  ASSUME NEW s, NEW name, NEW kind, NEW on
  PROVE  LET r == Relation(s, name, kind, on)
         IN  r.schema = s /\ r.name = name /\ r.kind = kind /\ r.on = on
  BY DEF Relation

LEMMA TableAdded ==
  ASSUME NEW R, Kept(R), NEW s, NEW t, ~Taken(R, s, t)
  PROVE  Kept(R \cup {TableRel(s, t)}) /\ TableRel(s, t) \notin R
  <1>1. LET tr == TableRel(s, t)
        IN  tr.schema = s /\ tr.name = t /\ tr.kind = "table" /\ tr.on = t /\ Shaped(tr)
    BY DEF TableRel, Relation, Shaped
  <1> QED
    BY <1>1, AddKept DEF Taken

\* A constraint comes with an index that is new.
LEMMA ConstrainEffect ==
  ASSUME NEW R, Kept(R), NEW st, Piece(st), TableRel(st.schema, st.table) \in R
  PROVE  LET p == PgConstrain(R, st)
         IN  \/ p = Refuses(R) /\ st.constraint \in {"refused", "named"}
             \/ p = Makes(R) /\ st.constraint = "none"
             \/ /\ st.constraint \in {"free", "named"}
                /\ \E c \in Constraints(st) : c \notin R /\ Kept(R \cup {c}) /\ p = Makes(R \cup {c})
  <1>1. CASE st.constraint = "none"
    BY Zenon, <1>1 DEF PgConstrain
  <1>2. CASE \/ st.constraint = "refused"
             \/ st.constraint = "named" /\ Taken(R, st.schema, st.name)
    <2>1. "refused" # "none" /\ "named" # "none" /\ st.constraint \in {"refused", "named"}
      BY <1>2
    <2> QED
      BY Zenon, <1>2, <2>1 DEF PgConstrain
  <1>3. CASE \/ st.constraint = "free"
             \/ st.constraint = "named" /\ ~Taken(R, st.schema, st.name)
    <2> DEFINE c == ConstraintRel(R, st)
    <2>0. IsFiniteSet(R)
      BY DEF Kept
    <2>1. /\ c \in Constraints(st) /\ ~Taken(R, st.schema, c.name)
          /\ c = Relation(st.schema, c.name, "constraint", st.table)
      BY Zenon, <1>3, <2>0, ConstraintIs
    <2>2. PgConstrain(R, st) = Makes(R \cup {c})
      <3>1. /\ st.constraint # "none" /\ st.constraint # "refused"
            /\ ~(st.constraint = "named" /\ Taken(R, st.schema, st.name))
        BY <1>3
      <3> QED
        BY Zenon, <3>1 DEF PgConstrain
    <2> HIDE DEF c
    <2>3. c.schema = st.schema /\ c.kind = "constraint" /\ c.on = st.table /\ Shaped(c)
      BY <2>1, ShapesAre DEF Shaped
    <2>4. c \notin R
      BY <2>1, <2>3 DEF Taken
    <2>5. Kept(R \cup {c})
      BY <2>1, <2>3, AddKept
    <2>6. st.constraint \in {"free", "named"}
      BY <1>3
    <2> QED
      BY Zenon, <2>1, <2>2, <2>4, <2>5, <2>6
  <1> QED
    BY <1>1, <1>2, <1>3 DEF Piece

\* What CREATE TABLE makes, and what ADD UNIQUE.
LEMMA CreateTableEffect ==
  ASSUME NEW R, Kept(R), NEW st, Piece(st)
  PROVE  LET p  == PgCreateTable(R, st)
             tr == TableRel(st.schema, st.table)
         IN  \/ p = Makes(R) \/ p = Refuses(R)
             \/ st.constraint = "none" /\ tr \notin R /\ Kept(R \cup {tr}) /\ p = Makes(R \cup {tr})
             \/ /\ st.constraint \in {"free", "named"} /\ tr \notin R
                /\ \E c \in Constraints(st) : /\ c \notin R /\ Kept((R \cup {tr}) \cup {c})
                                             /\ p = Makes((R \cup {tr}) \cup {c})
  <1> DEFINE tr  == TableRel(st.schema, st.table)
             all == R \cup {tr}
             q   == PgConstrain(all, st)
  <1>1. CASE st.constraint = "refused" \/ Taken(R, st.schema, st.table)
    BY Zenon, <1>1 DEF PgCreateTable
  <1>2. CASE st.constraint # "refused" /\ ~Taken(R, st.schema, st.table)
    <2>1. PgCreateTable(R, st) = IF q.ok THEN q ELSE Refuses(R)
      BY Zenon, <1>2 DEF PgCreateTable
    <2>2. Kept(all) /\ tr \notin R /\ tr \in all
      BY <1>2, TableAdded
    <2> HIDE DEF all
    <2>3. \/ q = Refuses(all)
          \/ q = Makes(all) /\ st.constraint = "none"
          \/ /\ st.constraint \in {"free", "named"}
             /\ \E c \in Constraints(st) : c \notin all /\ Kept(all \cup {c}) /\ q = Makes(all \cup {c})
      BY Zenon, <2>2, ConstrainEffect
    <2> HIDE DEF q, tr
    <2>4. ~Refuses(all).ok /\ \A S : Makes(S).ok
      BY DEF Refuses, Makes
    <2>5. CASE q = Refuses(all)
      BY Zenon, <2>1, <2>4, <2>5
    <2>6. CASE q = Makes(all) /\ st.constraint = "none"
      BY Zenon, <2>1, <2>2, <2>4, <2>6 DEF all, tr
    <2>7. CASE /\ st.constraint \in {"free", "named"}
               /\ \E c \in Constraints(st) : c \notin all /\ Kept(all \cup {c}) /\ q = Makes(all \cup {c})
      <3>1. PICK c \in Constraints(st) : c \notin all /\ Kept(all \cup {c}) /\ q = Makes(all \cup {c})
        BY <2>7
      <3>2. c \notin R
        BY <3>1 DEF all
      <3>3. PgCreateTable(R, st) = Makes(all \cup {c})
        BY Zenon, <2>1, <2>4, <3>1
      <3> QED
        BY Zenon, <2>2, <2>7, <3>1, <3>2, <3>3 DEF all, tr
    <2> QED
      BY <2>3, <2>5, <2>6, <2>7
  <1> QED
    BY <1>1, <1>2

LEMMA AddConstraintEffect ==
  ASSUME NEW R, Kept(R), NEW st, Piece(st), st.kind = "add_constraint"
  PROVE  LET p == PgAddConstraint(R, st)
         IN  \/ p = Refuses(R)
             \/ /\ st.constraint \in {"free", "named"}
                /\ \E c \in Constraints(st) : c \notin R /\ Kept(R \cup {c}) /\ p = Makes(R \cup {c})
  <1>1. CASE TableRel(st.schema, st.table) \notin R
    BY Zenon, <1>1 DEF PgAddConstraint
  <1>2. CASE TableRel(st.schema, st.table) \in R
    <2>1. PgAddConstraint(R, st) = PgConstrain(R, st)
      BY Zenon, <1>2 DEF PgAddConstraint
    <2>2. st.constraint # "none"
      BY DEF Piece
    <2> DEFINE p == PgConstrain(R, st)
    <2>3. \/ p = Refuses(R)
          \/ st.constraint = "none"
          \/ /\ st.constraint \in {"free", "named"}
             /\ \E c \in Constraints(st) : c \notin R /\ Kept(R \cup {c}) /\ p = Makes(R \cup {c})
      BY <1>2, ConstrainEffect
    <2> HIDE DEF p
    <2>4. p = PgAddConstraint(R, st)
      BY <2>1 DEF p
    <2> QED
      BY Zenon, <2>2, <2>3, <2>4
  <1> QED
    BY <1>1, <1>2

\* Either is made, or refused.
LEMMA ConstraintForms ==
  ASSUME NEW R, Kept(R), NEW st, Piece(st)
  PROVE  /\ \E S : PgCreateTable(R, st) = Makes(S) \/ PgCreateTable(R, st) = Refuses(S)
         /\ st.kind = "add_constraint" =>
              \E S : PgAddConstraint(R, st) = Makes(S) \/ PgAddConstraint(R, st) = Refuses(S)
  <1> DEFINE p == PgCreateTable(R, st)
             q == PgAddConstraint(R, st)
             tr == TableRel(st.schema, st.table)
  <1>1. \/ p = Makes(R) \/ p = Refuses(R) \/ p = Makes(R \cup {tr})
        \/ \E c \in Constraints(st) : p = Makes((R \cup {tr}) \cup {c})
    BY CreateTableEffect
  <1>2. ASSUME st.kind = "add_constraint"
        PROVE  q = Refuses(R) \/ \E c \in Constraints(st) : q = Makes(R \cup {c})
    BY <1>2, AddConstraintEffect
  <1> HIDE DEF p, q, tr
  <1>3. \E S : p = Makes(S) \/ p = Refuses(S)
    BY Zenon, <1>1
  <1>4. st.kind = "add_constraint" => \E S : q = Makes(S) \/ q = Refuses(S)
    BY Zenon, <1>2
  <1> QED
    BY <1>3, <1>4 DEF p, q

LEMMA CreateIndexEffect ==
  ASSUME NEW R, Kept(R), NEW st, TableRel(st.schema, st.table) \in R,
         ~Taken(R, st.schema, st.name)
  PROVE  Kept(R \cup {IndexRel(st)})
  <1>1. LET r == IndexRel(st)
        IN  Shaped(r) /\ r.schema = st.schema /\ r.name = st.name /\ r.on = st.table
    BY DEF IndexRel, Relation, Shaped
  <1> QED
    BY <1>1, AddKept

\* DROP INDEX looks in one schema.
Found(R, s, name) == {r \in R : r.schema = s /\ r.name = name /\ r.kind = "index"}

LEMMA DropIndexEffect ==
  ASSUME NEW R, NEW st
  PROVE  /\ \/ \E s : PgDropIndex(R, st) = Makes(R \ Found(R, s, st.name))
            \/ PgDropIndex(R, st) = Refuses(R)
         /\ Taken(R, cur, st.name) =>
              PgDropIndex(R, st) = IF Found(R, cur, st.name) # {}
                                   THEN Makes(R \ Found(R, cur, st.name)) ELSE Refuses(R)
  BY Zenon DEF PgDropIndex, Found

\* What a statement may add, and that only DROP INDEX takes away.
LEMMA PieceEffect ==
  ASSUME NEW R, Kept(R), NEW st, Piece(st)
  PROVE  /\ PgApply(R, st).ok \in BOOLEAN
         /\ Kept(PgApply(R, st).rels)
         /\ PgApply(R, st).rels \subseteq R \cup Makeable(st)
         /\ st.kind # "drop_index" => R \subseteq PgApply(R, st).rels
         /\ \A r \in R : r.kind # "index" => r \in PgApply(R, st).rels
  <1> DEFINE p  == PgApply(R, st)
             tr == TableRel(st.schema, st.table)
  <1>0. /\ Refuses(R).ok = FALSE /\ Refuses(R).rels = R
        /\ \A S : Makes(S).ok = TRUE /\ Makes(S).rels = S
    BY DEF Refuses, Makes
  <1>6. ASSUME NEW S, p = Makes(S) \/ p = Refuses(R), Kept(S), R \subseteq S,
               S \subseteq R \cup Makeable(st)
        PROVE  /\ p.ok \in BOOLEAN /\ Kept(p.rels) /\ p.rels \subseteq R \cup Makeable(st)
               /\ R \subseteq p.rels
    BY <1>0, <1>6
  <1>7. ASSUME p = Refuses(R) \/ p = Makes(R)
        PROVE  /\ p.ok \in BOOLEAN /\ Kept(p.rels) /\ p.rels \subseteq R \cup Makeable(st)
               /\ R \subseteq p.rels
    BY <1>0, <1>7
  <1>8. tr \in Makeable(st) /\ IndexRel(st) \in Makeable(st) /\ Constraints(st) \subseteq Makeable(st)
    BY DEF Makeable
  <1> HIDE DEF p, tr
  <1>1. CASE st.kind = "create_table"
    <2>1. p = PgCreateTable(R, st)
      BY <1>1 DEF PgApply, p
    <2>2. \/ p = Makes(R) \/ p = Refuses(R)
          \/ Kept(R \cup {tr}) /\ p = Makes(R \cup {tr})
          \/ \E c \in Constraints(st) : Kept((R \cup {tr}) \cup {c}) /\ p = Makes((R \cup {tr}) \cup {c})
      BY Zenon, <2>1, CreateTableEffect DEF tr
    <2>3. CASE Kept(R \cup {tr}) /\ p = Makes(R \cup {tr})
      <3> DEFINE S == R \cup {tr}
      <3>1. R \subseteq S /\ S \subseteq R \cup Makeable(st)
        BY <1>8
      <3> HIDE DEF S
      <3>2. Kept(S) /\ p = Makes(S)
        BY <2>3 DEF S
      <3> QED
        BY <1>6, <3>1, <3>2 DEF p
    <2>4. ASSUME NEW c \in Constraints(st), Kept((R \cup {tr}) \cup {c}), p = Makes((R \cup {tr}) \cup {c})
          PROVE  /\ p.ok \in BOOLEAN /\ Kept(p.rels) /\ p.rels \subseteq R \cup Makeable(st)
                 /\ R \subseteq p.rels
      <3> DEFINE S == (R \cup {tr}) \cup {c}
      <3>1. R \subseteq S /\ S \subseteq R \cup Makeable(st)
        BY <1>8
      <3> HIDE DEF S
      <3>2. Kept(S) /\ p = Makes(S)
        BY <2>4 DEF S
      <3> QED
        BY <1>6, <3>1, <3>2
    <2> QED
      BY <1>7, <2>2, <2>3, <2>4 DEF p
  <1>2. CASE st.kind = "add_constraint"
    <2>1. p = PgAddConstraint(R, st)
      BY <1>2 DEF PgApply, p
    <2>2. \/ p = Refuses(R)
          \/ \E c \in Constraints(st) : Kept(R \cup {c}) /\ p = Makes(R \cup {c})
      BY Zenon, <1>2, <2>1, AddConstraintEffect
    <2>3. ASSUME NEW c \in Constraints(st), Kept(R \cup {c}), p = Makes(R \cup {c})
          PROVE  /\ p.ok \in BOOLEAN /\ Kept(p.rels) /\ p.rels \subseteq R \cup Makeable(st)
                 /\ R \subseteq p.rels
      <3> DEFINE S == R \cup {c}
      <3>1. R \subseteq S /\ S \subseteq R \cup Makeable(st)
        BY <1>8
      <3> HIDE DEF S
      <3>2. Kept(S) /\ p = Makes(S)
        BY <2>3 DEF S
      <3> QED
        BY <1>6, <3>1, <3>2
    <2> QED
      BY <1>7, <2>2, <2>3 DEF p
  <1>3. CASE st.kind = "create_index"
    <2>1. p = PgCreateIndex(R, st)
      BY <1>3 DEF PgApply, p
    <2>2. CASE TableRel(st.schema, st.table) \notin R \/ Taken(R, st.schema, st.name)
      <3>1. p = Refuses(R) \/ p = Makes(R)
        BY Zenon, <2>1, <2>2 DEF PgCreateIndex
      <3> QED
        BY <1>7, <3>1 DEF p
    <2>3. CASE TableRel(st.schema, st.table) \in R /\ ~Taken(R, st.schema, st.name)
      <3> DEFINE S == R \cup {IndexRel(st)}
      <3>1. p = Makes(S)
        BY Zenon, <2>1, <2>3 DEF PgCreateIndex, IndexRel
      <3>2. Kept(S) /\ R \subseteq S /\ S \subseteq R \cup Makeable(st)
        BY <1>8, <2>3, CreateIndexEffect
      <3> HIDE DEF S
      <3> QED
        BY <1>6, <3>1, <3>2 DEF p
    <2> QED
      BY <2>2, <2>3
  <1>4. CASE st.kind = "drop_index"
    <2>1. p = PgDropIndex(R, st)
      BY <1>4 DEF PgApply, p
    <2>2. \/ \E s : p = Makes(R \ Found(R, s, st.name))
          \/ p = Refuses(R)
      BY Zenon, <2>1, DropIndexEffect
    <2>3. CASE p = Refuses(R)
      BY <1>7, <2>3 DEF p
    <2>4. ASSUME NEW s, p = Makes(R \ Found(R, s, st.name))
          PROVE  /\ p.ok \in BOOLEAN /\ Kept(p.rels) /\ p.rels \subseteq R
                 /\ \A r \in R : r.kind # "index" => r \in p.rels
      <3> DEFINE found == Found(R, s, st.name)
      <3>1. found \in SUBSET R /\ \A r \in found : r.kind = "index"
        BY DEF Found
      <3> HIDE DEF found
      <3>2. Kept(R \ found)
        BY <3>1, DropKept
      <3>3. p.ok = TRUE /\ p.rels = R \ found
        BY <1>0, <2>4 DEF found
      <3> QED
        BY <3>1, <3>2, <3>3
    <2> QED
      BY <1>4, <2>2, <2>3, <2>4 DEF p
  <1> QED
    BY <1>1, <1>2, <1>3, <1>4 DEF Piece, p

-----------------------------------------------------------------------------
(* A text, statement by statement *)

\* The results on the way.
Way(g, text) ==
  /\ g[0] = Makes(rels)
  /\ \A k \in 1 .. Len(text) :
       g[k] = IF g[k - 1].ok THEN PgApply(g[k - 1].rels, text[k]) ELSE g[k - 1]
  /\ \A k \in 0 .. Len(text) : g[k].ok \in BOOLEAN /\ Kept(g[k].rels)

LEMMA RunTrace ==
  ASSUME Kept(rels), NEW text, text \in Seq(Range(text)),
         \A i \in DOMAIN text : Piece(text[i])
  PROVE  \E g : Way(g, text) /\ RunInOrder(text) = g[Len(text)]
  <1> DEFINE Elem  == Range(text)
             All   == rels \cup UNION {Makeable(st) : st \in Elem}
             Some  == {R \in SUBSET All : Kept(R)}
             State == [ok : BOOLEAN, rels : Some]
             Step(x, st) == IF x.ok THEN PgApply(x.rels, st) ELSE x
             F == [p \in State \X Elem |-> Step(p[1], p[2])]
             base == Makes(rels)
  <1>1. ASSUME NEW x \in State, NEW st \in Elem PROVE Step(x, st) \in State
    <2>1. CASE ~x.ok
      BY <2>1
    <2>2. CASE x.ok
      <3>1. Piece(st)
        BY DEF Range
      <3>2. x.rels \subseteq All /\ Kept(x.rels) /\ Makeable(st) \subseteq All
        OBVIOUS
      <3>3. /\ PgApply(x.rels, st).ok \in BOOLEAN
            /\ PgApply(x.rels, st).rels \in Some
        <4> HIDE DEF All
        <4> QED
          BY <3>1, <3>2, PieceEffect
      <3>4. PgApply(x.rels, st) = [ok |-> PgApply(x.rels, st).ok, rels |-> PgApply(x.rels, st).rels]
        <4>1. ASSUME NEW R
              PROVE  Makes(R) = [ok |-> Makes(R).ok, rels |-> Makes(R).rels]
          BY DEF Makes
        <4>2. ASSUME NEW R
              PROVE  Refuses(R) = [ok |-> Refuses(R).ok, rels |-> Refuses(R).rels]
          BY DEF Refuses
        <4>3. \E R : PgApply(x.rels, st) = Makes(R) \/ PgApply(x.rels, st) = Refuses(R)
          <5>1. \E R : PgCreateTable(x.rels, st) = Makes(R) \/ PgCreateTable(x.rels, st) = Refuses(R)
            BY <3>1, <3>2, ConstraintForms
          <5>2. st.kind = "add_constraint" =>
                  \E R : PgAddConstraint(x.rels, st) = Makes(R) \/ PgAddConstraint(x.rels, st) = Refuses(R)
            BY <3>1, <3>2, ConstraintForms
          <5>3. \E R : PgCreateIndex(x.rels, st) = Makes(R) \/ PgCreateIndex(x.rels, st) = Refuses(R)
            BY Zenon DEF PgCreateIndex
          <5>4. \E R : PgDropIndex(x.rels, st) = Makes(R) \/ PgDropIndex(x.rels, st) = Refuses(R)
            BY Zenon, DropIndexEffect
          <5>5. \/ PgApply(x.rels, st) = PgCreateTable(x.rels, st)
                \/ st.kind = "add_constraint" /\ PgApply(x.rels, st) = PgAddConstraint(x.rels, st)
                \/ PgApply(x.rels, st) = PgCreateIndex(x.rels, st)
                \/ PgApply(x.rels, st) = PgDropIndex(x.rels, st)
            BY <3>1 DEF PgApply, Piece
          <5> QED
            BY Zenon, <5>1, <5>2, <5>3, <5>4, <5>5
        <4> QED
          BY Zenon, <4>1, <4>2, <4>3
      <3> HIDE DEF Some
      <3> QED
        BY <2>2, <3>3, <3>4
    <2> QED
      BY <2>1, <2>2
  <1>2. F \in [State \X Elem -> State] /\ base \in State /\ text \in Seq(Elem)
    <2>1. base \in State
      <3>1. rels \in Some
        OBVIOUS
      <3> HIDE DEF Some
      <3> QED
        BY <3>1 DEF Makes
    <2> HIDE DEF State, Elem, Step
    <2>2. F \in [State \X Elem -> State]
      BY <1>1
    <2> QED
      BY <2>1, <2>2 DEF Elem
  <1> HIDE DEF State, Elem, F, base
  <1>3. PICK e \in [SUBSET DOMAIN text -> State] : Iterates(e, base, F, text)
    BY Zenon, <1>2, FoldExists
  <1>4. e = [s \in SUBSET DOMAIN text |->
               IF s = {} THEN base ELSE Step(e[s \ {Max(s)}], text[Max(s)])]
    <2>1. ASSUME NEW s \in SUBSET DOMAIN text, s # {}
          PROVE  e[s] = Step(e[s \ {Max(s)}], text[Max(s)])
      <3>1. e[s \ {Max(s)}] \in State /\ text[Max(s)] \in Elem
        BY <1>2, <2>1, PositionOfMax
      <3>2. e[s] = F[<<e[s \ {Max(s)}], text[Max(s)]>>]
        BY Zenon, <1>3, <2>1 DEF Iterates
      <3> HIDE DEF Step
      <3> QED
        BY <3>1, <3>2 DEF F
    <2>2. e[{}] = base
      BY Zenon, <1>3 DEF Iterates
    <2> HIDE DEF Step
    <2> QED
      BY <2>1, <2>2
  <1>5. PICK f : /\ f = [s \in SUBSET DOMAIN text |->
                          IF s = {} THEN base ELSE Step(f[s \ {Max(s)}], text[Max(s)])]
                 /\ RunInOrder(text) = f[DOMAIN text]
    BY Zenon, <1>4 DEF RunInOrder, FoldLeft, MapThenFoldSet, base
  <1> HIDE DEF Step
  <1>6. Unfolds(f, base, F, text, State)
    <2>1. ASSUME NEW s \in SUBSET DOMAIN text, s # {}, f[s \ {Max(s)}] \in State
          PROVE  f[s] = F[<<f[s \ {Max(s)}], text[Max(s)]>>]
      <3>1. text[Max(s)] \in Elem
        BY <1>2, <2>1, PositionOfMax
      <3>2. f[s] = Step(f[s \ {Max(s)}], text[Max(s)])
        BY Zenon, <1>5, <2>1
      <3> QED
        BY <2>1, <3>1, <3>2 DEF F
    <2>2. f[{}] = base
      BY Zenon, <1>5
    <2> QED
      BY Zenon, <2>1, <2>2 DEF Unfolds
  <1>7. PICK g \in [0 .. Len(text) -> State] : PrefixStates(g, base, F, text, f[DOMAIN text])
    BY Zenon, <1>2, <1>6, IterationRuns
  <1>8. \A k \in 1 .. Len(text) : g[k - 1] \in State /\ text[k] \in Elem
    BY <1>2
  <1>9. \A k \in 1 .. Len(text) : g[k] = Step(g[k - 1], text[k])
    BY <1>7, <1>8 DEF PrefixStates, F
  <1>10. \A k \in 0 .. Len(text) : g[k].ok \in BOOLEAN /\ Kept(g[k].rels)
    BY DEF State
  <1> USE DEF Step
  <1>11. Way(g, text)
    BY Zenon, <1>7, <1>9, <1>10 DEF Way, PrefixStates, base
  <1> QED
    BY Zenon, <1>5, <1>7, <1>11 DEF PrefixStates

-----------------------------------------------------------------------------
(* What a text does to one table *)

On(R, s, t)      == {r \in R : r.schema = s /\ r.on = t}
Others(R, s, t)  == {r \in R : r.schema # s \/ r.on # t}
Indexes(R, s, t) == {r.name : r \in {q \in On(R, s, t) : q.kind = "index"}}
Uniques(R, s, t) == {r \in On(R, s, t) : r.kind = "constraint"}

\* A text about a table, that drops only indexes of it.
About(text, s, t) ==
  /\ text \in Seq(Range(text))
  /\ \A i \in DOMAIN text :
       /\ Piece(text[i]) /\ text[i].schema = s /\ text[i].table = t
       /\ text[i].kind = "drop_index" => s = cur /\ text[i].name \in Indexes(rels, s, t)

\* A text whose CREATE TABLE or ADD UNIQUE comes first, that makes no index only
\* if it is new, and drops none twice.
InOrder(text) ==
  /\ \A i \in DOMAIN text : i > 1 => text[i].kind \in {"create_index", "drop_index"}
  /\ \A i \in DOMAIN text : text[i].kind = "create_index" => ~text[i].ifNotExists
  /\ \A i, j \in DOMAIN text : /\ text[i].kind = "drop_index" /\ text[j].kind = "drop_index"
                              /\ text[i].name = text[j].name
                              => i = j

LEMMA MakeableOn ==
  ASSUME NEW st, NEW r \in Makeable(st)
  PROVE  r.schema = st.schema /\ r.on = st.table
  BY DEF Makeable, TableRel, IndexRel, Constraints, Relation

\* An index of a table in the client's database is the one DROP INDEX finds.
LEMMA DropIsOn ==
  ASSUME NEW R, Kept(R), NEW t, NEW name \in Indexes(R, cur, t), NEW st, st.name = name,
         st.kind = "drop_index"
  PROVE  /\ PgApply(R, st) = Makes(R \ Found(R, cur, name))
         /\ Found(R, cur, name) # {}
         /\ \A r \in Found(R, cur, name) : r.on = t
  <1>1. PICK q \in On(R, cur, t) : q.kind = "index" /\ q.name = name
    BY DEF Indexes
  <1>2. q \in R /\ q.schema = cur /\ q.on = t
    BY DEF On
  <1>3. q \in Found(R, cur, name) /\ Taken(R, cur, name)
    BY <1>1, <1>2 DEF Found, Taken
  <1>4. \A r \in Found(R, cur, name) : r = q
    BY <1>1, <1>2 DEF Found, Kept, OneEach
  <1>5. PgApply(R, st) = PgDropIndex(R, st)
    BY DEF PgApply
  <1>6. Found(R, cur, name) # {}
    BY <1>3
  <1>7. PgApply(R, st) = Makes(R \ Found(R, cur, name))
    BY Zenon, <1>3, <1>5, <1>6, DropIndexEffect
  <1> QED
    BY <1>2, <1>4, <1>6, <1>7

\* What a text did not drop yet it finds, and it leaves other tables alone.
LEMMA OthersStay ==
  ASSUME Kept(rels), NEW s, NEW t, NEW text, About(text, s, t), InOrder(text), NEW g, Way(g, text)
  PROVE  /\ \A k \in 0 .. Len(text) : Others(g[k].rels, s, t) = Others(rels, s, t)
         /\ \A k \in 1 .. Len(text) : text[k].kind = "drop_index" =>
                                        text[k].name \in Indexes(g[k - 1].rels, s, t)
  <1> DEFINE Left(k) == {r \in On(rels, s, t) :
                           /\ r.kind = "index"
                           /\ \A i \in 1 .. k : text[i].kind = "drop_index" => text[i].name # r.name}
             S == {k \in 0 .. Len(text) : /\ Others(g[k].rels, s, t) = Others(rels, s, t)
                                          /\ Left(k) \subseteq g[k].rels}
  <1>1. Len(text) \in Nat /\ DOMAIN text = 1 .. Len(text)
    BY DEF About
  <1>2. 0 \in S
    BY <1>1 DEF Way, Makes, On
  <1>5. ASSUME NEW k \in 1 .. Len(text), k - 1 \in S, text[k].kind = "drop_index"
        PROVE  text[k].name \in Indexes(g[k - 1].rels, s, t)
    <2>1. k \in DOMAIN text /\ text[k].name \in Indexes(rels, s, t)
      BY <1>1, <1>5 DEF About
    <2>2. PICK r \in On(rels, s, t) : r.kind = "index" /\ r.name = text[k].name
      BY <2>1 DEF Indexes
    <2>3. ASSUME NEW i \in 1 .. (k - 1), text[i].kind = "drop_index", text[i].name = r.name PROVE FALSE
      <3>1. i \in DOMAIN text /\ i # k
        BY <1>1, <2>3
      <3> QED
        BY <1>5, <2>1, <2>2, <2>3, <3>1 DEF InOrder
    <2>4. r \in Left(k - 1)
      BY <2>2, <2>3
    <2>5. r \in g[k - 1].rels
      BY <1>5, <2>4
    <2> QED
      BY <2>2, <2>5 DEF Indexes, On
  <1>3. ASSUME NEW k \in 1 .. Len(text), k - 1 \in S PROVE k \in S
    <2> DEFINE R  == g[k - 1].rels
               st == text[k]
               new == PgApply(R, st)
    <2>1. /\ k - 1 \in 0 .. Len(text) /\ k \in 0 .. Len(text) /\ Kept(R)
          /\ Others(R, s, t) = Others(rels, s, t) /\ Left(k - 1) \subseteq R
          /\ g[k] = IF g[k - 1].ok THEN new ELSE g[k - 1]
      BY <1>1, <1>3 DEF Way
    <2>2. /\ Piece(st) /\ st.schema = s /\ st.table = t
          /\ st.kind = "drop_index" => s = cur /\ st.name \in Indexes(R, s, t)
      BY <1>1, <1>3, <1>5 DEF About
    <2>0. Left(k) \subseteq Left(k - 1) /\ (st.kind = "drop_index" => \A r \in Left(k) : r.name # st.name)
      BY <1>1
    <2> HIDE DEF R, st, Left
    <2>3. Others(new.rels, s, t) = Others(R, s, t) /\ Left(k) \subseteq new.rels
      <3>1. new.rels \subseteq R \cup Makeable(st)
        BY <2>1, <2>2, PieceEffect
      <3>2. Others(new.rels, s, t) \subseteq R
        BY <2>2, <3>1, MakeableOn DEF Others
      <3>3. CASE st.kind # "drop_index"
        <4>1. R \subseteq new.rels
          BY <2>1, <2>2, <3>3, PieceEffect
        <4> HIDE DEF new
        <4> QED
          BY <2>0, <2>1, <3>2, <4>1 DEF Others
      <3>4. CASE st.kind = "drop_index"
        <4> DEFINE found == Found(R, cur, st.name)
        <4>0. st.name \in Indexes(R, cur, t)
          BY <2>2, <3>4
        <4>1. new = Makes(R \ found) /\ \A r \in found : r.on = t
          BY <2>1, <3>4, <4>0, DropIsOn
        <4>2. \A r \in found : r.schema = s /\ r.name = st.name
          BY <2>2, <3>4 DEF Found
        <4> HIDE DEF found, new
        <4>3. new.rels = R \ found
          BY <4>1 DEF Makes
        <4>4. Left(k) \subseteq new.rels
          BY <2>0, <2>1, <3>4, <4>2, <4>3
        <4> QED
          BY <4>1, <4>2, <4>3, <4>4 DEF Others
      <3> QED
        BY <3>3, <3>4
    <2> HIDE DEF new
    <2>4. Others(g[k].rels, s, t) = Others(rels, s, t) /\ Left(k) \subseteq g[k].rels
      <3>1. CASE g[k - 1].ok
        BY <2>1, <2>3, <3>1
      <3>2. CASE ~g[k - 1].ok
        BY <2>0, <2>1, <3>2 DEF R
      <3> QED
        BY <3>1, <3>2
    <2> QED
      BY <2>1, <2>4
  <1> HIDE DEF S
  <1>4. 0 .. Len(text) \subseteq S
    BY Zenon, <1>1, <1>2, <1>3, BoundedInduction
  <1>6. \A k \in 1 .. Len(text) : k - 1 \in 0 .. Len(text)
    BY <1>1
  <1> QED
    BY <1>4, <1>5, <1>6 DEF S

\* What one statement does to the indexes and constraints of its table.
LEMMA IndexMade ==
  ASSUME NEW R, Kept(R), NEW st, st.kind = "create_index", ~st.ifNotExists, PgApply(R, st).ok
  PROVE  /\ st.name \notin Indexes(R, st.schema, st.table)
         /\ PgApply(R, st).rels = R \cup {IndexRel(st)}
         /\ Indexes(PgApply(R, st).rels, st.schema, st.table)
              = Indexes(R, st.schema, st.table) \cup {st.name}
         /\ Uniques(PgApply(R, st).rels, st.schema, st.table) = Uniques(R, st.schema, st.table)
  <1>1. PgApply(R, st) = PgCreateIndex(R, st)
    BY DEF PgApply
  <1>2. ~Taken(R, st.schema, st.name) /\ PgApply(R, st).rels = R \cup {IndexRel(st)}
    BY <1>1 DEF PgCreateIndex, Makes, Refuses, IndexRel
  <1>3. st.name \notin Indexes(R, st.schema, st.table)
    BY <1>2 DEF Taken, Indexes, On
  <1> DEFINE r == IndexRel(st)
  <1>4. r.schema = st.schema /\ r.on = st.table /\ r.kind = "index" /\ r.name = st.name
    BY DEF IndexRel, Relation
  <1> HIDE DEF r
  <1>5. /\ Indexes(R \cup {r}, st.schema, st.table) = Indexes(R, st.schema, st.table) \cup {st.name}
        /\ Uniques(R \cup {r}, st.schema, st.table) = Uniques(R, st.schema, st.table)
    <2>1. On(R \cup {r}, st.schema, st.table) = On(R, st.schema, st.table) \cup {r}
      BY <1>4 DEF On
    <2> QED
      BY <1>4, <2>1 DEF Indexes, Uniques
  <1> QED
    BY <1>2, <1>3, <1>5 DEF r

LEMMA IndexDropped ==
  ASSUME NEW R, Kept(R), NEW st, st.kind = "drop_index",
         st.schema = cur, st.name \in Indexes(R, st.schema, st.table)
  PROVE  /\ Indexes(PgApply(R, st).rels, st.schema, st.table)
              = Indexes(R, st.schema, st.table) \ {st.name}
         /\ Uniques(PgApply(R, st).rels, st.schema, st.table) = Uniques(R, st.schema, st.table)
  <1> DEFINE s == st.schema
             t == st.table
             found == Found(R, s, st.name)
  <1>1. PgApply(R, st) = Makes(R \ found)
    BY DropIsOn
  <1>2. PgApply(R, st).rels = R \ found
    <2> HIDE DEF found
    <2> QED
      BY <1>1 DEF Makes
  <1>3. Indexes(R \ found, s, t) = Indexes(R, s, t) \ {st.name}
    BY DEF Indexes, On, Found
  <1>4. Uniques(R \ found, s, t) = Uniques(R, s, t)
    BY DEF Uniques, On, Found
  <1> QED
    BY <1>2, <1>3, <1>4

\* What CREATE TABLE and ADD UNIQUE make has a name of its own.
LEMMA TableMade ==
  ASSUME NEW R, Kept(R), NEW st, Piece(st), st.kind \in {"create_table", "add_constraint"},
         PgApply(R, st).ok
  PROVE  LET tr == TableRel(st.schema, st.table)
         IN  \/ PgApply(R, st).rels = R /\ st.kind = "create_table"
             \/ /\ PgApply(R, st).rels = R \cup {tr} /\ tr \notin R
                /\ st.kind = "create_table" /\ st.constraint = "none"
             \/ /\ st.constraint \in {"free", "named"}
                /\ \E c \in Constraints(st) :
                     /\ c \notin R
                     /\ \/ PgApply(R, st).rels = R \cup {c} /\ st.kind = "add_constraint"
                        \/ /\ PgApply(R, st).rels = (R \cup {tr}) \cup {c} /\ tr \notin R
                           /\ st.kind = "create_table"
  <1> DEFINE tr == TableRel(st.schema, st.table)
             p  == PgApply(R, st)
  <1>1. Refuses(R).ok = FALSE /\ \A S : Makes(S).rels = S
    BY DEF Refuses, Makes
  <1> HIDE DEF tr
  <1>2. CASE st.kind = "add_constraint"
    <2>1. p = PgAddConstraint(R, st)
      BY <1>2 DEF PgApply
    <2> HIDE DEF p
    <2>2. PICK c \in Constraints(st) : c \notin R /\ p = Makes(R \cup {c})
                                       /\ st.constraint \in {"free", "named"}
      BY Zenon, <1>1, <1>2, <2>1, AddConstraintEffect DEF p
    <2> QED
      BY Zenon, <1>1, <1>2, <2>2 DEF p
  <1>3. CASE st.kind = "create_table"
    <2>1. p = PgCreateTable(R, st)
      BY <1>3 DEF PgApply
    <2> HIDE DEF p
    <2>2. \/ p = Makes(R)
          \/ st.constraint = "none" /\ tr \notin R /\ p = Makes(R \cup {tr})
          \/ /\ st.constraint \in {"free", "named"} /\ tr \notin R
             /\ \E c \in Constraints(st) : c \notin R /\ p = Makes((R \cup {tr}) \cup {c})
      <3> DEFINE q == PgCreateTable(R, st)
      <3>1. \/ q = Makes(R) \/ q = Refuses(R)
            \/ st.constraint = "none" /\ tr \notin R /\ q = Makes(R \cup {tr})
            \/ /\ st.constraint \in {"free", "named"} /\ tr \notin R
               /\ \E c \in Constraints(st) : c \notin R /\ q = Makes((R \cup {tr}) \cup {c})
        BY CreateTableEffect DEF tr
      <3> HIDE DEF q
      <3>2. q = p /\ p.ok
        BY <2>1 DEF p, q
      <3> QED
        BY Zenon, <1>1, <3>1, <3>2
    <2> QED
      BY Zenon, <1>1, <1>3, <2>2 DEF p, tr
  <1> QED
    BY <1>2, <1>3

Lead(text) == IF Len(text) > 0 /\ text[1].kind \in {"create_table", "add_constraint"} THEN 1 ELSE 0

Named(text, k, kind) == {text[i].name : i \in {j \in 1 .. k : text[j].kind = kind}}

\* The indexes after a text that is served: those that were not dropped and those
\* that were made, none of them twice; the constraints are those of the first
\* statement.
IndexesAfter(g, text, s, t, k) ==
  LET made    == Named(text, k, "create_index")
      dropped == Named(text, k, "drop_index")
      old     == Indexes(rels, s, t)
  IN  /\ Indexes(g[k].rels, s, t) = (old \ dropped) \cup made
      /\ made \cap old \subseteq dropped
      /\ \A i, j \in 1 .. k : /\ text[i].kind = "create_index" /\ text[j].kind = "create_index"
                            /\ text[i].name = text[j].name
                            => i = j
      /\ k >= Lead(text) => Uniques(g[k].rels, s, t) = Uniques(g[Lead(text)].rels, s, t)

LEMMA TableKeepsIndexes ==
  ASSUME NEW R, Kept(R), NEW st, Piece(st), st.kind \in {"create_table", "add_constraint"},
         PgApply(R, st).ok
  PROVE  Indexes(PgApply(R, st).rels, st.schema, st.table) = Indexes(R, st.schema, st.table)
  <1> DEFINE new == PgApply(R, st).rels
             tr  == TableRel(st.schema, st.table)
  <1>1. /\ R \subseteq new
        /\ \/ new \subseteq R \cup {tr}
           \/ \E c \in Constraints(st) : new \subseteq (R \cup {tr}) \cup {c}
    <2> DEFINE p == PgApply(R, st).rels
    <2>1. \/ p = R
          \/ p = R \cup {tr}
          \/ \E c \in Constraints(st) : p = R \cup {c} \/ p = (R \cup {tr}) \cup {c}
      BY TableMade
    <2> HIDE DEF p, tr
    <2>2. p = new
      BY DEF p
    <2> HIDE DEF new
    <2> QED
      BY <2>1, <2>2
  <1>2. \A c \in Constraints(st) : c.kind = "constraint"
    BY DEF Constraints, Relation
  <1>3. tr.kind = "table"
    BY DEF TableRel, Relation
  <1> HIDE DEF tr, new
  <1>4. {q \in On(new, st.schema, st.table) : q.kind = "index"}
          = {q \in On(R, st.schema, st.table) : q.kind = "index"}
    BY <1>1, <1>2, <1>3 DEF On
  <1> QED
    BY Zenon, <1>4 DEF Indexes, new

LEMMA IndexesStep ==
  ASSUME Kept(rels), NEW s, NEW t, NEW text, About(text, s, t), InOrder(text),
         NEW g, Way(g, text), NEW k \in 1 .. Len(text), g[k].ok,
         g[k - 1].ok => IndexesAfter(g, text, s, t, k - 1)
  PROVE  g[k - 1].ok /\ IndexesAfter(g, text, s, t, k)
  <1> DEFINE R  == g[k - 1].rels
             st == text[k]
             Made(i) == Named(text, i, "create_index")
             Dropped(i) == Named(text, i, "drop_index")
             old == Indexes(rels, s, t)
  <1>1. /\ k - 1 \in 0 .. Len(text) /\ k \in DOMAIN text /\ k \in Nat
        /\ 1 .. k = (1 .. (k - 1)) \cup {k} /\ 1 .. k \subseteq DOMAIN text
    BY DEF About
  <1>2. g[k - 1].ok /\ g[k] = PgApply(R, st) /\ Kept(R)
    BY <1>1 DEF Way
  <1>3. IndexesAfter(g, text, s, t, k - 1)
    BY <1>2
  <1>4. /\ Indexes(R, s, t) = (old \ Dropped(k - 1)) \cup Made(k - 1)
        /\ Made(k - 1) \cap old \subseteq Dropped(k - 1)
        /\ \A i, j \in 1 .. (k - 1) : /\ text[i].kind = "create_index" /\ text[j].kind = "create_index"
                                    /\ text[i].name = text[j].name
                                    => i = j
        /\ k - 1 >= Lead(text) => Uniques(R, s, t) = Uniques(g[Lead(text)].rels, s, t)
    BY Zenon, <1>3 DEF IndexesAfter
  <1>5. /\ Piece(st) /\ st.schema = s /\ st.table = t
        /\ st.kind = "drop_index" => s = cur /\ st.name \in old
    BY <1>1 DEF About
  <1>6. /\ k > 1 => st.kind \in {"create_index", "drop_index"}
        /\ st.kind = "create_index" => ~st.ifNotExists
    BY <1>1 DEF InOrder
  <1>7. \A kind : Named(text, k, kind) = IF st.kind = kind THEN Named(text, k - 1, kind) \cup {st.name}
                                        ELSE Named(text, k - 1, kind)
    BY <1>1 DEF Named
  <1>8. k >= Lead(text) => Uniques(g[k].rels, s, t) = Uniques(g[Lead(text)].rels, s, t)
    <2> SUFFICES ASSUME k >= Lead(text), k # Lead(text)
                 PROVE  Uniques(g[k].rels, s, t) = Uniques(g[Lead(text)].rels, s, t)
      OBVIOUS
    <2>0. Lead(text) \in {0, 1} /\ st.kind \in {"create_index", "drop_index"} /\ k - 1 >= Lead(text)
      BY <1>1, <1>5, <1>6 DEF Lead, Piece
    <2>1. Uniques(g[k].rels, s, t) = Uniques(R, s, t)
      <3>1. CASE st.kind = "create_index"
        BY <1>2, <1>5, <1>6, <3>1, IndexMade
      <3>2. CASE st.kind = "drop_index"
        <4>1. st.name \in Indexes(R, s, t)
          BY <3>2, OthersStay
        <4> QED
          BY <1>2, <1>5, <3>2, <4>1, IndexDropped
      <3> QED
        BY <2>0, <3>1, <3>2
    <2> QED
      BY <1>4, <2>0, <2>1
  <1> HIDE DEF R, st, old, Made, Dropped
  <1>9. CASE st.kind \in {"create_table", "add_constraint"}
    <2>1. Indexes(g[k].rels, s, t) = Indexes(R, s, t)
      BY <1>2, <1>5, <1>9, TableKeepsIndexes
    <2>2. Made(k) = Made(k - 1) /\ Dropped(k) = Dropped(k - 1)
      BY <1>7, <1>9 DEF Made, Dropped
    <2>3. \A i, j \in 1 .. k : /\ text[i].kind = "create_index" /\ text[j].kind = "create_index"
                             /\ text[i].name = text[j].name
                             => i = j
      BY <1>1, <1>4, <1>9 DEF st
    <2> QED
      BY Zenon, <1>2, <1>4, <1>8, <2>1, <2>2, <2>3 DEF IndexesAfter, Made, Dropped, old
  <1>10. CASE st.kind = "create_index"
    <2>1. Indexes(g[k].rels, s, t) = Indexes(R, s, t) \cup {st.name} /\ st.name \notin Indexes(R, s, t)
      BY <1>2, <1>5, <1>6, <1>10, IndexMade
    <2>2. Made(k) = Made(k - 1) \cup {st.name} /\ Dropped(k) = Dropped(k - 1)
      BY <1>7, <1>10 DEF Made, Dropped
    <2>3. \A i \in 1 .. (k - 1) : text[i].kind = "create_index" => text[i].name # st.name
      <3>1. \A i \in 1 .. (k - 1) : text[i].kind = "create_index" => text[i].name \in Made(k - 1)
        BY DEF Made, Named
      <3> QED
        BY <1>4, <2>1, <3>1
    <2>4. \A i, j \in 1 .. k : /\ text[i].kind = "create_index" /\ text[j].kind = "create_index"
                             /\ text[i].name = text[j].name
                             => i = j
      BY <1>1, <1>4, <2>3 DEF st
    <2>5. /\ Indexes(g[k].rels, s, t) = (old \ Dropped(k)) \cup Made(k)
          /\ Made(k) \cap old \subseteq Dropped(k)
      BY <1>4, <2>1, <2>2
    <2> QED
      BY Zenon, <1>2, <1>8, <2>4, <2>5 DEF IndexesAfter, Made, Dropped, old
  <1>11. CASE st.kind = "drop_index"
    <2>1. st.name \in Indexes(R, s, t)
      BY <1>11, OthersStay DEF R, st
    <2>2. Indexes(g[k].rels, s, t) = Indexes(R, s, t) \ {st.name}
      BY <1>2, <1>5, <1>11, <2>1, IndexDropped
    <2>3. Made(k) = Made(k - 1) /\ Dropped(k) = Dropped(k - 1) \cup {st.name}
      BY <1>7, <1>11 DEF Made, Dropped
    <2>4. st.name \notin Dropped(k - 1)
      <3>1. \A i \in 1 .. (k - 1) : text[i].kind = "drop_index" => text[i].name # st.name
        BY <1>1, <1>11 DEF InOrder, st
      <3> QED
        BY <3>1 DEF Dropped, Named
    <2>5. st.name \notin Made(k - 1)
      BY <1>4, <1>5, <1>11, <2>4
    <2>6. \A i, j \in 1 .. k : /\ text[i].kind = "create_index" /\ text[j].kind = "create_index"
                             /\ text[i].name = text[j].name
                             => i = j
      BY <1>1, <1>4, <1>11 DEF st
    <2>7. /\ Indexes(g[k].rels, s, t) = (old \ Dropped(k)) \cup Made(k)
          /\ Made(k) \cap old \subseteq Dropped(k)
      BY <1>4, <2>2, <2>3, <2>5
    <2> QED
      BY Zenon, <1>2, <1>8, <2>6, <2>7 DEF IndexesAfter, Made, Dropped, old
  <1> QED
    BY <1>5, <1>9, <1>10, <1>11 DEF Piece

LEMMA TextServed ==
  ASSUME Kept(rels), NEW s, NEW t, NEW text, About(text, s, t), InOrder(text),
         NEW g, Way(g, text), g[Len(text)].ok
  PROVE  \A k \in 0 .. Len(text) : g[k].ok /\ IndexesAfter(g, text, s, t, k)
  <1> DEFINE n == Len(text)
             S == {k \in 0 .. n : g[k].ok => IndexesAfter(g, text, s, t, k)}
             U == {k \in 0 .. n : g[n - k].ok}
  <1>1. n \in Nat
    BY DEF About
  <1>2. 0 \in S
    <2>1. Named(text, 0, "create_index") = {} /\ Named(text, 0, "drop_index") = {}
      BY DEF Named
    <2>2. g[0].rels = rels
      BY DEF Way, Makes
    <2>3. 0 >= Lead(text) => Lead(text) = 0
      BY DEF Lead
    <2> QED
      BY <1>1, <2>1, <2>2, <2>3 DEF IndexesAfter
  <1>3. ASSUME NEW k \in 1 .. n, k - 1 \in S PROVE k \in S
    <2>1. k - 1 \in 0 .. n /\ k \in 0 .. n
      BY <1>1
    <2>2. g[k - 1].ok => IndexesAfter(g, text, s, t, k - 1)
      BY <1>3
    <2>3. g[k].ok => IndexesAfter(g, text, s, t, k)
      BY <2>2, IndexesStep
    <2> QED
      BY <2>1, <2>3
  <1>4. 0 .. n \subseteq S
    <2> HIDE DEF S, n
    <2> QED
      BY Zenon, <1>1, <1>2, <1>3, BoundedInduction
  <1>5. 0 \in U
    BY <1>1
  <1>6. ASSUME NEW k \in 1 .. n, k - 1 \in U PROVE k \in U
    <2>1. n - (k - 1) \in 1 .. n /\ (n - (k - 1)) - 1 = n - k /\ g[n - (k - 1)].ok
      BY <1>1, <1>6
    <2>2. n - k \in 0 .. n /\ k \in 0 .. n
      BY <1>1
    <2>3. g[n - k].ok
      <3> DEFINE m == n - (k - 1)
      <3>1. m \in 1 .. Len(text) /\ g[m].ok /\ m - 1 = n - k
        BY <2>1
      <3> HIDE DEF m, n
      <3>2. g[m - 1].ok
        BY <3>1 DEF Way
      <3> QED
        BY <3>1, <3>2
    <2> QED
      BY <2>2, <2>3
  <1>7. 0 .. n \subseteq U
    <2> HIDE DEF U, n
    <2> QED
      BY Zenon, <1>1, <1>5, <1>6, BoundedInduction
  <1>8. ASSUME NEW k \in 0 .. n PROVE g[k].ok
    <2>1. n - k \in 0 .. n /\ n - (n - k) = k
      BY <1>1
    <2>2. n - k \in U
      BY <1>7, <2>1
    <2> QED
      BY <2>1, <2>2
  <1> QED
    BY <1>4, <1>8

\* What is no index stays.
LEMMA TablesStay ==
  ASSUME NEW text, text \in Seq(Range(text)), \A i \in DOMAIN text : Piece(text[i]),
         NEW g, Way(g, text), NEW r \in rels, r.kind # "index"
  PROVE  \A k \in 0 .. Len(text) : r \in g[k].rels
  <1> DEFINE S == {k \in 0 .. Len(text) : r \in g[k].rels}
  <1>1. Len(text) \in Nat /\ DOMAIN text = 1 .. Len(text)
    OBVIOUS
  <1>2. 0 \in S
    BY <1>1 DEF Way, Makes
  <1>3. ASSUME NEW k \in 1 .. Len(text), k - 1 \in S PROVE k \in S
    <2>1. /\ k - 1 \in 0 .. Len(text) /\ r \in g[k - 1].rels /\ Kept(g[k - 1].rels) /\ Piece(text[k])
          /\ g[k] = IF g[k - 1].ok THEN PgApply(g[k - 1].rels, text[k]) ELSE g[k - 1]
      BY <1>1, <1>3 DEF Way
    <2>2. r \in PgApply(g[k - 1].rels, text[k]).rels
      BY <2>1, PieceEffect
    <2> QED
      BY <2>1, <2>2
  <1> HIDE DEF S
  <1>4. 0 .. Len(text) \subseteq S
    BY Zenon, <1>1, <1>2, <1>3, BoundedInduction
  <1> QED
    BY <1>4 DEF S

-----------------------------------------------------------------------------
(* The invariant of the indexes *)

Of(K, s, t) == {k \in K : k.schema = s /\ k.table = t}
Pairs(R, s, t) == {<<r.kind, r.name>> : r \in {q \in R : q.schema = s /\ q.on = t /\ q.kind # "table"}}

\* A table, its indexes and the keys a client knows of, one for each.
Agree(R, K, s, t) ==
  /\ TableRel(s, t) \in R
  /\ {<<k.kind, k.index>> : k \in Of(K, s, t)} = Pairs(R, s, t)
  /\ \A k, l \in Of(K, s, t) : k.index = l.index => k = l

KeyShaped(k) == k = [schema |-> k.schema, table |-> k.table, name |-> k.name, kind |-> k.kind,
                     index |-> k.index]

KeysApart(K) == \A k, l \in K : k.schema = l.schema /\ k.table = l.table /\ k.name = l.name => k = l

\* The inductive invariant: what a client knows of its keys is one to one with
\* the indexes, so that no statement finds two of a name.
IndexInv ==
  /\ tables \subseteq [schema : Schema, table : TableName]
  /\ loose \subseteq [schema : Schema, table : TableName]
  /\ Kept(rels)
  /\ \A k \in keys : KeyShaped(k) /\ Table(k.schema, k.table) \in tables
  /\ KeysApart(keys)
  /\ Careful => \A x \in tables \ loose : Agree(rels, keys, x.schema, x.table)

\* A text leaves PostgreSQL as it was, or what its statements left.
LEMMA RunTextIs ==
  ASSUME Kept(rels), NEW text, text \in Seq(Range(text)), NEW prepared,
         \A i \in DOMAIN text : Piece(text[i])
  PROVE  \E g : /\ Way(g, text)
               /\ \/ RunText(text, prepared) = g[Len(text)]
                  \/ RunText(text, prepared) = Refuses(rels)
               /\ RunText(text, prepared).ok \in BOOLEAN
               /\ Kept(RunText(text, prepared).rels)
  <1>1. PICK g : Way(g, text) /\ RunInOrder(text) = g[Len(text)]
    BY RunTrace
  <1>2. RunText(text, prepared) = g[Len(text)] \/ RunText(text, prepared) = Refuses(rels)
    BY Zenon, <1>1 DEF RunText
  <1>3. Len(text) \in Nat /\ g[Len(text)].ok \in BOOLEAN /\ Kept(g[Len(text)].rels)
    BY <1>1 DEF Way
  <1>4. Refuses(rels).ok \in BOOLEAN /\ Refuses(rels).rels = rels
    BY DEF Refuses
  <1>5. RunText(text, prepared).ok \in BOOLEAN /\ Kept(RunText(text, prepared).rels)
    BY Zenon, <1>2, <1>3, <1>4
  <1> QED
    BY Zenon, <1>1, <1>2, <1>5

\* The fields of what the translation makes.
LEMMA PiecesAre ==
  ASSUME NEW s, NEW t, NEW key, NEW name
  PROVE  /\ LET st == CreateIndex(s, t, key)
            IN  /\ st.kind = "create_index" /\ st.schema = s /\ st.table = t /\ ~st.ifNotExists
                /\ st.name = IndexOf(t, key) /\ st.constraint = "none"
         /\ LET st == DropIndexText(s, t, name)
            IN  /\ st.kind = "drop_index" /\ st.schema = s /\ st.table = t
                /\ st.name = PrefixedIndexName(t, name, <<"idx">>) /\ st.constraint = "none"
  <1>1. \A n : LET st == [PgStatement("create_index", s, t) EXCEPT !.name = n]
              IN  /\ st.kind = "create_index" /\ st.schema = s /\ st.table = t /\ ~st.ifNotExists
                  /\ st.name = n /\ st.constraint = "none"
    BY DEF PgStatement
  <1>2. \A n : LET st == [PgStatement("drop_index", s, t) EXCEPT !.name = n]
              IN  /\ st.kind = "drop_index" /\ st.schema = s /\ st.table = t /\ st.name = n
                  /\ st.constraint = "none"
    BY DEF PgStatement
  <1> QED
    BY Zenon, <1>1, <1>2 DEF CreateIndex, DropIndexText

\* A sequence of names after another.
LEMMA NamesJoin ==
  ASSUME NEW a, a \in Seq(Range(a)), NEW b, b \in Seq(Range(b))
  PROVE  a \o b \in Seq(Range(a \o b))
  <1> DEFINE E == Range(a) \cup Range(b)
  <1>1. a \in Seq(E) /\ b \in Seq(E)
    OBVIOUS
  <1> HIDE DEF E
  <1> DEFINE c == a \o b
  <1>2. c \in Seq(E)
    BY <1>1
  <1> HIDE DEF c
  <1>3. c \in Seq(Range(c))
    BY <1>2 DEF Range
  <1> QED
    BY <1>3 DEF c

LEMMA ShortNames == \A x, y : /\ <<x>> \in Seq(Range(<<x>>))
                             /\ <<x, y>> \in Seq(Range(<<x, y>>))
  BY DEF Range

\* The statement that takes the constraint of a key.
LEMMA ConstraintPiece ==
  ASSUME NEW kind \in {"create_table", "add_constraint"}, NEW s, NEW t \in TableName,
         NEW ifNotExists, NEW key
  PROVE  LET first == [PgStatement(kind, s, t) EXCEPT !.ifNotExists = ifNotExists]
             st    == WithConstraint(first, key)
         IN  /\ Piece(st) /\ st.kind = kind /\ st.schema = s /\ st.table = t
             /\ st.constraint # "none"
  <1> DEFINE first == [PgStatement(kind, s, t) EXCEPT !.ifNotExists = ifNotExists]
             St(c, n) == [kind |-> kind, schema |-> s, table |-> t, name |-> n,
                          ifNotExists |-> ifNotExists, constraint |-> c]
             primary == t \o <<"_", "pkey">>
             unique  == t \o <<"_">> \o ColumnName \o <<"_", "key">>
             st == WithConstraint(first, key)
  <1>1. first = St("none", <<>>) /\ first.table = t
    BY DEF PgStatement
  <1>2. primary \in Seq(Range(primary)) /\ unique \in Seq(Range(unique))
    <2> DEFINE p == <<"_", "pkey">>
               k == <<"_", "key">>
               u == <<"_">>
    <2>1. t \in Seq(Range(t)) /\ ColumnName \in Seq(Range(ColumnName))
      BY IndexAssumption
    <2>2. p \in Seq(Range(p)) /\ k \in Seq(Range(k)) /\ u \in Seq(Range(u))
      BY ShortNames
    <2> HIDE DEF p, k, u
    <2>3. t \o p \in Seq(Range(t \o p))
      BY <2>1, <2>2, NamesJoin
    <2>4. t \o u \in Seq(Range(t \o u))
      BY <2>1, <2>2, NamesJoin
    <2>5. t \o u \o ColumnName \in Seq(Range(t \o u \o ColumnName))
      BY <2>1, <2>4, NamesJoin
    <2>6. t \o u \o ColumnName \o k \in Seq(Range(t \o u \o ColumnName \o k))
      BY <2>2, <2>5, NamesJoin
    <2> QED
      BY <2>3, <2>6 DEF p, k, u
  <1>3. \/ st = [first EXCEPT !.constraint = "refused"]
        \/ st = [first EXCEPT !.constraint = "named", !.name = key.name]
        \/ st = [first EXCEPT !.constraint = "free", !.name = IF key.primary THEN primary ELSE unique]
    BY Zenon, <1>1 DEF WithConstraint
  <1> HIDE DEF primary, unique, st
  <1>4. \/ st = St("refused", <<>>) \/ st = St("named", key.name)
        \/ st = St("free", primary) \/ st = St("free", unique)
    <2> HIDE DEF first
    <2>1. [first EXCEPT !.constraint = "refused"] = St("refused", <<>>)
      BY <1>1
    <2>0. ASSUME NEW c, NEW n PROVE [St("none", <<>>) EXCEPT !.constraint = c, !.name = n] = St(c, n)
      <3>1. [St("none", <<>>) EXCEPT !.constraint = c] = St(c, <<>>)
        OBVIOUS
      <3>2. [St(c, <<>>) EXCEPT !.name = n] = St(c, n)
        OBVIOUS
      <3> HIDE DEF St
      <3>3. [[St("none", <<>>) EXCEPT !.constraint = c] EXCEPT !.name = n] = St(c, n)
        BY Zenon, <3>1, <3>2
      <3> QED
        BY <3>3
    <2> HIDE DEF St
    <2>2. [first EXCEPT !.constraint = "named", !.name = key.name] = St("named", key.name)
      BY Zenon, <1>1, <2>0
    <2>3. \A n : [first EXCEPT !.constraint = "free", !.name = n] = St("free", n)
      BY Zenon, <1>1, <2>0
    <2> QED
      BY Zenon, <1>3, <2>1, <2>2, <2>3
  <1>5. ASSUME NEW c \in {"free", "named", "refused"}, NEW n, c = "free" => n \in Seq(Range(n))
        PROVE  /\ Piece(St(c, n)) /\ St(c, n).kind = kind /\ St(c, n).schema = s
               /\ St(c, n).table = t /\ St(c, n).constraint # "none"
    BY <1>5 DEF Piece
  <1> HIDE DEF St
  <1> QED
    BY Zenon, <1>2, <1>4, <1>5 DEF st

\* One statement before others.
LEMMA Prefixed ==
  ASSUME NEW first, NEW rest, rest \in Seq(Range(rest))
  PROVE  /\ <<first>> \o rest \in Seq(Range(<<first>> \o rest))
         /\ Len(<<first>> \o rest) = Len(rest) + 1
         /\ (<<first>> \o rest)[1] = first
         /\ \A i \in 1 .. Len(rest) : (<<first>> \o rest)[i + 1] = rest[i]
  <1> DEFINE E == Range(rest) \cup {first}
             text == <<first>> \o rest
  <1>1. rest \in Seq(E)
    OBVIOUS
  <1>2. <<first>> \in Seq(E)
    OBVIOUS
  <1> HIDE DEF E
  <1>3. text \in Seq(E) /\ Len(text) = Len(rest) + 1 /\ text[1] = first
        /\ \A i \in 1 .. Len(rest) : text[i + 1] = rest[i]
    BY <1>1, <1>2
  <1> HIDE DEF text
  <1>4. text \in Seq(Range(text))
    BY <1>3 DEF Range
  <1> QED
    BY <1>3, <1>4 DEF text

Posts(list) == Those(list, {key \in Range(list) : IsPost(key)})

\* The statements of a CREATE TABLE: itself, with the constraint, then one for each
\* other key.
CreatePieces(text, s, t, list, posts) ==
  /\ text \in Seq(Range(text)) /\ Len(posts) \in Nat /\ Len(text) = Len(posts) + 1
  /\ DOMAIN text = 1 .. (Len(posts) + 1) /\ DOMAIN posts = 1 .. Len(posts)
  /\ text[1].kind = "create_table" /\ text[1].schema = s /\ text[1].table = t
  /\ Piece(text[1])
  /\ (\E i \in DOMAIN list : ~IsPost(list[i])) <=> text[1].constraint # "none"
  /\ \A i \in 1 .. Len(posts) : text[i + 1] = CreateIndex(s, t, posts[i])
  /\ Range(posts) = {key \in Range(list) : IsPost(key)}

LEMMA CreateTextIs ==
  ASSUME NEW s, NEW t \in TableName, NEW list \in KeyLists, NEW ifNotExists
  PROVE  CreatePieces(CreateText(s, t, list, ifNotExists), s, t, list, Posts(list))
  <1> DEFINE posts == Posts(list)
             text  == CreateText(s, t, list, ifNotExists)
             table == [PgStatement("create_table", s, t) EXCEPT !.ifNotExists = ifNotExists]
             inline == {i \in DOMAIN list : ~IsPost(list[i])}
             first == IF inline = {} THEN table ELSE WithConstraint(table, list[Min(inline)])
             rest  == [i \in DOMAIN posts |-> CreateIndex(s, t, posts[i])]
             all   == <<first>> \o rest
  <1>1. list \in Seq(Range(list))
    BY IndexAssumption
  <1>2. posts \in Seq(Range(list)) /\ Range(posts) = {key \in Range(list) : IsPost(key)}
    <2>1. /\ posts \in Seq(Range(list))
          /\ Range(posts) = Range(list) \cap {key \in Range(list) : IsPost(key)}
      BY Zenon, <1>1, ThoseAre DEF Posts
    <2> QED
      BY <2>1
  <1>3. Len(posts) \in Nat /\ DOMAIN posts = 1 .. Len(posts)
    BY <1>2
  <1>4. text = all
    BY Zenon DEF CreateText, Posts
  <1>5. /\ first.kind = "create_table" /\ first.schema = s /\ first.table = t
        /\ Piece(first)
        /\ (\E i \in DOMAIN list : ~IsPost(list[i])) <=> first.constraint # "none"
    <2>1. CASE inline = {}
      <3>1. first = table
        BY <2>1
      <3>2. /\ table.kind = "create_table" /\ table.schema = s /\ table.table = t
            /\ table.constraint = "none"
        BY DEF PgStatement
      <3> HIDE DEF first, table
      <3> QED
        BY <2>1, <3>1, <3>2 DEF Piece
    <2>2. CASE inline # {}
      <3>1. first = WithConstraint(table, list[Min(inline)])
        BY <2>2
      <3>2. /\ Piece(first) /\ first.kind = "create_table" /\ first.schema = s /\ first.table = t
            /\ first.constraint # "none"
        <4> HIDE DEF first
        <4> QED
          BY <3>1, ConstraintPiece
      <3> HIDE DEF first
      <3> QED
        BY <2>2, <3>2
    <2> QED
      BY <2>1, <2>2
  <1> HIDE DEF first, posts, text
  <1>6. rest \in Seq(Range(rest)) /\ Len(rest) = Len(posts)
    BY <1>3 DEF Range
  <1>7. \A i \in 1 .. Len(posts) : rest[i] = CreateIndex(s, t, posts[i])
    BY <1>3
  <1> HIDE DEF rest
  <1> HIDE DEF all
  <1>8. /\ text \in Seq(Range(text)) /\ Len(text) = Len(posts) + 1
        /\ text[1] = first /\ \A i \in 1 .. Len(posts) : text[i + 1] = rest[i]
    <2>1. /\ text \in Seq(Range(text)) /\ Len(text) = Len(rest) + 1
          /\ text[1] = first /\ \A i \in 1 .. Len(rest) : text[i + 1] = rest[i]
      BY <1>4, <1>6, Prefixed DEF all
    <2> QED
      BY <1>6, <2>1
  <1> QED
    <2>1. DOMAIN text = 1 .. (Len(posts) + 1)
      BY <1>3, <1>8
    <2>2. \A i \in 1 .. Len(posts) : text[i + 1] = CreateIndex(s, t, posts[i])
      BY <1>7, <1>8
    <2> QED
      BY <1>2, <1>3, <1>5, <1>8, <2>1, <2>2 DEF CreatePieces, text, posts

UniqueOps(ops) == {o \in Range(ops) : o.op = "add" /\ o.key.unique}
Inline(ops)    == Those(ops, UniqueOps(ops))
Later(ops)     == Those(ops, Range(ops) \ UniqueOps(ops))
Ahead(ops)     == IF Inline(ops) = <<>> THEN 0 ELSE 1

LEMMA OpsAre ==
  ASSUME NEW ops \in Changes
  PROVE  /\ Inline(ops) \in Seq(Range(ops)) /\ Range(Inline(ops)) = UniqueOps(ops)
         /\ Later(ops) \in Seq(Range(ops)) /\ Range(Later(ops)) = Range(ops) \ UniqueOps(ops)
         /\ IsInjective(ops) => IsInjective(Later(ops))
         /\ Len(Later(ops)) \in Nat /\ DOMAIN Later(ops) = 1 .. Len(Later(ops))
         /\ Ahead(ops) \in {0, 1} /\ (Ahead(ops) = 0 <=> UniqueOps(ops) = {})
         /\ Len(Inline(ops)) = 1 => \A o, p \in UniqueOps(ops) : o = p
  <1>1. ops \in Seq(Range(ops))
    BY IndexAssumption
  <1>2. /\ Inline(ops) \in Seq(Range(ops)) /\ Range(Inline(ops)) = Range(ops) \cap UniqueOps(ops)
        /\ Later(ops) \in Seq(Range(ops))
        /\ Range(Later(ops)) = Range(ops) \cap (Range(ops) \ UniqueOps(ops))
        /\ IsInjective(ops) => IsInjective(Later(ops))
    BY Zenon, <1>1, ThoseAre DEF Inline, Later
  <1>3. Range(Inline(ops)) = UniqueOps(ops) /\ Range(Later(ops)) = Range(ops) \ UniqueOps(ops)
    BY <1>2 DEF UniqueOps
  <1>4. Inline(ops) = <<>> <=> UniqueOps(ops) = {}
    <2>1. Inline(ops) = <<>> <=> DOMAIN Inline(ops) = {}
      BY <1>2
    <2>2. DOMAIN Inline(ops) = {} <=> Range(Inline(ops)) = {}
      BY DEF Range
    <2> QED
      BY <1>3, <2>1, <2>2
  <1>5. ASSUME Len(Inline(ops)) = 1, NEW o \in UniqueOps(ops), NEW p \in UniqueOps(ops) PROVE o = p
    <2>1. DOMAIN Inline(ops) = {1}
      BY <1>2, <1>5
    <2>2. \A x \in Range(Inline(ops)) : x = Inline(ops)[1]
      BY <2>1 DEF Range
    <2> QED
      BY <1>3, <2>2
  <1>6. Len(Later(ops)) \in Nat /\ DOMAIN Later(ops) = 1 .. Len(Later(ops))
    BY <1>2
  <1> QED
    BY <1>2, <1>3, <1>4, <1>5, <1>6 DEF Ahead

LaterPiece(s, t, o) == IF o.op = "drop" THEN DropIndexText(s, t, o.key.name) ELSE CreateIndex(s, t, o.key)

LEMMA AlterTextIs ==
  ASSUME NEW s, NEW t \in TableName, NEW ops \in Changes
  PROVE  LET text == AlterText(s, t, ops)
             h    == Ahead(ops)
         IN  /\ text \in Seq(Range(text)) /\ Len(text) = Len(Later(ops)) + h
             /\ DOMAIN text = 1 .. (Len(Later(ops)) + h)
             /\ h = 1 => /\ text[1].kind = "add_constraint" /\ text[1].schema = s /\ text[1].table = t
                         /\ Piece(text[1])
                         /\ text[1].constraint # "refused" => Len(Inline(ops)) = 1
             /\ \A i \in 1 .. Len(Later(ops)) : text[i + h] = LaterPiece(s, t, Later(ops)[i])
  <1> DEFINE inline == Inline(ops)
             later  == Later(ops)
             none   == PgStatement("add_constraint", s, t)
             alter  == IF Len(inline) = 1 THEN WithConstraint(none, inline[1].key)
                       ELSE [none EXCEPT !.constraint = "refused"]
             rest   == [i \in DOMAIN later |-> LaterPiece(s, t, later[i])]
             text   == AlterText(s, t, ops)
  <1>1. text = (IF inline = <<>> THEN <<>> ELSE <<alter>>) \o rest
    <2>1. text = (IF inline = <<>> THEN <<>> ELSE IF Len(inline) = 1
                  THEN <<WithConstraint(none, inline[1].key)>>
                  ELSE <<[none EXCEPT !.constraint = "refused"]>>) \o rest
      BY DEF AlterText, Inline, Later, UniqueOps, LaterPiece
    <2> HIDE DEF text, inline, none, rest
    <2> QED
      BY <2>1
  <1>2. /\ alter.kind = "add_constraint" /\ alter.schema = s /\ alter.table = t
        /\ Piece(alter)
        /\ alter.constraint # "refused" => Len(inline) = 1
    <2>1. CASE Len(inline) = 1
      <3>1. alter = WithConstraint(none, inline[1].key)
        BY <2>1
      <3> DEFINE first == [PgStatement("add_constraint", s, t) EXCEPT !.ifNotExists = FALSE]
      <3>2. none = first
        <4> DEFINE plain(v) == [kind |-> "add_constraint", schema |-> s, table |-> t,
                                name |-> <<>>, ifNotExists |-> v, constraint |-> "none"]
        <4>1. none = plain(FALSE)
          BY DEF PgStatement
        <4>2. ASSUME NEW v PROVE [plain(v) EXCEPT !.ifNotExists = v] = plain(v)
          OBVIOUS
        <4> HIDE DEF plain, none
        <4>3. [plain(FALSE) EXCEPT !.ifNotExists = FALSE] = plain(FALSE)
          BY Zenon, <4>2
        <4>4. first = [none EXCEPT !.ifNotExists = FALSE]
          BY DEF none
        <4> QED
          BY Zenon, <4>1, <4>3, <4>4
      <3>0. WithConstraint(first, inline[1].key) = alter
        <4> HIDE DEF none, alter, first
        <4> QED
          BY <3>1, <3>2
      <3> HIDE DEF none, alter
      <3>3. /\ Piece(alter) /\ alter.kind = "add_constraint" /\ alter.schema = s /\ alter.table = t
        BY <3>0, ConstraintPiece
      <3> QED
        BY <2>1, <3>3
    <2>2. CASE Len(inline) # 1
      <3>1. alter = [none EXCEPT !.constraint = "refused"]
        BY <2>2
      <3>2. /\ alter.kind = "add_constraint" /\ alter.schema = s /\ alter.table = t
            /\ alter.constraint = "refused"
        BY <3>1 DEF PgStatement
      <3> HIDE DEF alter
      <3> QED
        BY <3>2 DEF Piece
    <2> QED
      BY <2>1, <2>2
  <1>3. Len(later) \in Nat /\ DOMAIN later = 1 .. Len(later) /\ (Ahead(ops) = IF inline = <<>> THEN 0 ELSE 1)
    BY OpsAre DEF Ahead
  <1> HIDE DEF inline, later, alter, text
  <1>4. /\ rest \in Seq(Range(rest)) /\ Len(rest) = Len(later)
        /\ \A i \in 1 .. Len(later) : rest[i] = LaterPiece(s, t, later[i])
    BY <1>3 DEF Range
  <1> HIDE DEF rest
  <1>5. CASE inline = <<>>
    <2>1. text = rest
      <3>1. text = <<>> \o rest
        BY <1>1, <1>5
      <3> QED
        BY <1>4, <3>1
    <2>2. DOMAIN text = 1 .. Len(later)
      BY <1>3, <1>4, <2>1
    <2>3. Ahead(ops) = 0
      BY <1>3, <1>5
    <2>4. \A i \in 1 .. Len(later) : text[i + Ahead(ops)] = LaterPiece(s, t, later[i])
      BY <1>3, <1>4, <2>1, <2>3
    <2>5. text \in Seq(Range(text)) /\ Len(text) = Len(later) + Ahead(ops)
      BY <1>3, <1>4, <2>1, <2>3
    <2>6. DOMAIN text = 1 .. (Len(later) + Ahead(ops))
      <3>1. Len(later) + Ahead(ops) = Len(later)
        <4>1. \A m \in Nat : \A n : n = 0 => m + n = m
          OBVIOUS
        <4> QED
          BY Zenon, <1>3, <2>3, <4>1
      <3> QED
        BY Zenon, <2>2, <3>1
    <2>7. Ahead(ops) # 1
      BY <2>3
    <2> QED
      BY Zenon, <2>4, <2>5, <2>6, <2>7 DEF text, later
  <1>6. CASE inline # <<>>
    <2>1. text = <<alter>> \o rest
      BY <1>1, <1>6
    <2>2. /\ text \in Seq(Range(text)) /\ Len(text) = Len(rest) + 1
          /\ text[1] = alter /\ \A i \in 1 .. Len(rest) : text[i + 1] = rest[i]
      BY <1>4, <2>1, Prefixed
    <2>3. Ahead(ops) = 1
      BY <1>3, <1>6
    <2>4. Len(text) = Len(later) + 1 /\ DOMAIN text = 1 .. (Len(later) + 1)
      BY <1>3, <1>4, <2>2
    <2>5. \A i \in 1 .. Len(later) : text[i + 1] = LaterPiece(s, t, later[i])
      BY <1>4, <2>2
    <2> QED
      BY <1>2, <2>2, <2>3, <2>4, <2>5 DEF text, later, inline
  <1> QED
    BY <1>5, <1>6

LEMMA PairsAre ==
  ASSUME NEW R, Kept(R), NEW s, NEW t
  PROVE  Pairs(R, s, t) = {<<"index", n>> : n \in Indexes(R, s, t)}
                            \cup {<<"constraint", c.name>> : c \in Uniques(R, s, t)}
  <1>1. \A r \in R : r.kind \in {"table", "index", "constraint"}
    BY DEF Kept, Shaped
  <1>2. ASSUME NEW p \in Pairs(R, s, t)
        PROVE  p \in {<<"index", n>> : n \in Indexes(R, s, t)}
                        \cup {<<"constraint", c.name>> : c \in Uniques(R, s, t)}
    <2>1. PICK r \in R : r.schema = s /\ r.on = t /\ r.kind # "table" /\ p = <<r.kind, r.name>>
      BY <1>2 DEF Pairs
    <2>2. CASE r.kind = "index"
      BY <2>1, <2>2 DEF Indexes, On
    <2>3. CASE r.kind = "constraint"
      BY <2>1, <2>3 DEF Uniques, On
    <2> QED
      BY <1>1, <2>1, <2>2, <2>3
  <1>3. ASSUME NEW n \in Indexes(R, s, t) PROVE <<"index", n>> \in Pairs(R, s, t)
    <2>1. PICK r \in R : r.schema = s /\ r.on = t /\ r.kind = "index" /\ r.name = n
      BY DEF Indexes, On
    <2> QED
      BY <2>1 DEF Pairs
  <1>4. ASSUME NEW c \in Uniques(R, s, t) PROVE <<"constraint", c.name>> \in Pairs(R, s, t)
    BY DEF Uniques, On, Pairs
  <1> QED
    BY <1>2, <1>3, <1>4

\* A key and its index.
LEMMA KeyHasIndex ==
  ASSUME Kept(rels), NEW s, NEW t, Agree(rels, keys, s, t), NEW k \in KeysIn(s, t)
  PROVE  \/ k.kind = "index" /\ k.index \in Indexes(rels, s, t)
         \/ k.kind = "constraint" /\ \E c \in Uniques(rels, s, t) : c.name = k.index
  <1>1. <<k.kind, k.index>> \in Pairs(rels, s, t)
    BY DEF Agree, Of, KeysIn
  <1> DEFINE A == {<<"index", n>> : n \in Indexes(rels, s, t)}
             B == {<<"constraint", c.name>> : c \in Uniques(rels, s, t)}
  <1>2. <<k.kind, k.index>> \in A \/ <<k.kind, k.index>> \in B
    <2>1. Pairs(rels, s, t) = A \cup B
      BY PairsAre
    <2> HIDE DEF A, B
    <2> QED
      BY <1>1, <2>1
  <1>3. ASSUME <<k.kind, k.index>> \in A
        PROVE  k.kind = "index" /\ k.index \in Indexes(rels, s, t)
    <2>1. PICK n \in Indexes(rels, s, t) : <<k.kind, k.index>> = <<"index", n>>
      BY <1>3
    <2> QED
      BY <2>1
  <1>4. ASSUME <<k.kind, k.index>> \in B
        PROVE  k.kind = "constraint" /\ \E c \in Uniques(rels, s, t) : c.name = k.index
    <2>1. PICK c \in Uniques(rels, s, t) : <<k.kind, k.index>> = <<"constraint", c.name>>
      BY <1>4
    <2> QED
      BY <2>1
  <1>5. CASE <<k.kind, k.index>> \in A
    BY Zenon, <1>3, <1>5
  <1>6. CASE <<k.kind, k.index>> \in B
    BY Zenon, <1>4, <1>6
  <1> HIDE DEF A, B
  <1> QED
    BY Zenon, <1>2, <1>5, <1>6

LEMMA CreateIsAbout ==
  ASSUME NEW s, NEW t \in TableName, NEW list \in KeyLists, NEW text, NEW posts,
         CreatePieces(text, s, t, list, posts)
  PROVE  /\ About(text, s, t) /\ InOrder(text)
         /\ \A i \in DOMAIN text : i > 1 => text[i].kind = "create_index"
  <1>1. /\ text \in Seq(Range(text)) /\ Len(posts) \in Nat /\ Len(text) = Len(posts) + 1
        /\ DOMAIN text = 1 .. (Len(posts) + 1)
        /\ text[1].kind = "create_table" /\ text[1].schema = s /\ text[1].table = t
        /\ Piece(text[1])
        /\ \A i \in 1 .. Len(posts) : text[i + 1] = CreateIndex(s, t, posts[i])
    BY Zenon DEF CreatePieces
  <1>2. ASSUME NEW i \in DOMAIN text, i > 1
        PROVE  /\ text[i].kind = "create_index" /\ text[i].schema = s /\ text[i].table = t
               /\ ~text[i].ifNotExists /\ text[i].constraint = "none"
    <2>1. i - 1 \in 1 .. Len(posts) /\ i = (i - 1) + 1
      BY <1>1, <1>2
    <2>2. text[i] = CreateIndex(s, t, posts[i - 1])
      BY <1>1, <2>1
    <2> QED
      BY <2>2, PiecesAre
  <1>3. ASSUME NEW i \in DOMAIN text
        PROVE  /\ text[i].kind \in {"create_table", "create_index"} /\ text[i].schema = s
               /\ text[i].table = t /\ (text[i].kind = "create_index" => ~text[i].ifNotExists)
               /\ Piece(text[i])
    <2>1. i = 1 \/ i > 1
      BY <1>1
    <2>2. CASE i > 1
      BY <1>2, <2>2 DEF Piece
    <2> QED
      BY <1>1, <2>1, <2>2
  <1>4. About(text, s, t)
    BY <1>1, <1>3 DEF About
  <1>5. InOrder(text)
    BY <1>2, <1>3 DEF InOrder
  <1> QED
    BY <1>2, <1>4, <1>5

\* The statements of an ALTER TABLE: the constraints, then one for each of the
\* other changes.
AlterPiece(st, i, s, t, ops) ==
  LET o == Later(ops)[i - Ahead(ops)]
  IN  /\ Piece(st) /\ st.schema = s /\ st.table = t
      /\ \/ i = 1 /\ Ahead(ops) = 1 /\ st.kind = "add_constraint"
         \/ /\ i - Ahead(ops) \in DOMAIN Later(ops) /\ o \in Range(ops) \ UniqueOps(ops)
            /\ \/ /\ o.op = "drop" /\ st.kind = "drop_index"
                  /\ st.name = PrefixedIndexName(t, o.key.name, <<"idx">>)
               \/ /\ o.op = "add" /\ ~o.key.unique /\ st.kind = "create_index"
                  /\ ~st.ifNotExists /\ st.name = IndexOf(t, o.key)

LEMMA AlterPieces ==
  ASSUME NEW s, NEW t \in TableName, NEW ops \in Changes,
         NEW i \in DOMAIN AlterText(s, t, ops)
  PROVE  AlterPiece(AlterText(s, t, ops)[i], i, s, t, ops)
  <1> DEFINE text == AlterText(s, t, ops)
             n    == Len(Later(ops))
             h    == Ahead(ops)
             o    == Later(ops)[i - h]
  <1>1. /\ text \in Seq(Range(text)) /\ Len(text) = n + h /\ DOMAIN text = 1 .. (n + h)
        /\ h = 1 => /\ text[1].kind = "add_constraint" /\ text[1].schema = s /\ text[1].table = t
                    /\ Piece(text[1])
        /\ \A j \in 1 .. n : text[j + h] = LaterPiece(s, t, Later(ops)[j])
    BY AlterTextIs
  <1>2. h \in {0, 1} /\ n \in Nat /\ DOMAIN Later(ops) = 1 .. n
        /\ Range(Later(ops)) = Range(ops) \ UniqueOps(ops)
    BY OpsAre
  <1>3. CASE i = 1 /\ h = 1
    BY <1>1, <1>3 DEF AlterPiece
  <1>4. CASE ~(i = 1 /\ h = 1)
    <2>1. i - h \in 1 .. n /\ i = (i - h) + h
      <3> HIDE DEF text, n, h
      <3>1. i \in 1 .. (n + h)
        BY <1>1 DEF text
      <3> QED
        BY <1>2, <1>4, <3>1
    <2>2. text[i] = LaterPiece(s, t, o)
      <3> HIDE DEF text, n, h
      <3> QED
        BY <1>1, <2>1
    <2>3. o \in Range(ops) \ UniqueOps(ops)
      BY <1>2, <2>1 DEF Range
    <2>4. o.op \in {"add", "drop"} /\ o.key.unique \in BOOLEAN
      BY <2>3, IndexAssumption DEF Range, IsKey
    <2>5. o.op = "add" => ~o.key.unique
      BY <2>3 DEF UniqueOps
    <2> HIDE DEF text, o
    <2>6. CASE o.op = "drop"
      <3>1. text[i] = DropIndexText(s, t, o.key.name)
        BY <2>2, <2>6 DEF LaterPiece
      <3>2. /\ text[i].kind = "drop_index" /\ text[i].schema = s /\ text[i].table = t
            /\ text[i].name = PrefixedIndexName(t, o.key.name, <<"idx">>)
            /\ text[i].constraint = "none"
        BY <3>1, PiecesAre
      <3>3. Piece(text[i])
        BY <3>2 DEF Piece
      <3> QED
        BY Zenon, <1>2, <2>1, <2>3, <2>6, <3>2, <3>3 DEF AlterPiece, text, o
    <2>7. CASE o.op = "add"
      <3>1. text[i] = CreateIndex(s, t, o.key)
        BY <2>2, <2>7 DEF LaterPiece
      <3>2. /\ text[i].kind = "create_index" /\ text[i].schema = s /\ text[i].table = t
            /\ ~text[i].ifNotExists /\ text[i].name = IndexOf(t, o.key)
            /\ text[i].constraint = "none"
        BY <3>1, PiecesAre
      <3>3. Piece(text[i])
        BY <3>2 DEF Piece
      <3> QED
        BY Zenon, <1>2, <2>1, <2>3, <2>5, <2>7, <3>2, <3>3 DEF AlterPiece, text, o
    <2> QED
      BY <2>4, <2>6, <2>7
  <1> QED
    BY <1>3, <1>4

\* What a careful client drops is there, and none of it twice.
CarefulDrops(s, t, ops) ==
  \A i \in DOMAIN ops : ops[i].op = "drop" =>
    /\ KnownDrop(s, t, ops[i].key.name)
    /\ \A j \in DOMAIN ops : ops[j].op = "drop" /\ i # j => ops[i].key.name # ops[j].key.name

\* What it adds has names of its own, or those of keys that go.
NewAdds(s, t, ops) ==
  \A i \in DOMAIN ops : ops[i].op = "add" =>
    /\ \A k \in KeysIn(s, t) :
         k.name = KeyName(ops[i].key) =>
           \E j \in DOMAIN ops : ops[j].op = "drop" /\ ops[j].key.name = k.name
    /\ \A j \in DOMAIN ops : ops[j].op = "add" /\ i # j => KeyName(ops[i].key) # KeyName(ops[j].key)

LEMMA KnownDropIs ==
  ASSUME IndexInv, Careful, NEW s, NEW t, Table(s, t) \in tables, NEW name, KnownDrop(s, t, name)
  PROVE  /\ s = cur /\ Agree(rels, keys, s, t)
         /\ PrefixedIndexName(t, name, <<"idx">>) \in Indexes(rels, s, t)
         /\ \E k \in KeysIn(s, t) : /\ k.name = name /\ k.kind = "index"
                                   /\ k.index = PrefixedIndexName(t, name, <<"idx">>)
  <1>1. PICK k \in KeysIn(s, t) : /\ k.name = name /\ k.kind = "index"
                                 /\ k.index = PrefixedIndexName(t, name, <<"idx">>)
    BY DEF KnownDrop
  <1>2. s = cur /\ Table(s, t) \in tables \ loose
    BY DEF KnownDrop
  <1>3. Agree(rels, keys, s, t)
    <2>1. Table(s, t).schema = s /\ Table(s, t).table = t
      BY DEF Table
    <2>2. Agree(rels, keys, Table(s, t).schema, Table(s, t).table)
      BY Zenon, <1>2 DEF IndexInv
    <2> QED
      BY Zenon, <2>1, <2>2
  <1>4. Kept(rels)
    BY DEF IndexInv
  <1>5. k.index \in Indexes(rels, s, t)
    BY <1>1, <1>3, <1>4, KeyHasIndex
  <1> QED
    BY Zenon, <1>1, <1>2, <1>3, <1>5

LEMMA AlterIsAbout ==
  ASSUME IndexInv, Careful, NEW s, NEW t \in TableName, NEW ops \in Changes,
         Table(s, t) \in tables, NewAdds(s, t, ops), CarefulDrops(s, t, ops)
  PROVE  /\ IsInjective(ops)
         /\ About(AlterText(s, t, ops), s, t)
         /\ InOrder(AlterText(s, t, ops))
  <1> DEFINE text == AlterText(s, t, ops)
             h    == Ahead(ops)
             O(i) == Later(ops)[i - h]
  <1>1. \A i \in DOMAIN ops : ops[i].op \in {"add", "drop"}
    BY IndexAssumption
  <1>2. IsInjective(ops)
    BY <1>1 DEF NewAdds, CarefulDrops, IsInjective
  <1>3. ASSUME NEW i \in DOMAIN text PROVE AlterPiece(text[i], i, s, t, ops)
    BY Zenon, AlterPieces
  <1>4. text \in Seq(Range(text)) /\ DOMAIN text \subseteq Int
    <2>1. text \in Seq(Range(text)) 
      BY Zenon, AlterTextIs
    <2> QED
      BY <2>1
  <1>5. h \in {0, 1} /\ IsInjective(Later(ops))
    BY <1>2, OpsAre
  <1>10. ASSUME NEW name, KnownDrop(s, t, name)
         PROVE  /\ s = cur /\ Agree(rels, keys, s, t)
                /\ PrefixedIndexName(t, name, <<"idx">>) \in Indexes(rels, s, t)
                /\ \E k \in KeysIn(s, t) : k.name = name /\ k.index = PrefixedIndexName(t, name, <<"idx">>)
    BY <1>10, KnownDropIs
  <1> HIDE DEF text, h
  <1>6. ASSUME NEW i \in DOMAIN text, text[i].kind = "drop_index"
        PROVE  /\ i - h \in DOMAIN Later(ops) /\ O(i) \in Range(ops) /\ O(i).op = "drop"
               /\ text[i].name = PrefixedIndexName(t, O(i).key.name, <<"idx">>)
               /\ KnownDrop(s, t, O(i).key.name)
    <2>1. /\ i - h \in DOMAIN Later(ops) /\ O(i) \in Range(ops) /\ O(i).op = "drop"
          /\ text[i].name = PrefixedIndexName(t, O(i).key.name, <<"idx">>)
      BY <1>3, <1>6 DEF AlterPiece, h
    <2>2. \A o \in Range(ops) : o.op = "drop" => KnownDrop(s, t, o.key.name)
      BY DEF CarefulDrops, Range
    <2> QED
      BY Zenon, <2>1, <2>2
  <1>7. About(text, s, t)
    <2>1. ASSUME NEW i \in DOMAIN text, text[i].kind = "drop_index"
          PROVE  s = cur /\ text[i].name \in Indexes(rels, s, t)
      BY Zenon, <1>6, <1>10, <2>1
    <2>2. ASSUME NEW i \in DOMAIN text PROVE Piece(text[i]) /\ text[i].schema = s /\ text[i].table = t
      BY Zenon, <1>3 DEF AlterPiece
    <2> QED
      BY Zenon, <1>4, <2>1, <2>2 DEF About
  <1>8. ASSUME NEW i \in DOMAIN text, NEW j \in DOMAIN text, text[i].kind = "drop_index",
               text[j].kind = "drop_index", text[i].name = text[j].name
        PROVE  i = j
    <2>1. PICK k \in KeysIn(s, t) : k.name = O(i).key.name /\ k.index = text[i].name
      BY Zenon, <1>6, <1>8, <1>10
    <2>2. PICK l \in KeysIn(s, t) : l.name = O(j).key.name /\ l.index = text[j].name
      BY Zenon, <1>6, <1>8, <1>10
    <2>3. k = l
      <3>1. Agree(rels, keys, s, t)
        BY Zenon, <1>6, <1>8, <1>10
      <3> QED
        BY <1>8, <2>1, <2>2, <3>1 DEF Agree, Of, KeysIn
    <2>4. O(i) = O(j)
      <3>1. \A o, p \in Range(ops) : /\ o.op = "drop" /\ p.op = "drop" /\ o.key.name = p.key.name
                                    => o = p
        BY DEF CarefulDrops, Range
      <3> QED
        BY Zenon, <1>6, <1>8, <2>1, <2>2, <2>3, <3>1
    <2>5. i - h = j - h
      BY Zenon, <1>5, <1>6, <1>8, <2>4 DEF IsInjective
    <2> QED
      BY <1>4, <1>5, <2>5
  <1>9. InOrder(text)
    <2>1. ASSUME NEW i \in DOMAIN text
          PROVE  /\ i > 1 => text[i].kind \in {"create_index", "drop_index"}
                 /\ text[i].kind = "create_index" => ~text[i].ifNotExists
      BY <1>3 DEF AlterPiece
    <2> QED
      BY Zenon, <1>8, <2>1 DEF InOrder
  <1> QED
    BY <1>2, <1>7, <1>9 DEF text

-----------------------------------------------------------------------------
(* The keys of one table after a statement *)

\* Agree, for indexes and constraints apart.
Standing(K, s, t, kind) == {k.index : k \in {l \in Of(K, s, t) : l.kind = kind}}

Matches(R, K, s, t) ==
  /\ \A k \in Of(K, s, t) : k.kind \in {"index", "constraint"}
  /\ Standing(K, s, t, "index") = Indexes(R, s, t)
  /\ Standing(K, s, t, "constraint") = {c.name : c \in Uniques(R, s, t)}
  /\ \A k, l \in Of(K, s, t) : k.kind = l.kind /\ k.index = l.index => k = l

LEMMA IndexIsNoConstraint ==
  ASSUME NEW R, Kept(R), NEW s, NEW t, NEW n \in Indexes(R, s, t), NEW c \in Uniques(R, s, t)
  PROVE  c.name # n
  <1>1. PICK r \in R : r.schema = s /\ r.kind = "index" /\ r.name = n
    BY DEF Indexes, On
  <1>2. c \in R /\ c.schema = s /\ c.kind = "constraint"
    BY DEF Uniques, On
  <1> QED
    BY <1>1, <1>2 DEF Kept, OneEach

LEMMA AgreeMatches ==
  ASSUME NEW R, Kept(R), NEW K, NEW s, NEW t, Agree(R, K, s, t)
  PROVE  Matches(R, K, s, t)
  <1> DEFINE A == {<<"index", n>> : n \in Indexes(R, s, t)}
             B == {<<"constraint", c.name>> : c \in Uniques(R, s, t)}
             L == {<<k.kind, k.index>> : k \in Of(K, s, t)}
  <1>1. L = A \cup B
    <2>1. L = Pairs(R, s, t)
      BY DEF Agree
    <2>2. Pairs(R, s, t) = A \cup B
      BY PairsAre
    <2> QED
      BY Zenon, <2>1, <2>2
  <1>2. ASSUME NEW k \in Of(K, s, t)
        PROVE  \/ k.kind = "index" /\ k.index \in Indexes(R, s, t)
               \/ k.kind = "constraint" /\ k.index \in {c.name : c \in Uniques(R, s, t)}
    <2>1. <<k.kind, k.index>> \in L
      OBVIOUS
    <2>2. CASE <<k.kind, k.index>> \in A
      BY <2>2
    <2>3. CASE <<k.kind, k.index>> \in B
      BY <2>3
    <2> HIDE DEF A, B, L
    <2> QED
      BY <1>1, <2>1, <2>2, <2>3
  <1>3. ASSUME NEW n \in Indexes(R, s, t) PROVE n \in Standing(K, s, t, "index")
    <2>1. <<"index", n>> \in A
      OBVIOUS
    <2>2. <<"index", n>> \in L
      <3> HIDE DEF A, B, L
      <3> QED
        BY <1>1, <2>1
    <2>3. PICK k \in Of(K, s, t) : <<k.kind, k.index>> = <<"index", n>>
      BY <2>2
    <2> QED
      BY <2>3 DEF Standing
  <1>4. ASSUME NEW c \in Uniques(R, s, t) PROVE c.name \in Standing(K, s, t, "constraint")
    <2>1. <<"constraint", c.name>> \in B
      OBVIOUS
    <2>2. <<"constraint", c.name>> \in L
      <3> HIDE DEF A, B, L
      <3> QED
        BY <1>1, <2>1
    <2>3. PICK k \in Of(K, s, t) : <<k.kind, k.index>> = <<"constraint", c.name>>
      BY <2>2
    <2> QED
      BY <2>3 DEF Standing
  <1>5. Standing(K, s, t, "index") = Indexes(R, s, t)
    BY <1>2, <1>3 DEF Standing
  <1>6. Standing(K, s, t, "constraint") = {c.name : c \in Uniques(R, s, t)}
    BY <1>2, <1>4 DEF Standing
  <1>7. \A k, l \in Of(K, s, t) : k.index = l.index => k = l
    BY DEF Agree
  <1> QED
    BY <1>2, <1>5, <1>6, <1>7 DEF Matches

LEMMA MatchesAgree ==
  ASSUME NEW R, Kept(R), NEW K, NEW s, NEW t, Matches(R, K, s, t), TableRel(s, t) \in R
  PROVE  Agree(R, K, s, t)
  <1> DEFINE A == {<<"index", n>> : n \in Indexes(R, s, t)}
             B == {<<"constraint", c.name>> : c \in Uniques(R, s, t)}
             L == {<<k.kind, k.index>> : k \in Of(K, s, t)}
  <1>1. ASSUME NEW k \in Of(K, s, t)
        PROVE  \/ k.kind = "index" /\ k.index \in Indexes(R, s, t)
               \/ k.kind = "constraint" /\ \E c \in Uniques(R, s, t) : c.name = k.index
    <2>1. CASE k.kind = "index"
      <3>1. k.index \in Standing(K, s, t, "index")
        BY <2>1 DEF Standing
      <3> QED
        BY <2>1, <3>1 DEF Matches
    <2>2. CASE k.kind = "constraint"
      <3>1. k.index \in Standing(K, s, t, "constraint")
        BY <2>2 DEF Standing
      <3>2. k.index \in {c.name : c \in Uniques(R, s, t)}
        BY <3>1 DEF Matches
      <3> QED
        BY <2>2, <3>2
    <2> QED
      BY <2>1, <2>2 DEF Matches
  <1>2. L \subseteq A \cup B
    <2>1. ASSUME NEW k \in Of(K, s, t) PROVE <<k.kind, k.index>> \in A \cup B
      BY <1>1
    <2> QED
      BY <2>1
  <1>3. A \subseteq L
    <2>1. ASSUME NEW n \in Indexes(R, s, t) PROVE <<"index", n>> \in L
      <3>1. n \in Standing(K, s, t, "index")
        BY DEF Matches
      <3>2. PICK k \in Of(K, s, t) : k.kind = "index" /\ k.index = n
        BY <3>1 DEF Standing
      <3> QED
        BY <3>2
    <2> QED
      BY <2>1
  <1>4. B \subseteq L
    <2>1. ASSUME NEW c \in Uniques(R, s, t) PROVE <<"constraint", c.name>> \in L
      <3>1. c.name \in Standing(K, s, t, "constraint")
        BY DEF Matches
      <3>2. PICK k \in Of(K, s, t) : k.kind = "constraint" /\ k.index = c.name
        BY <3>1 DEF Standing
      <3> QED
        BY <3>2
    <2> QED
      BY <2>1
  <1>5. ASSUME NEW k \in Of(K, s, t), NEW l \in Of(K, s, t), k.index = l.index PROVE k = l
    <2>1. k.kind = l.kind
      BY <1>1, <1>5, IndexIsNoConstraint
    <2> QED
      BY <1>5, <2>1 DEF Matches
  <1>6. L = Pairs(R, s, t)
    <2>1. Pairs(R, s, t) = A \cup B
      BY PairsAre
    <2> HIDE DEF A, B, L
    <2> QED
      BY <1>2, <1>3, <1>4, <2>1
  <1> QED
    BY Zenon, <1>5, <1>6 DEF Agree

\* What a statement about one table leaves alone.
LEMMA AgreeElsewhere ==
  ASSUME NEW R, NEW K, NEW R2, NEW K2, NEW s, NEW t, Others(R2, s, t) = Others(R, s, t),
         \A k : k.schema # s \/ k.table # t => (k \in K2 <=> k \in K),
         NEW u, NEW v, u # s \/ v # t, Agree(R, K, u, v)
  PROVE  Agree(R2, K2, u, v)
  <1>1. Of(K2, u, v) = Of(K, u, v)
    BY DEF Of
  <1>2. \A r : r.schema # s \/ r.on # t => (r \in R2 <=> r \in R)
    BY DEF Others
  <1>3. Pairs(R2, u, v) = Pairs(R, u, v)
    <2>1. {q \in R2 : q.schema = u /\ q.on = v /\ q.kind # "table"}
            = {q \in R : q.schema = u /\ q.on = v /\ q.kind # "table"}
      BY <1>2
    <2> QED
      BY Zenon, <2>1 DEF Pairs
  <1>4. TableRel(u, v).schema = u /\ TableRel(u, v).on = v
    BY DEF TableRel, Relation
  <1>5. TableRel(u, v) \in R2
    BY <1>2, <1>4 DEF Agree
  <1> QED
    BY Zenon, <1>1, <1>3, <1>5 DEF Agree

\* A statement about a table was served: M are the indexes it made, D those it
\* dropped, and unique tells whether it made a constraint.
Serves(R, s, t, M, D, unique) ==
  /\ Kept(R)
  /\ Others(R, s, t) = Others(rels, s, t)
  /\ TableRel(s, t) \in R
  /\ Indexes(R, s, t) = (Indexes(rels, s, t) \ D) \cup M
  /\ M \cap Indexes(rels, s, t) \subseteq D
  /\ ~unique => Uniques(R, s, t) = Uniques(rels, s, t)
  /\ unique => \E c \in Uniques(R, s, t) : /\ Uniques(R, s, t) = Uniques(rels, s, t) \cup {c}
                                          /\ c \notin rels

\* The keys that go and come with it.
Swaps(Gone, New, s, t, M, D, unique, name) ==
  /\ \A k \in Gone : k \in Of(keys, s, t) /\ k.kind = "index" /\ k.index \in D
  /\ \A n \in D : \E k \in Gone : k.index = n
  /\ \A k \in New : /\ k.schema = s /\ k.table = t
                    /\ \/ k.kind = "index" /\ k.index \in M
                       \/ k.kind = "constraint" /\ k.index = name /\ unique
  /\ \A n \in M : \E k \in New : k.kind = "index" /\ k.index = n
  /\ unique => \E k \in New : k.kind = "constraint"
  /\ \A k, l \in New : k.kind = l.kind /\ k.index = l.index => k = l

LEMMA AgreeAfter ==
  ASSUME Kept(rels), NEW s, NEW t, Matches(rels, keys, s, t),
         NEW R, NEW M, NEW D, NEW unique \in BOOLEAN, Serves(R, s, t, M, D, unique),
         NEW Gone, NEW New, NEW name, Swaps(Gone, New, s, t, M, D, unique, name),
         unique => \A c \in Uniques(R, s, t) \ rels : c.name = name
  PROVE  Agree(R, (keys \ Gone) \cup New, s, t)
  <1> DEFINE K   == (keys \ Gone) \cup New
             old == Indexes(rels, s, t)
             Had == Of(keys, s, t)
  <1>1. Of(K, s, t) = (Had \ Gone) \cup New
    BY DEF Of, Swaps
  <1>2. /\ \A k \in Had : k.kind = "index" => k.index \in old
        /\ \A n \in old : \E k \in Had : k.kind = "index" /\ k.index = n
        /\ \A k, l \in Had : k.kind = l.kind /\ k.index = l.index => k = l
        /\ \A k \in Had : k.kind \in {"index", "constraint"}
    BY DEF Matches, Standing
  <1>3. /\ \A k \in Had : k.kind = "constraint" => \E c \in Uniques(rels, s, t) : c.name = k.index
        /\ \A c \in Uniques(rels, s, t) : \E k \in Had : k.kind = "constraint" /\ k.index = c.name
    <2>1. Standing(keys, s, t, "constraint") = {c.name : c \in Uniques(rels, s, t)}
      BY DEF Matches
    <2>2. \A k \in Had : k.kind = "constraint" => k.index \in Standing(keys, s, t, "constraint")
      BY DEF Standing
    <2>3. \A c \in Uniques(rels, s, t) : c.name \in Standing(keys, s, t, "constraint")
      BY <2>1
    <2> QED
      BY <2>1, <2>2, <2>3 DEF Standing
  <1>4. /\ Indexes(R, s, t) = (old \ D) \cup M /\ M \cap old \subseteq D /\ Kept(R)
        /\ TableRel(s, t) \in R
    BY DEF Serves
  <1>5. /\ \A k \in Gone : k \in Had /\ k.kind = "index" /\ k.index \in D
        /\ \A n \in D : \E k \in Gone : k.index = n
        /\ \A k \in New : /\ k.kind = "index" => k.index \in M
                          /\ k.kind = "constraint" => k.index = name /\ unique
                          /\ k.kind \in {"index", "constraint"}
        /\ \A n \in M : \E k \in New : k.kind = "index" /\ k.index = n
        /\ unique => \E k \in New : k.kind = "constraint"
        /\ \A k, l \in New : k.kind = l.kind /\ k.index = l.index => k = l
    BY DEF Swaps
  <1>6. unique => \E c \in Uniques(R, s, t) : /\ Uniques(R, s, t) = Uniques(rels, s, t) \cup {c}
                                              /\ c \notin Uniques(rels, s, t) /\ c.name = name
    <2>1. ASSUME unique
          PROVE  \E c \in Uniques(R, s, t) : /\ Uniques(R, s, t) = Uniques(rels, s, t) \cup {c}
                                            /\ c \notin rels
      BY <2>1 DEF Serves
    <2> QED
      BY <2>1 DEF Uniques, On
  <1> HIDE DEF Had
  <1>7. Standing(K, s, t, "index") = Indexes(R, s, t)
    <2>1. ASSUME NEW k \in Of(K, s, t), k.kind = "index" PROVE k.index \in Indexes(R, s, t)
      <3>1. CASE k \in New
        BY <1>4, <1>5, <2>1, <3>1
      <3>2. CASE k \in Had \ Gone
        <4>1. k.index \in old
          BY <1>2, <2>1, <3>2
        <4>2. ASSUME k.index \in D PROVE FALSE
          <5>1. PICK l \in Gone : l.index = k.index
            BY <1>5, <4>2
          <5> QED
            BY <1>2, <1>5, <2>1, <3>2, <5>1
        <4> QED
          BY <1>4, <4>1, <4>2
      <3> QED
        BY <1>1, <3>1, <3>2
    <2>2. ASSUME NEW n \in Indexes(R, s, t)
          PROVE  \E k \in Of(K, s, t) : k.kind = "index" /\ k.index = n
      <3>1. CASE n \in M
        BY <1>1, <1>5, <3>1
      <3>2. CASE n \in old \ D
        <4>1. PICK k \in Had : k.kind = "index" /\ k.index = n
          BY <1>2, <3>2
        <4>2. k \notin Gone
          BY <1>5, <3>2, <4>1
        <4> QED
          BY <1>1, <4>1, <4>2
      <3> QED
        BY <1>4, <3>1, <3>2
    <2> QED
      BY <2>1, <2>2 DEF Standing
  <1>8. Standing(K, s, t, "constraint") = {c.name : c \in Uniques(R, s, t)}
    <2>1. ASSUME NEW k \in Of(K, s, t), k.kind = "constraint"
          PROVE  \E c \in Uniques(R, s, t) : c.name = k.index
      <3>1. CASE k \in New
        BY <1>5, <1>6, <2>1, <3>1
      <3>2. CASE k \in Had
        <4>1. PICK c \in Uniques(rels, s, t) : c.name = k.index
          BY <1>3, <2>1, <3>2
        <4>2. c \in Uniques(R, s, t)
          BY <1>6 DEF Serves
        <4> QED
          BY <4>1, <4>2
      <3> QED
        BY <1>1, <3>1, <3>2
    <2>2. ASSUME NEW c \in Uniques(R, s, t)
          PROVE  \E k \in Of(K, s, t) : k.kind = "constraint" /\ k.index = c.name
      <3>1. CASE c \in Uniques(rels, s, t)
        <4>1. PICK k \in Had : k.kind = "constraint" /\ k.index = c.name
          BY <1>3, <3>1
        <4>2. k \notin Gone
          BY <1>5, <4>1
        <4> QED
          BY <1>1, <4>1, <4>2
      <3>2. CASE c \notin Uniques(rels, s, t)
        <4>1. unique
          BY <3>2 DEF Serves
        <4>2. c.name = name
          BY <1>6, <3>2, <4>1
        <4>3. PICK k \in New : k.kind = "constraint"
          BY <1>5, <4>1
        <4> QED
          BY <1>1, <1>5, <4>2, <4>3
      <3> QED
        BY <3>1, <3>2
    <2> QED
      BY <2>1, <2>2 DEF Standing
  <1>9. ASSUME NEW k \in Had \ Gone, NEW l \in New, k.kind = l.kind, k.index = l.index
        PROVE  FALSE
    <2>1. CASE k.kind = "index"
      <3>1. k.index \in old /\ l.index \in M
        BY <1>2, <1>5, <1>9, <2>1
      <3>2. k.index \in D
        BY <1>4, <1>9, <3>1
      <3>3. PICK m \in Gone : m.index = k.index
        BY <1>5, <3>2
      <3> QED
        BY <1>2, <1>5, <1>9, <2>1, <3>3
    <2>2. CASE k.kind = "constraint"
      <3>1. l.index = name /\ unique
        BY <1>5, <1>9, <2>2
      <3>2. PICK c \in Uniques(rels, s, t) : c.name = k.index
        BY <1>3, <1>9, <2>2
      <3>3. PICK d \in Uniques(R, s, t) : /\ Uniques(R, s, t) = Uniques(rels, s, t) \cup {d}
                                          /\ d \notin Uniques(rels, s, t) /\ d.name = name
        BY <1>6, <3>1
      <3>4. c.schema = s /\ d.schema = s /\ c \in R /\ d \in R
        BY <3>2, <3>3 DEF Uniques, On
      <3>5. c.name = d.name
        BY <1>9, <3>1, <3>2, <3>3
      <3> QED
        BY <1>4, <3>2, <3>3, <3>4, <3>5 DEF Kept, OneEach
    <2> QED
      BY <1>2, <2>1, <2>2
  <1>10. ASSUME NEW k \in Of(K, s, t), NEW l \in Of(K, s, t), k.kind = l.kind, k.index = l.index
         PROVE  k = l
    <2>1. \/ k \in New /\ l \in New
          \/ k \in Had \ Gone /\ l \in Had \ Gone
          \/ k \in Had \ Gone /\ l \in New
          \/ k \in New /\ l \in Had \ Gone
      BY <1>1
    <2>2. k \in New /\ l \in New => k = l
      BY <1>5, <1>10
    <2>3. k \in Had \ Gone /\ l \in Had \ Gone => k = l
      BY <1>2, <1>10
    <2>4. ~(k \in Had \ Gone /\ l \in New) /\ ~(k \in New /\ l \in Had \ Gone)
      BY <1>9, <1>10
    <2> QED
      BY Zenon, <2>1, <2>2, <2>3, <2>4
  <1>11. \A k \in Of(K, s, t) : k.kind \in {"index", "constraint"}
    BY <1>1, <1>2, <1>5
  <1>12. Matches(R, K, s, t)
    BY Zenon, <1>7, <1>8, <1>10, <1>11 DEF Matches
  <1> HIDE DEF K
  <1> QED
    BY <1>4, <1>12, MatchesAgree DEF K

-----------------------------------------------------------------------------
(* What the texts of CREATE TABLE and ALTER TABLE serve *)

\* A text about a table leaves the others' relations.
LEMMA TextKeeps ==
  ASSUME Kept(rels), NEW s, NEW t, NEW text, About(text, s, t), InOrder(text), NEW prepared
  PROVE  LET result == RunText(text, prepared)
         IN  /\ result.ok \in BOOLEAN /\ Kept(result.rels)
             /\ Others(result.rels, s, t) = Others(rels, s, t)
  <1>1. text \in Seq(Range(text)) /\ \A i \in DOMAIN text : Piece(text[i])
    BY DEF About
  <1>2. PICK g : /\ Way(g, text)
                 /\ \/ RunText(text, prepared) = g[Len(text)]
                    \/ RunText(text, prepared) = Refuses(rels)
                 /\ RunText(text, prepared).ok \in BOOLEAN
                 /\ Kept(RunText(text, prepared).rels)
    BY Zenon, <1>1, RunTextIs
  <1>3. Refuses(rels).rels = rels
    BY DEF Refuses
  <1>4. Others(g[Len(text)].rels, s, t) = Others(rels, s, t)
    <2>1. Len(text) \in 0 .. Len(text)
      BY <1>1
    <2> QED
      BY <1>2, <2>1, OthersStay
  <1> QED
    BY Zenon, <1>2, <1>3, <1>4

\* The results on the way of a text that was served.
LEMMA ServedWay ==
  ASSUME Kept(rels), NEW s, NEW t, NEW text, About(text, s, t), InOrder(text), NEW prepared,
         RunText(text, prepared).ok
  PROVE  \E g : /\ Way(g, text) /\ RunText(text, prepared) = g[Len(text)]
               /\ \A k \in 0 .. Len(text) : g[k].ok /\ IndexesAfter(g, text, s, t, k)
  <1>1. text \in Seq(Range(text)) /\ \A i \in DOMAIN text : Piece(text[i])
    BY DEF About
  <1>2. PICK g : /\ Way(g, text)
                 /\ \/ RunText(text, prepared) = g[Len(text)]
                    \/ RunText(text, prepared) = Refuses(rels)
    BY Zenon, <1>1, RunTextIs
  <1>3. ~Refuses(rels).ok
    BY DEF Refuses
  <1>4. RunText(text, prepared) = g[Len(text)] /\ g[Len(text)].ok
    BY Zenon, <1>2, <1>3
  <1>5. \A k \in 0 .. Len(text) : g[k].ok /\ IndexesAfter(g, text, s, t, k)
    BY <1>2, <1>4, TextServed
  <1> QED
    BY Zenon, <1>2, <1>4, <1>5

\* The keys a list makes indexes for, and those an ALTER TABLE does.
PostKeys(list)  == {key \in Range(list) : IsPost(key)}
AddedOps(ops)   == {o \in Range(ops) : o.op = "add" /\ ~o.key.unique}
DroppedOps(ops) == {o \in Range(ops) : o.op = "drop"}

\* The names of those indexes.
MadeBy(t, list)   == {IndexOf(t, key) : key \in PostKeys(list)}
HasUnique(list)   == \E i \in DOMAIN list : ~IsPost(list[i])
AddedBy(t, ops)   == {IndexOf(t, o.key) : o \in AddedOps(ops)}
DroppedBy(t, ops) == {PrefixedIndexName(t, o.key.name, <<"idx">>) : o \in DroppedOps(ops)}

LEMMA CreateServes ==
  ASSUME Kept(rels), NEW s, NEW t \in TableName, NEW list \in KeyLists, NEW ifNotExists,
         NEW prepared, NEW text, text = CreateText(s, t, list, ifNotExists),
         RunText(text, prepared).ok,
         NEW R, R = RunText(text, prepared).rels, TableRel(s, t) \in R \ rels
  PROVE  /\ On(rels, s, t) = {}
         /\ Serves(R, s, t, MadeBy(t, list), {}, HasUnique(list))
         /\ \A k, l \in PostKeys(list) : IndexOf(t, k) = IndexOf(t, l) => k = l
  <1>1. PICK posts : CreatePieces(text, s, t, list, posts)
    BY Zenon, CreateTextIs
  <1>2. /\ About(text, s, t) /\ InOrder(text)
        /\ \A i \in DOMAIN text : i > 1 => text[i].kind = "create_index"
    BY <1>1, CreateIsAbout
  <1>3. PICK g : /\ Way(g, text) /\ RunText(text, prepared) = g[Len(text)]
                 /\ \A k \in 0 .. Len(text) : g[k].ok /\ IndexesAfter(g, text, s, t, k)
    BY <1>2, ServedWay
  <1>4. /\ Len(text) \in Nat /\ Len(text) >= 1 /\ DOMAIN text = 1 .. Len(text)
        /\ text[1].kind = "create_table" /\ text[1].schema = s /\ text[1].table = t
        /\ (\E i \in DOMAIN list : ~IsPost(list[i])) <=> text[1].constraint # "none"
    BY <1>1 DEF CreatePieces
  <1>5. On(rels, s, t) = {}
    BY DEF On, Kept, OnTables
  <1>6. /\ g[1] = PgApply(rels, text[1]) /\ g[1].ok /\ Piece(text[1]) /\ Kept(g[1].rels)
        /\ R = g[Len(text)].rels /\ Kept(R)
    <2>1. g[0] = Makes(rels) /\ g[1] = IF g[0].ok THEN PgApply(g[0].rels, text[1]) ELSE g[0]
      BY <1>3, <1>4 DEF Way
    <2>2. g[1] = PgApply(rels, text[1])
      BY <2>1 DEF Makes
    <2>3. 1 \in 0 .. Len(text) /\ Len(text) \in 0 .. Len(text) /\ 1 \in DOMAIN text
      BY <1>4
    <2>4. Kept(g[1].rels) /\ Kept(g[Len(text)].rels)
      BY <1>3, <2>3 DEF Way
    <2> QED
      BY <1>2, <1>3, <2>2, <2>3, <2>4 DEF About
  <1>7. PICK c : /\ c \notin rels /\ c.kind = "constraint" /\ c.schema = s /\ c.on = t
                 /\ g[1].rels = rels \cup {TableRel(s, t)}
                                     \cup (IF text[1].constraint # "none" THEN {c} ELSE {})
    <2> DEFINE G == g[1].rels
               tr == TableRel(s, t)
               constraint == text[1].constraint
    <2>1. \/ G = rels
          \/ G = rels \cup {tr} /\ constraint = "none"
          \/ /\ constraint \in {"free", "named"}
             /\ \E c \in Constraints(text[1]) : c \notin rels /\ G = (rels \cup {tr}) \cup {c}
      <3>1. "create_table" # "add_constraint"
        OBVIOUS
      <3> QED
        BY <1>4, <1>6, <3>1, TableMade
    <2>2. ASSUME g[1].rels = rels PROVE FALSE
      <3>1. Len(text) # 1
        BY <1>6, <2>2
      <3>2. /\ 2 \in DOMAIN text /\ 2 \in 0 .. Len(text) /\ 2 - 1 = 1 /\ 2 \in 1 .. Len(text)
        BY <1>4, <3>1
      <3>3. g[2] = PgApply(rels, text[2]) /\ g[2].ok
        BY <1>3, <1>6, <2>2, <3>2 DEF Way
      <3>4. text[2].kind = "create_index" /\ text[2].schema = s /\ text[2].table = t
        BY <1>2, <3>2 DEF About
      <3>5. g[2] = Refuses(rels)
        BY <3>3, <3>4 DEF PgApply, PgCreateIndex
      <3> QED
        BY <3>3, <3>5 DEF Refuses
    <2>3. \A d \in Constraints(text[1]) : d.kind = "constraint" /\ d.schema = s /\ d.on = t
      BY <1>4 DEF Constraints, Relation
    <2> HIDE DEF G, tr, constraint
    <2>4. CASE G = rels \cup {tr} /\ constraint = "none"
      <3> DEFINE d == Relation(s, t, "constraint", t)
      <3>1. d.kind = "constraint" /\ d.schema = s /\ d.on = t
        BY DEF Relation
      <3>2. d \notin rels
        BY <1>5, <3>1 DEF On
      <3> QED
        BY <2>4, <3>1, <3>2 DEF G, tr, constraint
    <2>5. CASE /\ constraint \in {"free", "named"}
               /\ \E d \in Constraints(text[1]) : d \notin rels /\ G = (rels \cup {tr}) \cup {d}
      <3>1. PICK d \in Constraints(text[1]) : d \notin rels /\ G = (rels \cup {tr}) \cup {d}
        BY <2>5
      <3>2. constraint # "none"
        BY <2>5
      <3> QED
        BY <2>3, <3>1, <3>2 DEF G, tr, constraint
    <2> QED
      BY <2>1, <2>2, <2>4, <2>5 DEF G
  <1>8. c.kind = "constraint" /\ c.schema = s /\ c.on = t
    BY <1>7
  <1>9. IndexesAfter(g, text, s, t, Len(text)) /\ Lead(text) = 1
    BY <1>3, <1>4 DEF Lead
  <1>10. Uniques(R, s, t) = IF text[1].constraint # "none" THEN {c} ELSE {}
    <2>1. Uniques(R, s, t) = Uniques(g[1].rels, s, t)
      BY <1>4, <1>6, <1>9 DEF IndexesAfter
    <2>2. TableRel(s, t).kind = "table"
      BY DEF TableRel, Relation
    <2>3. \A r \in rels : r.schema # s \/ r.on # t
      BY <1>5 DEF On
    <2> QED
      BY <1>7, <1>8, <2>1, <2>2, <2>3 DEF Uniques, On
  <1> DEFINE M == {IndexOf(t, key) : key \in PostKeys(list)}
             n == Len(text)
  <1>11. ASSUME NEW i \in 1 .. Len(posts)
         PROVE  i + 1 \in 1 .. n /\ text[i + 1].kind = "create_index"
                /\ text[i + 1].name = IndexOf(t, posts[i])
    <2>1. i + 1 \in 1 .. n /\ text[i + 1] = CreateIndex(s, t, posts[i])
      BY <1>1 DEF CreatePieces
    <2> QED
      BY <2>1, PiecesAre
  <1>12. \A key : key \in PostKeys(list) <=> \E i \in 1 .. Len(posts) : key = posts[i]
    BY <1>1 DEF CreatePieces, PostKeys, Range
  <1>13. Named(text, n, "create_index") = M /\ Named(text, n, "drop_index") = {}
    <2>1. ASSUME NEW i \in 1 .. n, text[i].kind = "create_index"
          PROVE  \E key \in PostKeys(list) : text[i].name = IndexOf(t, key)
      <3>1. i # 1
        BY <1>4, <2>1
      <3>2. i - 1 \in 1 .. Len(posts) /\ (i - 1) + 1 = i
        BY <1>1, <3>1 DEF CreatePieces
      <3> QED
        BY <1>11, <1>12, <3>2
    <2>2. ASSUME NEW key \in PostKeys(list)
          PROVE  IndexOf(t, key) \in Named(text, n, "create_index")
      <3>1. PICK i \in 1 .. Len(posts) : key = posts[i]
        BY <1>12
      <3> QED
        BY <1>11, <3>1 DEF Named
    <2>3. \A i \in 1 .. n : text[i].kind # "drop_index"
      BY <1>2, <1>4
    <2> QED
      BY <2>1, <2>2, <2>3 DEF Named
  <1>14. ASSUME NEW k \in PostKeys(list), NEW l \in PostKeys(list), IndexOf(t, k) = IndexOf(t, l)
         PROVE  k = l
    <2>1. PICK i \in 1 .. Len(posts) : k = posts[i]
      BY <1>12
    <2>2. PICK j \in 1 .. Len(posts) : l = posts[j]
      BY <1>12
    <2>3. i + 1 = j + 1
      BY <1>9, <1>11, <1>14, <2>1, <2>2 DEF IndexesAfter
    <2> QED
      BY <2>1, <2>2, <2>3
  <1>15. Indexes(rels, s, t) = {} /\ Uniques(rels, s, t) = {}
    BY <1>5 DEF Indexes, Uniques
  <1>16. Indexes(R, s, t) = M
    <2>1. Indexes(R, s, t) = (Indexes(rels, s, t) \ Named(text, n, "drop_index"))
                                \cup Named(text, n, "create_index")
      BY Zenon, <1>6, <1>9 DEF IndexesAfter
    <2> HIDE DEF M, n
    <2> QED
      BY <1>13, <1>15, <2>1
  <1>17. Others(R, s, t) = Others(rels, s, t)
    BY <1>2, TextKeeps
  <1> HIDE DEF M
  <1>18. Serves(R, s, t, M, {}, \E i \in DOMAIN list : ~IsPost(list[i]))
    BY <1>4, <1>6, <1>7, <1>10, <1>15, <1>16, <1>17 DEF Serves
  <1> QED
    BY Zenon, <1>5, <1>14, <1>18 DEF M, MadeBy, HasUnique

LEMMA AlterServes ==
  ASSUME Kept(rels), NEW s, NEW t \in TableName, NEW ops \in Changes,
         NEW prepared, NEW text, text = AlterText(s, t, ops), TableRel(s, t) \in rels,
         About(text, s, t), InOrder(text), RunText(text, prepared).ok,
         NEW R, R = RunText(text, prepared).rels
  PROVE  /\ Serves(R, s, t, AddedBy(t, ops), DroppedBy(t, ops), UniqueOps(ops) # {})
         /\ \A o, p \in AddedOps(ops) : IndexOf(t, o.key) = IndexOf(t, p.key) => o = p
         /\ \A o, p \in UniqueOps(ops) : o = p
  <1> DEFINE h == Ahead(ops)
             n == Len(text)
             M == AddedBy(t, ops)
             D == DroppedBy(t, ops)
             L == Later(ops)
  <1>1. PICK g : /\ Way(g, text) /\ RunText(text, prepared) = g[n]
                 /\ \A k \in 0 .. n : g[k].ok /\ IndexesAfter(g, text, s, t, k)
    BY ServedWay
  <1>2. /\ n = Len(L) + h /\ DOMAIN text = 1 .. n /\ n \in Nat
        /\ h = 1 => /\ text[1].kind = "add_constraint" /\ text[1].schema = s /\ text[1].table = t
                    /\ text[1].constraint # "refused" => Len(Inline(ops)) = 1
        /\ \A i \in 1 .. Len(L) : text[i + h] = LaterPiece(s, t, L[i])
    <2>1. text \in Seq(Range(text))
      BY DEF About
    <2>2. Len(L) \in Nat /\ h \in {0, 1}
      BY OpsAre
    <2> HIDE DEF L, h
    <2> QED
      BY <2>1, <2>2, AlterTextIs DEF L, h
  <1>3. /\ Len(L) \in Nat /\ DOMAIN L = 1 .. Len(L) /\ h \in {0, 1}
        /\ Range(L) = Range(ops) \ UniqueOps(ops) /\ (h = 0 <=> UniqueOps(ops) = {})
        /\ Len(Inline(ops)) = 1 => \A o, p \in UniqueOps(ops) : o = p
    BY OpsAre
  <1>4. ASSUME NEW i \in 1 .. n PROVE AlterPiece(text[i], i, s, t, ops)
    <2>1. i \in DOMAIN AlterText(s, t, ops)
      BY <1>2
    <2> QED
      BY Zenon, <2>1, AlterPieces
  <1> HIDE DEF n, h, M, D, L
  <1>5. R = g[n].rels /\ Kept(R) /\ n \in 0 .. n
    BY <1>1, <1>2 DEF Way, n
  <1>6. IndexesAfter(g, text, s, t, n)
    BY <1>1, <1>5
  \* The pieces for the later changes, one for each.
  <1>7. ASSUME NEW o \in Range(ops) \ UniqueOps(ops)
        PROVE  \E i \in 1 .. n : L[i - h] = o /\ text[i] = LaterPiece(s, t, o) /\ i - h \in DOMAIN L
    <2>1. PICK j \in DOMAIN L : L[j] = o
      BY <1>3 DEF Range
    <2>2. j + h \in 1 .. n /\ (j + h) - h = j /\ text[j + h] = LaterPiece(s, t, o)
      <3>1. j \in 1 .. Len(L)
        BY <1>3, <2>1
      <3>2. text[j + h] = LaterPiece(s, t, o)
        BY <1>2, <2>1, <3>1
      <3>3. n = Len(L) + h /\ Len(L) \in Nat /\ h \in {0, 1}
        BY <1>2, <1>3
      <3>4. j + h \in 1 .. n /\ (j + h) - h = j
        BY <3>1, <3>3
      <3> QED
        BY <3>2, <3>4
    <2> QED
      BY <2>1, <2>2
  <1>8. AddedOps(ops) \subseteq Range(ops) \ UniqueOps(ops)
        /\ DroppedOps(ops) \subseteq Range(ops) \ UniqueOps(ops)
    BY DEF AddedOps, DroppedOps, UniqueOps
  <1>9. ASSUME NEW o \in AddedOps(ops)
        PROVE  LaterPiece(s, t, o).kind = "create_index" /\ LaterPiece(s, t, o).name = IndexOf(t, o.key)
    <2>1. LaterPiece(s, t, o) = CreateIndex(s, t, o.key)
      BY DEF LaterPiece, AddedOps
    <2> QED
      BY <2>1, PiecesAre
  <1>10. ASSUME NEW o \in DroppedOps(ops)
         PROVE  /\ LaterPiece(s, t, o).kind = "drop_index"
                /\ LaterPiece(s, t, o).name = PrefixedIndexName(t, o.key.name, <<"idx">>)
    <2>1. LaterPiece(s, t, o) = DropIndexText(s, t, o.key.name)
      BY DEF LaterPiece, DroppedOps
    <2> QED
      BY <2>1, PiecesAre
  <1>11. Named(text, n, "create_index") = M
    <2>1. ASSUME NEW i \in 1 .. n, text[i].kind = "create_index" PROVE text[i].name \in M
      <3>1. PICK o \in Range(ops) \ UniqueOps(ops) :
              o.op = "add" /\ ~o.key.unique /\ text[i].name = IndexOf(t, o.key)
        BY <1>4, <2>1 DEF AlterPiece
      <3> QED
        BY <3>1 DEF M, AddedBy, AddedOps
    <2>2. ASSUME NEW o \in AddedOps(ops)
          PROVE  IndexOf(t, o.key) \in Named(text, n, "create_index")
      <3>1. PICK i \in 1 .. n : text[i] = LaterPiece(s, t, o)
        BY <1>7, <1>8
      <3> QED
        BY <1>9, <3>1 DEF Named
    <2> QED
      BY <2>1, <2>2 DEF Named, M, AddedBy
  <1>12. Named(text, n, "drop_index") = D
    <2>1. ASSUME NEW i \in 1 .. n, text[i].kind = "drop_index" PROVE text[i].name \in D
      <3>1. PICK o \in Range(ops) \ UniqueOps(ops) :
              o.op = "drop" /\ text[i].name = PrefixedIndexName(t, o.key.name, <<"idx">>)
        BY <1>4, <2>1 DEF AlterPiece
      <3> QED
        BY <3>1 DEF D, DroppedBy, DroppedOps
    <2>2. ASSUME NEW o \in DroppedOps(ops)
          PROVE  PrefixedIndexName(t, o.key.name, <<"idx">>) \in Named(text, n, "drop_index")
      <3>1. PICK i \in 1 .. n : text[i] = LaterPiece(s, t, o)
        BY <1>7, <1>8
      <3> QED
        BY <1>10, <3>1 DEF Named
    <2> QED
      BY <2>1, <2>2 DEF Named, D, DroppedBy
  <1>13. ASSUME NEW o \in AddedOps(ops), NEW p \in AddedOps(ops),
                IndexOf(t, o.key) = IndexOf(t, p.key)
         PROVE  o = p
    <2>1. PICK i \in 1 .. n : L[i - h] = o /\ text[i] = LaterPiece(s, t, o)
      BY <1>7, <1>8
    <2>2. PICK j \in 1 .. n : L[j - h] = p /\ text[j] = LaterPiece(s, t, p)
      BY <1>7, <1>8
    <2>3. i = j
      BY <1>6, <1>9, <1>13, <2>1, <2>2 DEF IndexesAfter
    <2> QED
      BY <2>1, <2>2, <2>3
  <1>14. Others(R, s, t) = Others(rels, s, t) /\ TableRel(s, t) \in R
    <2>1. Others(R, s, t) = Others(rels, s, t)
      BY TextKeeps
    <2>2. text \in Seq(Range(text)) /\ \A i \in DOMAIN text : Piece(text[i])
      BY DEF About
    <2>3. TableRel(s, t).kind = "table"
      BY DEF TableRel, Relation
    <2>4. TableRel(s, t) \in g[n].rels
      <3>1. \A k \in 0 .. Len(text) : TableRel(s, t) \in g[k].rels
        BY <1>1, <2>2, <2>3, TablesStay
      <3> QED
        BY <1>5, <3>1 DEF n
    <2> QED
      BY <1>5, <2>1, <2>4
  <1>15. CASE h = 0
    <2>1. Lead(text) = 0
      <3>1. n > 0 => text[1].kind # "add_constraint" /\ text[1].kind # "create_table"
        <4>1. n > 0 => AlterPiece(text[1], 1, s, t, ops)
          BY <1>2, <1>4
        <4> QED
          BY <1>15, <4>1 DEF AlterPiece, h
      <3> QED
        BY <1>2, <3>1 DEF Lead, n
    <2>2. Uniques(R, s, t) = Uniques(g[0].rels, s, t)
      BY <1>2, <1>5, <1>6, <2>1 DEF IndexesAfter
    <2>3. g[0].rels = rels
      BY <1>1 DEF Way, Makes
    <2> QED
      BY <1>3, <1>5, <1>6, <1>11, <1>12, <1>13, <1>14, <1>15, <2>2, <2>3
         DEF Serves, IndexesAfter, M, D
  <1>16. CASE h = 1
    <2>1. Lead(text) = 1 /\ n >= 1 /\ 1 \in DOMAIN text /\ 1 \in 0 .. n
      BY <1>2, <1>3, <1>16 DEF Lead, n
    <2>2. g[1] = PgApply(rels, text[1]) /\ g[1].ok /\ Piece(text[1])
      <3>1. g[0] = Makes(rels) /\ g[1] = IF g[0].ok THEN PgApply(g[0].rels, text[1]) ELSE g[0]
        BY <1>1, <1>2, <2>1 DEF Way, n
      <3>2. g[1] = PgApply(rels, text[1])
        BY <3>1 DEF Makes
      <3> QED
        BY <1>1, <2>1, <3>2 DEF About
    <2>3. text[1].kind = "add_constraint" /\ text[1].schema = s /\ text[1].table = t
      BY <1>2, <1>16
    <2>4. PICK c \in Constraints(text[1]) : /\ c \notin rels /\ g[1].rels = rels \cup {c}
                                            /\ text[1].constraint \in {"free", "named"}
      <3>1. "create_table" # "add_constraint"
        OBVIOUS
      <3> QED
        BY <2>2, <2>3, <3>1, TableMade
    <2>5. c.kind = "constraint" /\ c.schema = s /\ c.on = t
      BY <2>3 DEF Constraints, Relation
    <2>6. Uniques(R, s, t) = Uniques(rels, s, t) \cup {c}
      <3>1. Uniques(R, s, t) = Uniques(g[1].rels, s, t)
        BY <1>2, <1>5, <1>6, <2>1 DEF IndexesAfter
      <3> QED
        BY <2>4, <2>5, <3>1 DEF Uniques, On
    <2>7. \A o, p \in UniqueOps(ops) : o = p
      <3>1. text[1].constraint # "refused"
        BY <2>4
      <3> QED
        BY <1>2, <1>3, <1>16, <3>1
    <2>8. UniqueOps(ops) # {}
      BY <1>3, <1>16
    <2>9. /\ Indexes(R, s, t) = (Indexes(rels, s, t) \ D) \cup M
          /\ M \cap Indexes(rels, s, t) \subseteq D
      BY <1>5, <1>6, <1>11, <1>12 DEF IndexesAfter
    <2>10. Serves(R, s, t, M, D, UniqueOps(ops) # {})
      BY <1>5, <1>14, <2>4, <2>6, <2>8, <2>9 DEF Serves
    <2> QED
      BY <1>13, <2>7, <2>10 DEF M, D
  <1> QED
    BY <1>3, <1>15, <1>16

-----------------------------------------------------------------------------
(* The steps *)

\* The name of the index PostgreSQL gave a constraint.
ConstraintName(result) ==
  LET made == {r \in result.rels \ rels : r.kind = "constraint"}
  IN  IF made = {} THEN <<>> ELSE (CHOOSE r \in made : TRUE).name

KeyAs(k, s, t, key, post, result) ==
  /\ k.schema = s /\ k.table = t /\ k.name = KeyName(key) /\ KeyShaped(k)
  /\ post => k.kind = "index" /\ k.index = IndexOf(t, key)
  /\ ~post => k.kind = "constraint" /\ k.index = ConstraintName(result)

LEMMA KeyIs ==
  ASSUME NEW s, NEW t, NEW key, NEW post \in BOOLEAN, NEW result
  PROVE  KeyAs(Key(s, t, key, post, result), s, t, key, post, result)
  <1> DEFINE n == Stand(t, key, post, result)
             k == Key(s, t, key, post, result)
  <1>1. k = [schema |-> s, table |-> t, name |-> KeyName(key),
             kind |-> IF post THEN "index" ELSE "constraint", index |-> n]
    BY Zenon DEF Key
  <1>2. n = IF post THEN IndexOf(t, key) ELSE ConstraintName(result)
    BY Zenon DEF Stand, ConstraintName
  <1> HIDE DEF n, k
  <1>3. /\ k.schema = s /\ k.table = t /\ k.name = KeyName(key)
        /\ k.kind = IF post THEN "index" ELSE "constraint"
        /\ k.index = IF post THEN IndexOf(t, key) ELSE ConstraintName(result)
    BY <1>1, <1>2
  <1>4. KeyShaped(k)
    BY <1>1 DEF KeyShaped
  <1> QED
    BY Zenon, <1>3, <1>4 DEF KeyAs, k

\* The index of a constraint is the only new one there is.
LEMMA StandIs ==
  ASSUME NEW s, NEW t, NEW result, Others(result.rels, s, t) = Others(rels, s, t),
         NEW d \in Uniques(result.rels, s, t), d \notin rels,
         Uniques(result.rels, s, t) = Uniques(rels, s, t) \cup {d},
         NEW c \in Uniques(result.rels, s, t) \ rels
  PROVE  c.name = ConstraintName(result)
  <1> DEFINE made == {r \in result.rels \ rels : r.kind = "constraint"}
  <1>1. \A r : r.schema # s \/ r.on # t => (r \in result.rels <=> r \in rels)
    BY DEF Others
  <1>3. made = {c}
    <2>1. c = d /\ c \in made
      BY DEF Uniques, On
    <2>2. ASSUME NEW r \in made PROVE r = c
      <3>1. r \in Uniques(result.rels, s, t)
        BY <1>1 DEF Uniques, On
      <3> QED
        BY <2>1, <3>1 DEF Uniques, On
    <2> QED
      BY <2>1, <2>2
  <1>4. ConstraintName(result) = IF made = {} THEN <<>> ELSE (CHOOSE r \in made : TRUE).name
    BY Zenon DEF ConstraintName
  <1> HIDE DEF made
  <1>5. (CHOOSE r \in made : TRUE) = c
    BY <1>3
  <1> QED
    BY <1>3, <1>4, <1>5

LEMMA TablesApart ==
  ASSUME NEW x \in [schema : Schema, table : TableName], NEW s, NEW t, x # Table(s, t)
  PROVE  x.schema # s \/ x.table # t
  BY DEF Table

\* At most one of a set of numbers.
LEMMA AtMostOne ==
  ASSUME NEW n \in Nat, NEW S \in SUBSET (1 .. n), Cardinality(S) <= 1, NEW i \in S, NEW j \in S
  PROVE  i = j
  <1> SUFFICES ASSUME i # j PROVE FALSE
    OBVIOUS
  <1>1. IsFiniteSet(S)
    <2>1. IsFiniteSet(1 .. n)
      BY FS_Interval
    <2> QED
      BY <2>1, FS_Subset
  <1>2. IsFiniteSet({i}) /\ Cardinality({i}) = 1
    BY FS_Singleton
  <1>3. IsFiniteSet({i} \cup {j}) /\ Cardinality({i} \cup {j}) = 2
    BY <1>2, FS_AddElement
  <1>4. {i} \cup {j} \subseteq S
    OBVIOUS
  <1>5. Cardinality({i} \cup {j}) <= Cardinality(S) /\ Cardinality(S) \in Nat
    BY <1>1, <1>4, FS_Subset, FS_CardinalityType
  <1> QED
    BY <1>3, <1>5

LEMMA ElsewhereStep ==
  ASSUME IndexInv, Careful, NEW s, NEW t, NEW R2, NEW K2, Others(R2, s, t) = Others(rels, s, t),
         \A k : k.schema # s \/ k.table # t => (k \in K2 <=> k \in keys),
         NEW x \in tables \ loose, x # Table(s, t)
  PROVE  Agree(R2, K2, x.schema, x.table)
  <1>1. x \in [schema : Schema, table : TableName] /\ Agree(rels, keys, x.schema, x.table)
    BY DEF IndexInv
  <1>2. x.schema # s \/ x.table # t
    BY <1>1, TablesApart
  <1> QED
    BY <1>1, <1>2, AgreeElsewhere

LEMMA CreateStep ==
  ASSUME IndexInv, NEW s \in Schema, NEW t \in TableName, NEW list \in KeyLists,
         NEW ifNotExists \in BOOLEAN, NEW prepared \in BOOLEAN,
         CreateTable(s, t, list, ifNotExists, prepared)
  PROVE  IndexInv'
  <1> DEFINE text   == CreateText(s, t, list, ifNotExists)
             result == RunText(text, prepared)
             known  == Table(s, t) \in tables
             New    == {Key(s, t, list[i], IsPost(list[i]), result) : i \in DOMAIN list}
  <1>1. /\ OneConstraint(list)
        /\ known \/ NamesFit(s, t, list, {})
        /\ rels' = result.rels
        /\ tables' = IF result.ok THEN tables \cup {Table(s, t)} ELSE tables
        /\ keys' = IF result.ok /\ ~known THEN keys \cup New ELSE keys
        /\ loose' = IF (IF known \/ ~result.ok THEN rels # result.rels
                        ELSE TableRel(s, t) \notin result.rels \ rels)
                    THEN loose \cup {Table(s, t)} ELSE loose
    BY Zenon DEF CreateTable, Answer
  <1>2. PICK posts : CreatePieces(text, s, t, list, posts)
    BY Zenon, CreateTextIs
  <1>3. About(text, s, t) /\ InOrder(text)
    <2> HIDE DEF text
    <2> QED
      BY <1>2, CreateIsAbout
  <1>4. Kept(rels) /\ KeysApart(keys)
    BY DEF IndexInv
  <1>5. /\ result.ok \in BOOLEAN /\ Kept(result.rels)
        /\ Others(result.rels, s, t) = Others(rels, s, t)
    <2> HIDE DEF text
    <2> QED
      BY <1>3, <1>4, TextKeeps
  <1>6. ASSUME NEW i \in DOMAIN list
        PROVE  LET k == Key(s, t, list[i], IsPost(list[i]), result)
               IN  /\ k.schema = s /\ k.table = t /\ k.name = KeyName(list[i]) /\ KeyShaped(k)
                   /\ IsPost(list[i]) => k.kind = "index" /\ k.index = IndexOf(t, list[i])
                   /\ ~IsPost(list[i]) => k.kind = "constraint" /\ k.index = ConstraintName(result)
    <2>1. IsPost(list[i]) \in BOOLEAN
      BY DEF IsPost
    <2> HIDE DEF result
    <2>2. KeyAs(Key(s, t, list[i], IsPost(list[i]), result), s, t, list[i], IsPost(list[i]), result)
      BY Zenon, <2>1, KeyIs
    <2> QED
      BY Zenon, <2>2 DEF KeyAs
  <1>7. IsFiniteSet(DOMAIN list) /\ Len(list) \in Nat /\ DOMAIN list = 1 .. Len(list)
    <2>1. list \in Seq(Range(list))
      BY IndexAssumption
    <2> QED
      BY <2>1, FS_Interval
  <1> DEFINE made == result.ok /\ ~known
  <1>8. \A k : k.schema # s \/ k.table # t => (k \in keys' <=> k \in keys)
    <2>1. \A k \in New : k.schema = s /\ k.table = t
      BY <1>6
    <2> HIDE DEF New, known, result
    <2> QED
      BY <1>1, <2>1
  <1>9. Table(s, t) \in [schema : Schema, table : TableName]
        /\ Table(s, t).schema = s /\ Table(s, t).table = t
    BY DEF Table
  <1> HIDE DEF text, result, New
  <1>10. tables' \subseteq [schema : Schema, table : TableName]
         /\ loose' \subseteq [schema : Schema, table : TableName]
    BY <1>1, <1>9 DEF IndexInv
  <1>11. \A k \in keys' : KeyShaped(k) /\ Table(k.schema, k.table) \in tables'
    <2>1. \A k \in New : KeyShaped(k) /\ Table(k.schema, k.table) = Table(s, t)
      BY <1>6 DEF New
    <2> QED
      BY <1>1, <1>5, <2>1 DEF IndexInv
  <1>12. ASSUME made
         PROVE  /\ \A k \in keys : k.schema # s \/ k.table # t
                /\ \A i, j \in DOMAIN list : KeyName(list[i]) = KeyName(list[j]) => i = j
                /\ \A i, j \in DOMAIN list : ~IsPost(list[i]) /\ ~IsPost(list[j]) => i = j
    <2>1. \A k \in keys : k.schema # s \/ k.table # t
      <3>1. \A k \in keys : Table(k.schema, k.table) \in tables
        BY DEF IndexInv
      <3> QED
        BY <1>12, <3>1
    <2>2. \A i, j \in DOMAIN list : KeyName(list[i]) = KeyName(list[j]) => i = j
      BY <1>1, <1>12 DEF NamesFit
    <2> DEFINE S == {i \in DOMAIN list : ~IsPost(list[i])}
    <2>3. Cardinality(S) <= 1 /\ S \in SUBSET (1 .. Len(list))
      BY <1>1, <1>7 DEF OneConstraint
    <2>4. \A i, j \in S : i = j
      <3> HIDE DEF S
      <3> QED
        BY <1>7, <2>3, AtMostOne
    <2> QED
      BY <2>1, <2>2, <2>4
  <1>13. KeysApart(keys')
    <2>1. CASE ~made
      BY <1>1, <1>4, <2>1
    <2>2. CASE made
      <3>1. keys' = keys \cup New
        BY <1>1, <2>2
      <3>2. ASSUME NEW k \in New, NEW l \in New, k.name = l.name PROVE k = l
        <4>1. PICK i \in DOMAIN list : k = Key(s, t, list[i], IsPost(list[i]), result)
          BY DEF New
        <4>2. PICK j \in DOMAIN list : l = Key(s, t, list[j], IsPost(list[j]), result)
          BY DEF New
        <4>3. i = j
          BY <1>6, <1>12, <2>2, <3>2, <4>1, <4>2
        <4> QED
          BY <4>1, <4>2, <4>3
      <3>3. \A k \in New : k.schema = s /\ k.table = t
        BY <1>6 DEF New
      <3> QED
        BY <1>4, <1>12, <2>2, <3>1, <3>2, <3>3 DEF KeysApart
    <2> QED
      BY <2>1, <2>2
  <1>14. ASSUME Careful, NEW x \in tables' \ loose' PROVE Agree(rels', keys', x.schema, x.table)
    <2>1. CASE x # Table(s, t)
      <3>1. x \in tables \ loose
        BY <1>1, <2>1
      <3>2. Others(rels', s, t) = Others(rels, s, t)
        BY <1>1, <1>5
      <3> QED
        BY <1>8, <1>14, <2>1, <3>1, <3>2, ElsewhereStep
    <2>2. CASE x = Table(s, t) /\ ~made
      <3>1. rels' = rels /\ keys' = keys /\ x \in tables \ loose
        BY <1>1, <2>2
      <3> QED
        BY <1>14, <3>1 DEF IndexInv
    <2>3. CASE x = Table(s, t) /\ made
      <3> DEFINE M == MadeBy(t, list)
                 unique == HasUnique(list)
                 name == ConstraintName(result)
      <3>1. TableRel(s, t) \in result.rels \ rels /\ result.ok /\ keys' = keys \cup New
        BY <1>1, <2>3
      <3>2. /\ On(rels, s, t) = {}
            /\ Serves(result.rels, s, t, M, {}, unique)
            /\ \A k, l \in PostKeys(list) : IndexOf(t, k) = IndexOf(t, l) => k = l
        <4>1. text = CreateText(s, t, list, ifNotExists) /\ result = RunText(text, prepared)
          BY DEF text, result
        <4> QED
          BY <1>4, <3>1, <4>1, CreateServes
      <3>3. unique \in BOOLEAN
        BY DEF HasUnique
      <3>4. \A i \in DOMAIN list : IsPost(list[i]) => list[i] \in PostKeys(list)
        BY DEF PostKeys, Range
      <3>5. \A key \in PostKeys(list) : \E i \in DOMAIN list : key = list[i] /\ IsPost(list[i])
        BY DEF PostKeys, Range
      <3>7. unique => \A c \in Uniques(result.rels, s, t) \ rels : c.name = name
        <4>1. ASSUME unique, NEW c \in Uniques(result.rels, s, t) \ rels PROVE c.name = name
          <5>1. Others(result.rels, s, t) = Others(rels, s, t)
            BY <3>2 DEF Serves
          <5>2. PICK d \in Uniques(result.rels, s, t) :
                  /\ Uniques(result.rels, s, t) = Uniques(rels, s, t) \cup {d}
                  /\ d \notin rels
            BY <3>2, <4>1 DEF Serves
          <5> QED
            BY <5>1, <5>2, StandIs
        <4> QED
          BY <4>1
      <3> HIDE DEF name
      <3>8. Swaps({}, New, s, t, M, {}, unique, name)
        <4>1. ASSUME NEW k \in New
              PROVE  /\ k.schema = s /\ k.table = t
                     /\ \/ k.kind = "index" /\ k.index \in M
                        \/ k.kind = "constraint" /\ k.index = name /\ unique
          <5>1. PICK i \in DOMAIN list : k = Key(s, t, list[i], IsPost(list[i]), result)
            BY DEF New
          <5>2. CASE IsPost(list[i])
            BY <1>6, <3>4, <5>1, <5>2 DEF MadeBy
          <5>3. CASE ~IsPost(list[i])
            BY <1>6, <5>1, <5>3 DEF name, HasUnique
          <5> QED
            BY <5>2, <5>3
        <4>2. ASSUME NEW key \in PostKeys(list)
              PROVE  \E k \in New : k.kind = "index" /\ k.index = IndexOf(t, key)
          <5>1. PICK i \in DOMAIN list : key = list[i] /\ IsPost(list[i])
            BY <3>5
          <5> DEFINE k == Key(s, t, list[i], IsPost(list[i]), result)
          <5>2. k \in New
            BY DEF New
          <5> QED
            BY <1>6, <5>1, <5>2
        <4>3. ASSUME unique PROVE \E k \in New : k.kind = "constraint"
          <5>1. PICK i \in DOMAIN list : ~IsPost(list[i])
            BY <4>3 DEF HasUnique
          <5> DEFINE k == Key(s, t, list[i], IsPost(list[i]), result)
          <5>2. k \in New
            BY DEF New
          <5> QED
            BY <1>6, <5>1, <5>2
        <4>4. ASSUME NEW k \in New, NEW l \in New, k.kind = l.kind, k.index = l.index PROVE k = l
          <5>1. PICK i \in DOMAIN list : k = Key(s, t, list[i], IsPost(list[i]), result)
            BY DEF New
          <5>2. PICK j \in DOMAIN list : l = Key(s, t, list[j], IsPost(list[j]), result)
            BY DEF New
          <5>3. CASE IsPost(list[i])
            <6>1. IsPost(list[j]) /\ IndexOf(t, list[i]) = IndexOf(t, list[j])
              BY <1>6, <4>4, <5>1, <5>2, <5>3
            <6>2. list[i] = list[j]
              BY <3>2, <3>4, <5>3, <6>1
            <6> QED
              BY <5>1, <5>2, <6>2
          <5>4. CASE ~IsPost(list[i])
            <6>1. ~IsPost(list[j])
              BY <1>6, <4>4, <5>1, <5>2, <5>4
            <6>2. i = j
              BY <1>12, <2>3, <5>4, <6>1
            <6> QED
              BY <5>1, <5>2, <6>2
          <5> QED
            BY <5>3, <5>4
        <4> QED
          BY <4>1, <4>2, <4>3, <4>4 DEF Swaps, MadeBy
      <3>9. Matches(rels, keys, s, t)
        <4>1. Of(keys, s, t) = {}
          BY <1>12, <2>3 DEF Of
        <4>2. Indexes(rels, s, t) = {} /\ Uniques(rels, s, t) = {}
          BY <3>2 DEF Indexes, Uniques
        <4> QED
          BY <4>1, <4>2 DEF Matches, Standing
      <3> HIDE DEF M, unique
      <3>10. Agree(result.rels, (keys \ {}) \cup New, s, t)
        BY <1>4, <3>2, <3>3, <3>7, <3>8, <3>9, AgreeAfter
      <3>11. (keys \ {}) \cup New = keys' /\ result.rels = rels'
        BY <1>1, <3>1
      <3> QED
        BY <1>9, <2>3, <3>10, <3>11
    <2> QED
      BY <2>1, <2>2, <2>3
  <1>15. Kept(rels')
    BY <1>1, <1>5
  <1> QED
    BY <1>10, <1>11, <1>13, <1>14, <1>15 DEF IndexInv

LEMMA AlterStep ==
  ASSUME IndexInv, NEW s \in Schema, NEW t \in TableName, NEW ops \in Changes,
         NEW prepared \in BOOLEAN, AlterTable(s, t, ops, prepared)
  PROVE  IndexInv'
  <1> DEFINE text   == AlterText(s, t, ops)
             result == RunText(text, prepared)
             adds   == {i \in DOMAIN ops : ops[i].op = "add"}
             drops  == DOMAIN ops \ adds
             Gone   == {k \in keys : \E i \in drops : /\ k.schema = s /\ k.table = t
                                                      /\ k.name = KeyName(ops[i].key)}
             New    == {Key(s, t, ops[i].key, ~ops[i].key.unique, result) : i \in adds}
  <1>1. /\ Table(s, t) \in tables
        /\ NamesFit(s, t, [i \in adds |-> ops[i].key], {ops[i].key.name : i \in drops})
        /\ Careful => \A i \in drops : /\ KnownDrop(s, t, ops[i].key.name)
                                      /\ \A j \in drops : i # j => ops[i].key.name # ops[j].key.name
        /\ rels' = result.rels
        /\ keys' = IF result.ok
                   THEN {k \in keys : ~\E i \in drops : k.schema = s /\ k.table = t
                                                         /\ k.name = KeyName(ops[i].key)}
                          \cup New
                   ELSE keys
        /\ loose' = IF rels # result.rels /\ ~result.ok THEN loose \cup {Table(s, t)} ELSE loose
        /\ tables' = tables
    BY Zenon DEF AlterTable, Answer
  <1>2. \A i \in DOMAIN ops : /\ ops[i].op \in {"add", "drop"} /\ ops[i].key.unique \in BOOLEAN
                              /\ ops[i].op = "drop" => KeyName(ops[i].key) = ops[i].key.name
    BY IndexAssumption DEF KeyName, IsKey
  <1>3. NewAdds(s, t, ops)
    <2> DEFINE list == [i \in adds |-> ops[i].key]
    <2>1. /\ \A i \in DOMAIN list :
               KeyName(list[i]) \notin {k.name : k \in KeysIn(s, t)} \ {ops[d].key.name : d \in drops}
          /\ \A i, j \in DOMAIN list : i # j => KeyName(list[i]) # KeyName(list[j])
      BY Zenon, <1>1 DEF NamesFit
    <2>2. DOMAIN list = adds /\ \A i \in adds : list[i] = ops[i].key
      OBVIOUS
    <2> HIDE DEF list
    <2>3. \A i \in drops : i \in DOMAIN ops /\ ops[i].op = "drop"
      BY <1>2
    <2>4. ASSUME NEW i \in adds, NEW k \in KeysIn(s, t), k.name = KeyName(ops[i].key)
          PROVE  \E j \in drops : ops[j].key.name = k.name
      BY <2>1, <2>2, <2>4
    <2>5. \A i, j \in adds : i # j => KeyName(ops[i].key) # KeyName(ops[j].key)
      BY <2>1, <2>2
    <2>6. \A i \in DOMAIN ops : ops[i].op = "add" => i \in adds
      OBVIOUS
    <2> HIDE DEF adds, drops
    <2> QED
      BY Zenon, <2>3, <2>4, <2>5, <2>6 DEF NewAdds
  <1>4. Careful => CarefulDrops(s, t, ops)
    <2>1. \A i \in DOMAIN ops : i \in drops <=> ops[i].op = "drop"
      BY <1>2
    <2> HIDE DEF drops
    <2> QED
      BY <1>1, <2>1 DEF CarefulDrops
  <1>5. Kept(rels) /\ KeysApart(keys)
    BY DEF IndexInv
  <1>6. Careful => IsInjective(ops) /\ About(text, s, t) /\ InOrder(text)
    BY <1>1, <1>3, <1>4, AlterIsAbout
  <1>7. result.ok \in BOOLEAN /\ Kept(result.rels)
    <2>1. text \in Seq(Range(text))
      BY Zenon, AlterTextIs
    <2>2. \A i \in DOMAIN text : Piece(text[i])
      BY Zenon, AlterPieces DEF AlterPiece
    <2> HIDE DEF text
    <2> QED
      BY Zenon, <1>5, <2>1, <2>2, RunTextIs
  <1>8. Careful => Others(result.rels, s, t) = Others(rels, s, t)
    <2> HIDE DEF text
    <2> QED
      BY <1>5, <1>6, TextKeeps
  <1>9. ASSUME NEW i \in adds
        PROVE  LET k == Key(s, t, ops[i].key, ~ops[i].key.unique, result)
               IN  /\ k.schema = s /\ k.table = t /\ k.name = KeyName(ops[i].key) /\ KeyShaped(k)
                   /\ ~ops[i].key.unique => k.kind = "index" /\ k.index = IndexOf(t, ops[i].key)
                   /\ ops[i].key.unique => k.kind = "constraint" /\ k.index = ConstraintName(result)
    <2>1. (~ops[i].key.unique) \in BOOLEAN
      OBVIOUS
    <2> HIDE DEF result
    <2>2. KeyAs(Key(s, t, ops[i].key, ~ops[i].key.unique, result), s, t, ops[i].key,
                ~ops[i].key.unique, result)
      BY Zenon, <2>1, KeyIs
    <2> QED
      BY Zenon, <2>2 DEF KeyAs
  <1>10. result.ok => keys' = (keys \ Gone) \cup New
    <2>1. {k \in keys : ~\E i \in drops : k.schema = s /\ k.table = t
                                          /\ k.name = KeyName(ops[i].key)} = keys \ Gone
      OBVIOUS
    <2> HIDE DEF New, Gone, result, drops
    <2> QED
      BY <1>1, <2>1
  <1>11. \A k \in New : k.schema = s /\ k.table = t /\ KeyShaped(k)
    BY <1>9 DEF New
  <1>12. \A k : k.schema # s \/ k.table # t => (k \in keys' <=> k \in keys)
    <2>1. \A k \in Gone : k.schema = s /\ k.table = t
      OBVIOUS
    <2>2. ~result.ok => keys' = keys
      BY <1>1
    <2> HIDE DEF New, Gone, result
    <2> QED
      BY <1>7, <1>10, <1>11, <2>1, <2>2
  <1>13. Table(s, t) \in [schema : Schema, table : TableName]
         /\ Table(s, t).schema = s /\ Table(s, t).table = t
    BY DEF Table
  <1> HIDE DEF text, result, New, Gone
  <1>14. tables' \subseteq [schema : Schema, table : TableName]
         /\ loose' \subseteq [schema : Schema, table : TableName]
    BY <1>1, <1>13 DEF IndexInv
  <1>15. \A k \in keys' : KeyShaped(k) /\ Table(k.schema, k.table) \in tables'
    <2>1. CASE result.ok
      BY <1>1, <1>10, <1>11, <2>1 DEF IndexInv
    <2>2. CASE ~result.ok
      BY <1>1, <2>2 DEF IndexInv
    <2> QED
      BY <2>1, <2>2
  <1>16. KeysApart(keys')
    <2>1. CASE ~result.ok
      BY <1>1, <1>5, <2>1
    <2>2. CASE result.ok
      <3>1. ASSUME NEW k \in New, NEW l \in New, k.name = l.name PROVE k = l
        <4>1. PICK i \in adds : k = Key(s, t, ops[i].key, ~ops[i].key.unique, result)
          BY DEF New
        <4>2. PICK j \in adds : l = Key(s, t, ops[j].key, ~ops[j].key.unique, result)
          BY DEF New
        <4>3. i = j
          BY <1>3, <1>9, <3>1, <4>1, <4>2 DEF NewAdds
        <4> QED
          BY <4>1, <4>2, <4>3
      <3>2. ASSUME NEW k \in New, NEW l \in keys \ Gone, l.schema = s, l.table = t, k.name = l.name
            PROVE  FALSE
        <4>1. PICK i \in adds : k = Key(s, t, ops[i].key, ~ops[i].key.unique, result)
          BY DEF New
        <4>2. l \in KeysIn(s, t) /\ l.name = KeyName(ops[i].key)
          BY <1>9, <3>2, <4>1 DEF KeysIn
        <4>3. PICK j \in DOMAIN ops : ops[j].op = "drop" /\ ops[j].key.name = l.name
          BY <1>3, <4>2 DEF NewAdds
        <4>4. j \in drops /\ l.name = KeyName(ops[j].key)
          BY <1>2, <4>3
        <4>5. l \in Gone
          BY <3>2, <4>4 DEF Gone
        <4> QED
          BY <3>2, <4>5
      <3>3. ASSUME NEW k \in keys', NEW l \in keys',
                   k.schema = l.schema, k.table = l.table, k.name = l.name
            PROVE  k = l
        <4>1. (k \in keys \ Gone \/ k \in New) /\ (l \in keys \ Gone \/ l \in New)
          BY <1>10, <2>2
        <4>2. CASE k \in keys \ Gone /\ l \in keys \ Gone
          BY <1>5, <3>3, <4>2 DEF KeysApart
        <4>3. CASE k \in New /\ l \in New
          BY <3>1, <3>3, <4>3
        <4>4. CASE k \in New /\ l \in keys \ Gone
          BY <1>11, <3>2, <3>3, <4>4
        <4>5. CASE k \in keys \ Gone /\ l \in New
          BY <1>11, <3>2, <3>3, <4>5
        <4> QED
          BY Zenon, <4>1, <4>2, <4>3, <4>4, <4>5
      <3> QED
        BY Zenon, <3>3 DEF KeysApart
    <2> QED
      BY <2>1, <2>2
  <1>17. ASSUME Careful, NEW x \in tables' \ loose' PROVE Agree(rels', keys', x.schema, x.table)
    <2>1. CASE x # Table(s, t)
      <3>1. x \in tables \ loose
        BY <1>1, <2>1
      <3>2. Others(rels', s, t) = Others(rels, s, t)
        BY <1>1, <1>8, <1>17
      <3> QED
        BY <1>12, <1>17, <2>1, <3>1, <3>2, ElsewhereStep
    <2>2. CASE x = Table(s, t) /\ ~result.ok
      <3>1. rels' = rels /\ keys' = keys /\ x \in tables \ loose
        BY <1>1, <2>2
      <3> QED
        BY <1>17, <3>1 DEF IndexInv
    <2>3. CASE x = Table(s, t) /\ result.ok
      <3> DEFINE M == AddedBy(t, ops)
                 D == DroppedBy(t, ops)
                 unique == UniqueOps(ops) # {}
                 name == ConstraintName(result)
      <3>1. Agree(rels, keys, s, t)
        <4>1. x \in tables \ loose
          BY <1>1, <2>3
        <4>2. Agree(rels, keys, x.schema, x.table)
          BY <1>17, <4>1 DEF IndexInv
        <4> QED
          BY <1>13, <2>3, <4>2
      <3>2. Matches(rels, keys, s, t) /\ TableRel(s, t) \in rels
        <4>1. TableRel(s, t) \in rels
          BY <3>1 DEF Agree
        <4> QED
          BY <1>5, <3>1, <4>1, AgreeMatches
      <3>3. /\ Serves(result.rels, s, t, M, D, unique)
            /\ \A o, p \in AddedOps(ops) : IndexOf(t, o.key) = IndexOf(t, p.key) => o = p
            /\ \A o, p \in UniqueOps(ops) : o = p
        <4>1. text = AlterText(s, t, ops) /\ result = RunText(text, prepared)
          BY DEF text, result
        <4> QED
          BY <1>5, <1>6, <1>17, <2>3, <3>2, <4>1, AlterServes
      <3>4. \A i \in adds : /\ ~ops[i].key.unique => ops[i] \in AddedOps(ops)
                            /\ ops[i].key.unique => ops[i] \in UniqueOps(ops)
        BY DEF AddedOps, UniqueOps, Range
      <3>5. /\ \A o \in AddedOps(ops) : \E i \in adds : o = ops[i] /\ ~ops[i].key.unique
            /\ \A o \in UniqueOps(ops) : \E i \in adds : o = ops[i] /\ ops[i].key.unique
        BY DEF AddedOps, UniqueOps, Range
      <3>6. unique => \A c \in Uniques(result.rels, s, t) \ rels : c.name = name
        <4>1. ASSUME unique, NEW c \in Uniques(result.rels, s, t) \ rels PROVE c.name = name
          <5>1. Others(result.rels, s, t) = Others(rels, s, t)
            BY <3>3 DEF Serves
          <5>2. PICK d \in Uniques(result.rels, s, t) :
                  /\ Uniques(result.rels, s, t) = Uniques(rels, s, t) \cup {d}
                  /\ d \notin rels
            BY <3>3, <4>1 DEF Serves
          <5> QED
            BY <5>1, <5>2, StandIs
        <4> QED
          BY <4>1
      <3> HIDE DEF name
      <3>7. \A i \in drops : /\ ops[i] \in DroppedOps(ops)
                             /\ \E k \in KeysIn(s, t) :
                                  /\ k.name = ops[i].key.name /\ k.kind = "index"
                                  /\ k.index = PrefixedIndexName(t, ops[i].key.name, <<"idx">>)
        <4>1. ASSUME NEW i \in drops
              PROVE  \E k \in KeysIn(s, t) :
                       /\ k.name = ops[i].key.name /\ k.kind = "index"
                       /\ k.index = PrefixedIndexName(t, ops[i].key.name, <<"idx">>)
          BY Zenon, <1>1, <1>17 DEF KnownDrop
        <4>2. \A i \in drops : ops[i] \in DroppedOps(ops)
          BY <1>2 DEF DroppedOps, Range
        <4> QED
          BY Zenon, <4>1, <4>2
      <3>8. \A o \in DroppedOps(ops) : \E i \in drops : o = ops[i]
        BY DEF DroppedOps, Range
      <3>9. Swaps(Gone, New, s, t, M, D, unique, name)
        <4>1. ASSUME NEW k \in New
              PROVE  /\ k.schema = s /\ k.table = t
                     /\ \/ k.kind = "index" /\ k.index \in M
                        \/ k.kind = "constraint" /\ k.index = name /\ unique
          <5>1. PICK i \in adds : k = Key(s, t, ops[i].key, ~ops[i].key.unique, result)
            BY DEF New
          <5>2. CASE ~ops[i].key.unique
            BY <1>9, <3>4, <5>1, <5>2 DEF AddedBy
          <5>3. CASE ops[i].key.unique
            BY <1>9, <3>4, <5>1, <5>3 DEF name
          <5> QED
            BY <5>2, <5>3
        <4>2. ASSUME NEW o \in AddedOps(ops)
              PROVE  \E k \in New : k.kind = "index" /\ k.index = IndexOf(t, o.key)
          <5>1. PICK i \in adds : o = ops[i] /\ ~ops[i].key.unique
            BY <3>5
          <5> DEFINE k == Key(s, t, ops[i].key, ~ops[i].key.unique, result)
          <5>2. k \in New
            BY DEF New
          <5> QED
            BY <1>9, <5>1, <5>2
        <4>3. ASSUME unique PROVE \E k \in New : k.kind = "constraint"
          <5>1. PICK i \in adds : ops[i].key.unique
            BY <3>5, <4>3
          <5> DEFINE k == Key(s, t, ops[i].key, ~ops[i].key.unique, result)
          <5>2. k \in New
            BY DEF New
          <5> QED
            BY <1>9, <5>1, <5>2
        <4>4. ASSUME NEW k \in New, NEW l \in New, k.kind = l.kind, k.index = l.index PROVE k = l
          <5>1. PICK i \in adds : k = Key(s, t, ops[i].key, ~ops[i].key.unique, result)
            BY DEF New
          <5>2. PICK j \in adds : l = Key(s, t, ops[j].key, ~ops[j].key.unique, result)
            BY DEF New
          <5>3. ops[i] = ops[j]
            <6>1. CASE ~ops[i].key.unique
              <7>1. ~ops[j].key.unique /\ IndexOf(t, ops[i].key) = IndexOf(t, ops[j].key)
                BY <1>9, <4>4, <5>1, <5>2, <6>1
              <7> QED
                BY <3>3, <3>4, <6>1, <7>1
            <6>2. CASE ops[i].key.unique
              <7>1. ops[j].key.unique
                BY <1>9, <4>4, <5>1, <5>2, <6>2
              <7> QED
                BY <3>3, <3>4, <6>2, <7>1
            <6> QED
              BY <6>1, <6>2
          <5> QED
            BY <5>1, <5>2, <5>3
        <4>5. ASSUME NEW k \in Gone PROVE k \in Of(keys, s, t) /\ k.kind = "index" /\ k.index \in D
          <5>1. PICK i \in drops : /\ k \in keys /\ k.schema = s /\ k.table = t
                                   /\ k.name = KeyName(ops[i].key)
            BY DEF Gone
          <5>2. PICK l \in KeysIn(s, t) :
                  /\ l.name = ops[i].key.name /\ l.kind = "index"
                  /\ l.index = PrefixedIndexName(t, ops[i].key.name, <<"idx">>)
            BY <3>7
          <5>3. k = l
            BY <1>2, <1>5, <5>1, <5>2 DEF KeysApart, KeysIn
          <5> QED
            BY <3>7, <5>1, <5>2, <5>3 DEF Of, DroppedBy
        <4>6. ASSUME NEW n \in D PROVE \E k \in Gone : k.index = n
          <5>1. PICK o \in DroppedOps(ops) : n = PrefixedIndexName(t, o.key.name, <<"idx">>)
            BY DEF DroppedBy
          <5>2. PICK i \in drops : o = ops[i]
            BY <3>8
          <5>3. PICK k \in KeysIn(s, t) : /\ k.name = ops[i].key.name /\ k.index = n
            BY <3>7, <5>1, <5>2
          <5>4. k \in Gone
            BY <1>2, <5>3 DEF Gone, KeysIn
          <5> QED
            BY <5>3, <5>4
        <4>7. \A n \in M : \E k \in New : k.kind = "index" /\ k.index = n
          BY <4>2 DEF AddedBy
        <4> QED
          BY <4>1, <4>3, <4>4, <4>5, <4>6, <4>7 DEF Swaps
      <3>10. unique \in BOOLEAN
        OBVIOUS
      <3> HIDE DEF M, D, unique
      <3>11. Agree(result.rels, (keys \ Gone) \cup New, s, t)
        BY <1>5, <3>2, <3>3, <3>6, <3>9, <3>10, AgreeAfter
      <3> QED
        BY <1>1, <1>10, <1>13, <2>3, <3>11
    <2> QED
      BY <1>7, <2>1, <2>2, <2>3
  <1>18. Kept(rels')
    BY <1>1, <1>7
  <1> QED
    BY <1>14, <1>15, <1>16, <1>17, <1>18 DEF IndexInv

LEMMA DropStep ==
  ASSUME IndexInv, NEW s \in Schema, NEW t \in TableName, DropTable(s, t)
  PROVE  IndexInv'
  <1>1. /\ rels' = Others(rels, s, t)
        /\ tables' = tables \ {Table(s, t)} /\ loose' = loose \ {Table(s, t)}
        /\ keys' = keys \ KeysIn(s, t)
    BY DEF DropTable, Others
  <1>2. Kept(rels')
    <2>1. rels' \subseteq rels /\ IsFiniteSet(rels')
      BY <1>1, FS_Subset DEF IndexInv, Kept, Others
    <2>2. \A r \in rels' : TableRel(r.schema, r.on) \in rels'
      <3>1. ASSUME NEW r \in rels'
            PROVE  TableRel(r.schema, r.on).schema = r.schema /\ TableRel(r.schema, r.on).on = r.on
        BY DEF TableRel, Relation
      <3> QED
        BY <1>1, <3>1 DEF Others, IndexInv, Kept, OnTables
    <2> QED
      BY <2>1, <2>2 DEF IndexInv, Kept, OneEach, OnTables
  <1>3. \A k \in keys' : KeyShaped(k) /\ Table(k.schema, k.table) \in tables'
    BY <1>1 DEF IndexInv, KeysIn, Table
  <1>4. KeysApart(keys')
    BY <1>1 DEF IndexInv, KeysApart
  <1>5. ASSUME Careful, NEW x \in tables' \ loose' PROVE Agree(rels', keys', x.schema, x.table)
    <2>1. x \in tables \ loose /\ x # Table(s, t)
      BY <1>1
    <2>2. Others(rels', s, t) = Others(rels, s, t)
      BY <1>1 DEF Others
    <2>3. \A k : k.schema # s \/ k.table # t => (k \in keys' <=> k \in keys)
      BY <1>1 DEF KeysIn
    <2> QED
      BY <1>5, <2>1, <2>2, <2>3, ElsewhereStep
  <1> QED
    BY <1>1, <1>2, <1>3, <1>4, <1>5 DEF IndexInv

\* A key and a relation of a table that was renamed.
LEMMA MovedKey ==
  ASSUME NEW k, KeyShaped(k), NEW u, NEW m, m = [k EXCEPT !.table = u]
  PROVE  /\ m.schema = k.schema /\ m.table = u /\ m.name = k.name /\ m.kind = k.kind
         /\ m.index = k.index /\ KeyShaped(m)
  <1>1. PICK a, b, c, d, e : k = [schema |-> a, table |-> b, name |-> c, kind |-> d, index |-> e]
    BY Zenon DEF KeyShaped
  <1>2. m = [schema |-> a, table |-> u, name |-> c, kind |-> d, index |-> e]
    BY <1>1
  <1> QED
    BY <1>1, <1>2 DEF KeyShaped

LEMMA MovedRelation ==
  ASSUME NEW r, Shaped(r), r.kind # "table", NEW u, NEW m, m = [r EXCEPT !.on = u]
  PROVE  m.schema = r.schema /\ m.name = r.name /\ m.kind = r.kind /\ m.on = u /\ Shaped(m)
  <1>1. PICK a, b, c, d : r = [schema |-> a, name |-> b, kind |-> c, on |-> d]
    BY Zenon DEF Shaped, Relation
  <1>2. m = [schema |-> a, name |-> b, kind |-> c, on |-> u]
    BY <1>1
  <1> QED
    BY <1>1, <1>2 DEF Shaped, Relation

LEMMA RenameStep ==
  ASSUME IndexInv, NEW s \in Schema, NEW t \in TableName, NEW u \in TableName,
         RenameTable(s, t, u), ~Taken(rels, s, u)
  PROVE  IndexInv'
  <1> DEFINE F(r) == IF r.schema # s \/ r.on # t THEN r
                     ELSE IF r.kind = "table" THEN TableRel(s, u) ELSE [r EXCEPT !.on = u]
             G(k) == IF k \in KeysIn(s, t) THEN [k EXCEPT !.table = u] ELSE k
  <1>1. /\ Table(s, t) \in tables /\ Table(s, u) \notin tables
        /\ rels' = {F(r) : r \in rels}
        /\ tables' = (tables \ {Table(s, t)}) \cup {Table(s, u)}
        /\ keys' = {G(k) : k \in keys}
        /\ loose' = {IF x = Table(s, t) THEN Table(s, u) ELSE x : x \in loose}
    BY DEF RenameTable
  <1>2. Kept(rels) /\ KeysApart(keys)
        /\ \A k \in keys : KeyShaped(k) /\ Table(k.schema, k.table) \in tables
    BY DEF IndexInv
  <1>3. TableRel(s, u) = Relation(s, u, "table", u) /\ Shaped(TableRel(s, u))
        /\ TableRel(s, u).schema = s /\ TableRel(s, u).name = u /\ TableRel(s, u).kind = "table"
        /\ TableRel(s, u).on = u
    BY DEF TableRel, Relation, Shaped
  <1>4. ASSUME NEW r \in rels
        PROVE  /\ Shaped(F(r)) /\ F(r).schema = r.schema /\ F(r).kind = r.kind
               /\ r.schema # s \/ r.on # t => F(r) = r
               /\ r.schema = s /\ r.on = t => F(r).on = u
               /\ r.schema = s /\ r.on = t /\ r.kind = "table" => F(r) = TableRel(s, u) /\ r.name = t
               /\ r.schema = s /\ r.on = t /\ r.kind # "table" => F(r).name = r.name
    <2>1. Shaped(r)
      BY <1>2 DEF Kept
    <2>2. CASE r.schema # s \/ r.on # t
      BY <2>1, <2>2
    <2>3. CASE r.schema = s /\ r.on = t /\ r.kind = "table"
      <3>1. F(r) = TableRel(s, u)
        BY <2>3
      <3> HIDE DEF F
      <3> QED
        BY <1>3, <2>1, <2>3, <3>1 DEF Shaped
    <2>4. CASE r.schema = s /\ r.on = t /\ r.kind # "table"
      <3>1. F(r) = [r EXCEPT !.on = u]
        BY Zenon, <2>4
      <3> HIDE DEF F
      <3> QED
        BY <2>1, <2>4, <3>1, MovedRelation
    <2> QED
      BY <2>2, <2>3, <2>4
  <1>5. ASSUME NEW k \in keys
        PROVE  /\ KeyShaped(G(k)) /\ G(k).schema = k.schema /\ G(k).name = k.name
               /\ G(k).kind = k.kind /\ G(k).index = k.index
               /\ k.schema = s /\ k.table = t => G(k).table = u
               /\ k.schema # s \/ k.table # t => G(k) = k
    <2>1. KeyShaped(k)
      BY <1>2
    <2>2. CASE k \in KeysIn(s, t)
      <3>1. G(k) = [k EXCEPT !.table = u]
        BY Zenon, <2>2
      <3> HIDE DEF G
      <3> QED
        BY <2>1, <2>2, <3>1, MovedKey DEF KeysIn
    <2>3. CASE k \notin KeysIn(s, t)
      <3>1. G(k) = k
        BY Zenon, <2>3
      <3> HIDE DEF G
      <3> QED
        BY <2>1, <2>3, <3>1 DEF KeysIn
    <2> QED
      BY <2>2, <2>3
  <1> HIDE DEF F, G
  <1>6. Table(s, t) # Table(s, u) /\ t # u
    BY <1>1
  \* Nothing was on the new name.
  <1>7. /\ \A r \in rels : r.schema # s \/ r.on # u
        /\ \A r \in rels : r.schema # s \/ r.name # u
        /\ \A k \in keys : k.schema # s \/ k.table # u
    <2>1. \A r \in rels : r.schema # s \/ r.name # u
      BY DEF Taken
    <2>2. ASSUME NEW r \in rels, r.schema = s, r.on = u PROVE FALSE
      <3>1. TableRel(s, u) \in rels
        BY <1>2, <2>2 DEF Kept, OnTables
      <3> QED
        BY <1>3, <2>1, <3>1
    <2>3. \A k \in keys : k.schema # s \/ k.table # u
      BY <1>1, <1>2
    <2> QED
      BY <2>1, <2>2, <2>3
  <1>8. Kept(rels')
    <2>1. IsFiniteSet(rels')
      <3>1. IsFiniteSet(rels)
        BY <1>2 DEF Kept
      <3>2. IsFiniteSet({F(r) : r \in rels})
        <4> DEFINE f == [r \in rels |-> F(r)]
        <4>1. f \in Surjection(rels, {F(r) : r \in rels})
          BY DEF Surjection
        <4> HIDE DEF f
        <4> QED
          BY <3>1, <4>1, FS_Surjection
      <3> QED
        BY <1>1, <3>2
    <2>2. \A r \in rels' : Shaped(r)
      BY <1>1, <1>4
    <2>3. OneEach(rels')
      <3>1. ASSUME NEW r \in rels, NEW q \in rels, F(r).schema = F(q).schema, F(r).name = F(q).name
            PROVE  F(r) = F(q)
        <4>1. CASE r.schema = s /\ r.on = t /\ r.kind = "table"
          <5>1. F(r) = TableRel(s, u) /\ F(q).schema = s /\ F(q).name = u /\ q.schema = s
            BY <1>3, <1>4, <3>1, <4>1
          <5>2. q.name # u
            BY <1>7, <5>1
          <5> QED
            BY <1>4, <5>1, <5>2
        <4>2. CASE q.schema = s /\ q.on = t /\ q.kind = "table"
          <5>1. F(q) = TableRel(s, u) /\ F(r).schema = s /\ F(r).name = u /\ r.schema = s
            BY <1>3, <1>4, <3>1, <4>2
          <5>2. r.name # u
            BY <1>7, <5>1
          <5> QED
            BY <1>4, <5>1, <5>2
        <4>3. CASE ~(r.schema = s /\ r.on = t /\ r.kind = "table")
                   /\ ~(q.schema = s /\ q.on = t /\ q.kind = "table")
          <5>1. F(r).name = r.name /\ F(q).name = q.name /\ r.schema = q.schema
            BY <1>4, <3>1, <4>3
          <5>2. r = q
            BY <1>2, <3>1, <5>1 DEF Kept, OneEach
          <5> QED
            BY <5>2
        <4> QED
          BY <4>1, <4>2, <4>3
      <3> QED
        BY <1>1, <3>1 DEF OneEach
    <2>4. OnTables(rels')
      <3>1. ASSUME NEW r \in rels PROVE TableRel(F(r).schema, F(r).on) \in rels'
        <4> DEFINE q == TableRel(r.schema, r.on)
        <4>1. q \in rels
          BY <1>2 DEF Kept, OnTables
        <4>2. q.schema = r.schema /\ q.on = r.on /\ q.kind = "table"
          BY DEF TableRel, Relation
        <4> HIDE DEF q
        <4>3. F(q) \in rels'
          BY <1>1, <4>1
        <4>4. CASE r.schema # s \/ r.on # t
          BY <1>4, <4>1, <4>2, <4>3, <4>4 DEF q
        <4>5. CASE r.schema = s /\ r.on = t
          BY <1>4, <4>1, <4>2, <4>3, <4>5
        <4> QED
          BY <4>4, <4>5
      <3> QED
        BY <1>1, <3>1 DEF OnTables
    <2> QED
      BY <2>1, <2>2, <2>3, <2>4 DEF Kept
  <1>9. tables' \subseteq [schema : Schema, table : TableName]
        /\ loose' \subseteq [schema : Schema, table : TableName]
    <2>1. Table(s, u) \in [schema : Schema, table : TableName]
      BY DEF Table
    <2> QED
      BY <1>1, <2>1 DEF IndexInv
  <1>10. \A k \in keys' : KeyShaped(k) /\ Table(k.schema, k.table) \in tables'
    <2>1. ASSUME NEW k \in keys PROVE KeyShaped(G(k)) /\ Table(G(k).schema, G(k).table) \in tables'
      <3>1. CASE k.schema = s /\ k.table = t
        BY <1>1, <1>5, <3>1
      <3>2. CASE k.schema # s \/ k.table # t
        <4>1. Table(k.schema, k.table) # Table(s, t)
          BY <3>2 DEF Table
        <4> QED
          BY <1>1, <1>2, <1>5, <3>2, <4>1
      <3> QED
        BY <3>1, <3>2
    <2> QED
      BY <1>1, <2>1
  <1>11. ASSUME NEW k \in keys, NEW l \in keys, G(k).schema = G(l).schema, G(k).table = G(l).table
         PROVE  k.schema = l.schema /\ k.table = l.table
    BY <1>5, <1>6, <1>7, <1>11
  <1>12. KeysApart(keys')
    <2>1. ASSUME NEW k \in keys, NEW l \in keys, G(k).schema = G(l).schema,
                 G(k).table = G(l).table, G(k).name = G(l).name
          PROVE  k = l
      BY <1>2, <1>5, <1>11, <2>1 DEF KeysApart
    <2> QED
      BY <1>1, <2>1 DEF KeysApart
  <1>13. ASSUME Careful, NEW x \in tables' \ loose' PROVE Agree(rels', keys', x.schema, x.table)
    <2>1. CASE x = Table(s, u)
      <3>1. Table(s, t) \in tables \ loose /\ x.schema = s /\ x.table = u
        BY <1>1, <1>13, <2>1 DEF Table
      <3>2. Agree(rels, keys, s, t)
        <4>1. Table(s, t).schema = s /\ Table(s, t).table = t
          BY DEF Table
        <4>2. Agree(rels, keys, Table(s, t).schema, Table(s, t).table)
          BY Zenon, <1>13, <3>1 DEF IndexInv
        <4> QED
          BY Zenon, <4>1, <4>2
      <3>3. TableRel(s, u) \in rels'
        <4>1. TableRel(s, t) \in rels /\ F(TableRel(s, t)) \in rels'
          BY <1>1, <3>2 DEF Agree
        <4>2. TableRel(s, t).schema = s /\ TableRel(s, t).on = t /\ TableRel(s, t).kind = "table"
          BY DEF TableRel, Relation
        <4> QED
          BY <1>4, <4>1, <4>2
      <3>4. \A k \in keys : G(k) \in Of(keys', s, u) <=> k \in Of(keys, s, t)
        BY <1>1, <1>5, <1>7 DEF Of
      <3>5. \A m \in Of(keys', s, u) : \E k \in Of(keys, s, t) : m = G(k)
        BY <1>1, <3>4 DEF Of
      <3>6. {<<k.kind, k.index>> : k \in Of(keys', s, u)} = {<<k.kind, k.index>> : k \in Of(keys, s, t)}
        <4>1. ASSUME NEW m \in Of(keys', s, u)
              PROVE  \E k \in Of(keys, s, t) : m.kind = k.kind /\ m.index = k.index
          BY <1>5, <3>5 DEF Of
        <4>2. ASSUME NEW k \in Of(keys, s, t)
              PROVE  \E m \in Of(keys', s, u) : m.kind = k.kind /\ m.index = k.index
          BY <1>5, <3>4 DEF Of
        <4> QED
          BY <4>1, <4>2
      <3>7. \A k, l \in Of(keys', s, u) : k.index = l.index => k = l
        <4>1. \A k, l \in Of(keys, s, t) : k.index = l.index => k = l
          BY <3>2 DEF Agree
        <4>2. \A k \in Of(keys, s, t) : G(k).index = k.index
          BY <1>5 DEF Of
        <4> QED
          BY <3>5, <4>1, <4>2
      <3>8. Pairs(rels', s, u) = Pairs(rels, s, t)
        <4>1. ASSUME NEW q \in rels', q.schema = s, q.on = u, q.kind # "table"
              PROVE  \E r \in rels : /\ r.schema = s /\ r.on = t /\ r.kind # "table"
                                     /\ q.kind = r.kind /\ q.name = r.name
          <5>1. PICK r \in rels : q = F(r)
            BY <1>1
          <5>2. r.schema = s /\ r.on = t
            BY <1>4, <1>7, <4>1, <5>1
          <5> QED
            BY <1>4, <4>1, <5>1, <5>2
        <4>2. ASSUME NEW r \in rels, r.schema = s, r.on = t, r.kind # "table"
              PROVE  \E q \in rels' : /\ q.schema = s /\ q.on = u /\ q.kind # "table"
                                      /\ q.kind = r.kind /\ q.name = r.name
          <5>1. F(r) \in rels'
            BY <1>1
          <5> QED
            BY <1>4, <4>2, <5>1
        <4> QED
          BY <4>1, <4>2 DEF Pairs
      <3>9. Agree(rels', keys', s, u)
        <4>1. {<<k.kind, k.index>> : k \in Of(keys, s, t)} = Pairs(rels, s, t)
          BY <3>2 DEF Agree
        <4> QED
          BY Zenon, <3>3, <3>6, <3>7, <3>8, <4>1 DEF Agree
      <3> QED
        BY <3>1, <3>9
    <2>2. CASE x # Table(s, u)
      <3>1. x \in tables \ loose /\ x # Table(s, t)
        BY <1>1, <1>13, <2>2
      <3>2. Agree(rels, keys, x.schema, x.table) /\ x \in [schema : Schema, table : TableName]
        BY <1>13, <3>1 DEF IndexInv
      <3>3. (x.schema # s \/ x.table # t) /\ (x.schema # s \/ x.table # u)
        BY <2>2, <3>1, <3>2, TablesApart
      <3>4. Of(keys', x.schema, x.table) = Of(keys, x.schema, x.table)
        <4>1. ASSUME NEW k \in keys
              PROVE  /\ k \in Of(keys, x.schema, x.table) => G(k) = k
                     /\ G(k) \in Of(keys', x.schema, x.table) => G(k) = k
          BY <1>5, <3>3 DEF Of
        <4> QED
          BY <1>1, <4>1 DEF Of
      <3>5. \A r : r.schema = x.schema /\ r.on = x.table => (r \in rels' <=> r \in rels)
        <4>1. ASSUME NEW r \in rels
              PROVE  /\ r.schema = x.schema /\ r.on = x.table => F(r) = r
                     /\ F(r).schema = x.schema /\ F(r).on = x.table => F(r) = r
          BY <1>4, <3>3
        <4> QED
          BY <1>1, <4>1
      <3>6. Pairs(rels', x.schema, x.table) = Pairs(rels, x.schema, x.table)
        <4>1. {q \in rels' : q.schema = x.schema /\ q.on = x.table /\ q.kind # "table"}
                = {q \in rels : q.schema = x.schema /\ q.on = x.table /\ q.kind # "table"}
          BY <3>5
        <4> QED
          BY Zenon, <4>1 DEF Pairs
      <3>7. TableRel(x.schema, x.table) \in rels'
        <4>1. TableRel(x.schema, x.table).schema = x.schema /\ TableRel(x.schema, x.table).on = x.table
          BY DEF TableRel, Relation
        <4> QED
          BY <3>2, <3>5, <4>1 DEF Agree
      <3> QED
        BY Zenon, <3>2, <3>4, <3>6, <3>7 DEF Agree
    <2> QED
      BY <2>1, <2>2
  <1> QED
    BY <1>8, <1>9, <1>10, <1>12, <1>13 DEF IndexInv

LEMMA IndexInitially == IndexInit => IndexInv
  <1> SUFFICES ASSUME IndexInit PROVE IndexInv
    OBVIOUS
  <1>1. Kept(rels)
    BY FS_EmptySet DEF IndexInit, Kept, OneEach, OnTables
  <1> QED
    BY <1>1 DEF IndexInit, IndexInv, KeysApart

LEMMA IndexStep == IndexInv /\ [IndexNext]_indexVars => IndexInv'
  <1> SUFFICES ASSUME IndexInv, [IndexNext]_indexVars PROVE IndexInv'
    OBVIOUS
  <1>1. ASSUME UNCHANGED <<rels, tables, keys, loose>> PROVE IndexInv'
    BY <1>1 DEF IndexInv
  <1>2. CASE UNCHANGED indexVars
    BY <1>1, <1>2 DEF indexVars
  <1>3. ASSUME NEW s \in Schema, Use(s) PROVE IndexInv'
    BY <1>1, <1>3 DEF Use
  <1>4. ASSUME NEW s \in Schema, NEW t \in TableName, DropTable(s, t) PROVE IndexInv'
    BY <1>4, DropStep
  <1>5. ASSUME NEW s \in Schema, NEW t \in TableName, NEW u \in TableName, RenameTable(s, t, u)
        PROVE  IndexInv'
    <2>1. CASE Taken(rels, s, u)
      <3>1. UNCHANGED <<rels, tables, keys, loose>>
        BY Zenon, <1>5, <2>1 DEF RenameTable
      <3> QED
        BY <1>1, <3>1
    <2>2. CASE ~Taken(rels, s, u)
      BY <1>5, <2>2, RenameStep
    <2> QED
      BY <2>1, <2>2
  <1>6. ASSUME NEW op, NEW prepared, NotTranslated(op, prepared) PROVE IndexInv'
    BY <1>1, <1>6 DEF NotTranslated
  <1>7. ASSUME NEW s \in Schema, NEW t \in TableName, NEW prepared \in BOOLEAN, NEW list \in KeyLists
        PROVE  /\ CreateRefused(s, t, list, prepared) => IndexInv'
               /\ \A ifNotExists \in BOOLEAN :
                    CreateTable(s, t, list, ifNotExists, prepared) => IndexInv'
    <2>1. CreateRefused(s, t, list, prepared) => IndexInv'
      BY Zenon, <1>6 DEF CreateRefused
    <2>2. ASSUME NEW ifNotExists \in BOOLEAN, CreateTable(s, t, list, ifNotExists, prepared)
          PROVE  IndexInv'
      BY <2>2, CreateStep
    <2> QED
      BY Zenon, <2>1, <2>2
  <1>8. ASSUME NEW s \in Schema, NEW t \in TableName, NEW prepared \in BOOLEAN, NEW ops \in Changes
        PROVE  /\ AlterRefused(s, t, ops, prepared) => IndexInv'
               /\ AlterTable(s, t, ops, prepared) => IndexInv'
    <2>1. AlterRefused(s, t, ops, prepared) => IndexInv'
      BY Zenon, <1>6 DEF AlterRefused
    <2>2. AlterTable(s, t, ops, prepared) => IndexInv'
      BY AlterStep
    <2> QED
      BY <2>1, <2>2
  <1> QED
    BY Zenon, <1>2, <1>3, <1>4, <1>5, <1>7, <1>8 DEF IndexNext, StatementOn

-----------------------------------------------------------------------------
(* Theorems about indexes *)

\* The inductive invariant: PostgreSQL's relations have names of their own, and
\* for a careful client they are one to one with its keys, whatever the texts of
\* translate_create_table and translate_alter_table were and however they were run.
THEOREM IndexInvariant == IndexSpec => []IndexInv
  BY IndexInitially, IndexStep, PTL DEF IndexSpec

\* Type correctness: every index is on a table that is there, and no two relations
\* of a schema share a name.
THEOREM IndexTyped == IndexSpec => []IndexTypeOK
  <1>1. IndexInv => IndexTypeOK
    BY DEF IndexInv, IndexTypeOK, Kept, OneEach, OnTables
  <1> QED
    BY IndexInvariant, <1>1, PTL

\* The indexes PostgreSQL has on a careful client's table are the keys the client
\* knows of: however long its statements, no name that prefixed_index_name builds
\* for a key is that of another one.
THEOREM KeysHaveIndexes == Careful => (IndexSpec => []IndexesAgree)
  <1> SUFFICES ASSUME Careful PROVE IndexSpec => []IndexesAgree
    OBVIOUS
  <1>1. IndexInv => IndexesAgree
    <2> SUFFICES ASSUME IndexInv, NEW x \in tables \ loose
                 PROVE  /\ TableRel(x.schema, x.table) \in rels
                        /\ {<<k.kind, k.index>> : k \in KeysIn(x.schema, x.table)}
                             = {<<r.kind, r.name>> :
                                  r \in {q \in rels : /\ q.schema = x.schema /\ q.on = x.table
                                                      /\ q.kind # "table"}}
      BY DEF IndexesAgree
    <2>1. Agree(rels, keys, x.schema, x.table)
      BY DEF IndexInv
    <2>2. KeysIn(x.schema, x.table) = Of(keys, x.schema, x.table)
      BY DEF KeysIn, Of
    <2> QED
      BY Zenon, <2>1, <2>2 DEF Agree, Pairs
  <1> QED
    BY IndexInvariant, <1>1, PTL

\* One drop is one statement.
LEMMA OneDropText ==
  ASSUME NEW s, NEW t, NEW o, o.op = "drop"
  PROVE  LET text == AlterText(s, t, <<o>>)
         IN  text = <<DropIndexText(s, t, o.key.name)>>
  <1> DEFINE ops    == <<o>>
             unique == {p \in Range(ops) : p.op = "add" /\ p.key.unique}
             inline == Those(ops, unique)
             later  == Those(ops, Range(ops) \ unique)
             alter  == PgStatement("add_constraint", s, t)
             first  == IF Len(inline) = 1 THEN <<WithConstraint(alter, inline[1].key)>>
                       ELSE <<[alter EXCEPT !.constraint = "refused"]>>
             rest   == [i \in DOMAIN later |-> IF later[i].op = "drop"
                                               THEN DropIndexText(s, t, later[i].key.name)
                                               ELSE CreateIndex(s, t, later[i].key)]
  <1>1. AlterText(s, t, ops) = (IF inline = <<>> THEN <<>> ELSE first) \o rest
    BY Zenon DEF AlterText
  <1>2. /\ ops \in Seq(Range(ops)) /\ Range(ops) = {o} /\ unique = {} /\ IsInjective(ops)
    BY DEF Range, IsInjective
  <1> HIDE DEF ops, unique
  <1>3. /\ inline \in Seq(Range(ops)) /\ Range(inline) = Range(ops) \cap unique
        /\ later \in Seq(Range(ops)) /\ Range(later) = Range(ops) \cap (Range(ops) \ unique)
        /\ IsInjective(ops) => IsInjective(later)
    BY Zenon, <1>2, ThoseAre
  <1> HIDE DEF inline, later
  <1>4. inline = <<>>
    <2>1. Range(inline) = {} /\ Len(inline) \in Nat /\ DOMAIN inline = 1 .. Len(inline)
      BY <1>2, <1>3
    <2>2. Len(inline) = 0
      <3> SUFFICES ASSUME Len(inline) # 0 PROVE FALSE
        OBVIOUS
      <3>1. 1 \in DOMAIN inline
        BY <2>1
      <3> QED
        BY <2>1, <3>1 DEF Range
    <2> QED
      BY <1>3, <2>2
  <1>5. DOMAIN later = {1} /\ later[1] = o
    <2>1. /\ Range(later) = {o} /\ Len(later) \in Nat /\ DOMAIN later = 1 .. Len(later)
          /\ IsInjective(later)
      BY <1>2, <1>3
    <2>2. Len(later) # 0
      BY <2>1 DEF Range
    <2>3. ASSUME Len(later) > 1 PROVE FALSE
      <3>1. 1 \in DOMAIN later /\ 2 \in DOMAIN later
        BY <2>1, <2>3
      <3>2. later[1] = o /\ later[2] = o
        BY <2>1, <3>1 DEF Range
      <3> QED
        BY <2>1, <3>1, <3>2 DEF IsInjective
    <2>4. Len(later) = 1
      BY <2>1, <2>2, <2>3
    <2>5. DOMAIN later = {1}
      BY <2>1, <2>4
    <2>6. later[1] \in Range(later)
      BY <2>5 DEF Range
    <2> QED
      BY <2>1, <2>5, <2>6
  <1>6. rest = [i \in {1} |-> DropIndexText(s, t, o.key.name)]
    BY <1>5
  <1> HIDE DEF rest, first
  <1>7. rest = <<DropIndexText(s, t, o.key.name)>>
    <2>1. {1} = 1 .. 1
      OBVIOUS
    <2> QED
      BY <1>6, <2>1
  <1>8. AlterText(s, t, ops) = <<>> \o rest
    BY <1>1, <1>4
  <1> QED
    BY <1>7, <1>8 DEF ops

\* A careful client can drop every key it gave a name to by that name: both texts
\* that translate_alter_table and translate_inline_index build a name from give one.
THEOREM NamedKeyDroppable == Careful => (IndexSpec => []NamedKeyCanBeDropped)
  <1> SUFFICES ASSUME Careful PROVE IndexSpec => []NamedKeyCanBeDropped
    OBVIOUS
  <1>1. IndexInv => NamedKeyCanBeDropped
    <2> SUFFICES ASSUME IndexInv, NEW k \in keys, KnownDrop(k.schema, k.table, k.name)
                 PROVE  RunText(AlterText(k.schema, k.table, <<[op |-> "drop", key |-> k]>>), TRUE).ok
      BY Zenon DEF NamedKeyCanBeDropped
    <2> DEFINE s  == k.schema
               t  == k.table
               o  == [op |-> "drop", key |-> k]
               st == DropIndexText(s, t, k.name)
               text == AlterText(s, t, <<o>>)
    <2>1. Table(s, t) \in tables /\ t \in TableName
      BY DEF IndexInv, Table
    <2>2. s = cur /\ PrefixedIndexName(t, k.name, <<"idx">>) \in Indexes(rels, s, t)
      BY <2>1, KnownDropIs
    <2>3. /\ st.kind = "drop_index" /\ st.schema = s /\ st.table = t
          /\ st.name = PrefixedIndexName(t, k.name, <<"idx">>) /\ st.constraint = "none"
      BY PiecesAre
    <2>4. text = <<st>>
      <3>1. o.op = "drop" /\ o.key = k
        OBVIOUS
      <3> HIDE DEF o
      <3> QED
        BY <3>1, OneDropText
    <2> HIDE DEF s, t, o, st, text
    <2>5. /\ text \in Seq(Range(text)) /\ Len(text) = 1 /\ text[1] = st
          /\ \A i \in DOMAIN text : Piece(text[i])
      BY <2>1, <2>3, <2>4 DEF Piece, Range
    <2>6. Kept(rels)
      BY DEF IndexInv
    <2>7. PICK g : Way(g, text) /\ RunInOrder(text) = g[Len(text)]
      BY <2>5, <2>6, RunTrace
    <2>8. RunInOrder(text) = PgApply(rels, st)
      <3>1. g[0] = Makes(rels) /\ g[1] = IF g[0].ok THEN PgApply(g[0].rels, text[1]) ELSE g[0]
        BY <2>5, <2>7 DEF Way
      <3>2. Makes(rels).ok = TRUE /\ Makes(rels).rels = rels
        BY DEF Makes
      <3> QED
        BY <2>5, <2>7, <3>1, <3>2
    <2>9. PgApply(rels, st) = Makes(rels \ Found(rels, cur, st.name))
      <3>1. st.name \in Indexes(rels, cur, t)
        BY <2>2, <2>3
      <3> QED
        BY <2>3, <2>6, <3>1, DropIsOn
    <2>10. RunInOrder(text).ok
      BY <2>8, <2>9 DEF Makes
    <2>11. RunText(text, TRUE) = RunInOrder(text)
      BY Zenon DEF RunText
    <2> QED
      BY Zenon, <2>10, <2>11 DEF s, t, o, text
  <1> QED
    BY IndexInvariant, <1>1, PTL

\* A text PostgreSQL refuses at any of its statements changes nothing, of the
\* relations or of what the client knows (execute_sql_in_schema).
THEOREM RefusedTextKeeps == IndexSpec => RefusedTextChangesNothing
  <1>1. [IndexNext]_indexVars
          => [reply'.answer = "refused" => UNCHANGED <<rels, tables, keys>>]_indexVars
    <2> SUFFICES ASSUME IndexNext, reply'.answer = "refused" PROVE UNCHANGED <<rels, tables, keys>>
      OBVIOUS
    <2>1. ASSUME NEW op, NEW ok, NEW prepared, reply' = Reply(op, ok, prepared)
          PROVE  ~ok /\ ~prepared
      <3>1. Reply(op, ok, prepared).answer
              = IF ok THEN "ok" ELSE IF prepared THEN "refused_prepared" ELSE "refused"
        BY DEF Reply
      <3>2. "ok" # "refused" /\ "refused_prepared" # "refused"
        OBVIOUS
      <3> QED
        BY Zenon, <2>1, <3>1, <3>2
    <2>2. ASSUME NEW text, NEW prepared, ~prepared, ~RunText(text, prepared).ok
          PROVE  RunText(text, prepared).rels = rels
      <3>1. RunText(text, prepared) = Refuses(rels)
        BY Zenon, <2>2 DEF RunText
      <3> QED
        BY <3>1 DEF Refuses
    <2>3. ASSUME NEW op, NEW prepared, NotTranslated(op, prepared)
          PROVE  UNCHANGED <<rels, tables, keys>>
      BY <2>3 DEF NotTranslated
    <2>4. ASSUME NEW s, NEW t, NEW list, NEW ifNotExists, NEW prepared,
                 CreateTable(s, t, list, ifNotExists, prepared)
          PROVE  UNCHANGED <<rels, tables, keys>>
      <3> DEFINE result == RunText(CreateText(s, t, list, ifNotExists), prepared)
      <3>1. /\ \E op : reply' = Reply(op, result.ok, prepared)
            /\ rels' = result.rels
            /\ ~result.ok => tables' = tables /\ keys' = keys
        BY Zenon, <2>4 DEF CreateTable, Answer
      <3>2. ~result.ok /\ ~prepared
        BY Zenon, <2>1, <3>1
      <3>3. result.rels = rels
        BY Zenon, <2>2, <3>2
      <3> QED
        BY Zenon, <3>1, <3>2, <3>3
    <2>5. ASSUME NEW s, NEW t, NEW ops, NEW prepared, AlterTable(s, t, ops, prepared)
          PROVE  UNCHANGED <<rels, tables, keys>>
      <3> DEFINE result == RunText(AlterText(s, t, ops), prepared)
      <3>1. /\ \E op : reply' = Reply(op, result.ok, prepared)
            /\ rels' = result.rels
            /\ ~result.ok => keys' = keys
            /\ tables' = tables
        BY Zenon, <2>5 DEF AlterTable, Answer
      <3>2. ~result.ok /\ ~prepared
        BY Zenon, <2>1, <3>1
      <3>3. result.rels = rels
        BY Zenon, <2>2, <3>2
      <3> QED
        BY Zenon, <3>1, <3>2, <3>3
    <2>6. \A s, t : ~DropTable(s, t)
      BY Zenon, <2>1 DEF DropTable
    <2>7. \A s : ~Use(s)
      BY Zenon, <2>1 DEF Use
    <2>8. ASSUME NEW s, NEW t, NEW u, RenameTable(s, t, u) PROVE UNCHANGED <<rels, tables, keys>>
      <3>1. Taken(rels, s, u)
        BY Zenon, <2>1, <2>8 DEF RenameTable
      <3> QED
        BY Zenon, <2>8, <3>1 DEF RenameTable
    <2> QED
      BY Zenon, <2>3, <2>4, <2>5, <2>6, <2>7, <2>8 DEF IndexNext, StatementOn, CreateRefused, AlterRefused
  <1> QED
    BY <1>1, PTL DEF IndexSpec, RefusedTextChangesNothing

=============================================================================
