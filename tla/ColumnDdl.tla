----------------------------- MODULE ColumnDdl -----------------------------
(***************************************************************************)
(* The columns of a table under CREATE TABLE and ALTER TABLE, as a client  *)
(* that speaks MySQL believes them to be and as PostgreSQL has them after  *)
(* the statements that src/src/translator.rs makes of the client's.        *)
(*                                                                         *)
(* What a column holds is a set of classes of values: a number is its sign *)
(* and the bits its magnitude needs, so 2^32 and 2^64 are small; a text is *)
(* a member.  A CHECK is the set of the values that pass it.  Columns do   *)
(* not interact, rows are left out.                                        *)
(***************************************************************************)
EXTENDS Naturals

CONSTANTS Column,    \* names of columns
          QuotedOnly,\* those PostgreSQL finds in quotes only: with capitals, or reserved
          Definition,\* the column definitions clients write
          Member,    \* text values, among them the members of an ENUM
          NoColumn   \* no column of that name

Width  == [tiny |-> 8, small |-> 16, medium |-> 24, int |-> 32, big |-> 64]
Whole  == DOMAIN Width
Broken == {"decimal", "float", "double"}
Bits   == {7, 8, 15, 16, 23, 24, 31, 32, 63, 64}  \* the edges of the ranges

\* members is empty but for an ENUM.
Type == [base : Whole \cup Broken, unsigned : BOOLEAN, members : {{}}]
          \cup [base : {"enum", "text"}, unsigned : {FALSE}, members : SUBSET Member]

Def == [type : Type, notNull : BOOLEAN, default : BOOLEAN, auto : BOOLEAN, key : BOOLEAN]

ASSUME DefinitionAssumption == Definition \subseteq Def

Number == [kind : {"number"}, negative : BOOLEAN, bits : Bits, text : {"none"}]
Text   == [kind : {"text"}, negative : {FALSE}, bits : {0}, text : Member]
Value  == Number \cup Text

Upto(bits)      == {v \in Number : v.bits <= bits}
NonNegative     == {v \in Number : ~v.negative}
TextIn(members) == {v \in Text : v.text \in members}

VARIABLES believed, \* columns by MySQL's rules, from the statements answered OK
          pg,       \* columns of the PostgreSQL table
          columnReply     \* to the last statement

columnVars == <<believed, pg, columnReply>>

-----------------------------------------------------------------------------
(* MySQL *)

\* The values a column of a type takes, in strict mode.
MySqlRange(t) ==
  CASE t.base \in Whole  -> IF t.unsigned THEN NonNegative \cap Upto(Width[t.base])
                            ELSE Upto(Width[t.base] - 1)
    [] t.base \in Broken -> IF t.unsigned THEN NonNegative ELSE Number
    [] t.base = "enum"   -> TextIn(t.members)
    [] OTHER             -> Text

Believed == [type : Type, notNull : BOOLEAN, default : BOOLEAN, auto : BOOLEAN,
             key : BOOLEAN, modified : BOOLEAN]

\* A column as MySQL has it; modified: by MODIFY COLUMN since it was added.
MySqlColumn(def, modified) ==
  [type |-> def.type, notNull |-> def.notNull \/ def.key \/ def.auto, default |-> def.default,
   auto |-> def.auto, key |-> def.key, modified |-> modified]

-----------------------------------------------------------------------------
(* PostgreSQL *)

PgBits  == [smallint |-> 15, integer |-> 31, bigint |-> 63]
PgType  == DOMAIN PgBits \cup {"numeric", "real", "double precision", "text"}

PgRange(p) == CASE p \in DOMAIN PgBits -> Upto(PgBits[p])
                [] p = "text"          -> Text
                [] OTHER               -> Number

PgColumn == [type : PgType, notNull : BOOLEAN, default : BOOLEAN, identity : BOOLEAN,
             key : BOOLEAN, passes : SUBSET Value]

ASSUME NoColumnAssumption == NoColumn \notin PgColumn \cup Believed

\* What a column of the table takes: its type's values that pass every CHECK.
Takes(p) == PgRange(p.type) \cap p.passes

-----------------------------------------------------------------------------
(* The translation *)

\* Mutant of PgTypeOf: the unsigned types are not widened.
PgTypeNarrow(t) ==
  CASE t.base \in Whole -> [tiny |-> "smallint", small |-> "smallint", medium |-> "integer",
                            int |-> "integer", big |-> "bigint"][t.base]
    [] t.base \in Broken -> [decimal |-> "numeric", float |-> "real",
                             double |-> "double precision"][t.base]
    [] OTHER -> "text"

PgTypeOf(t) ==
  CASE t.base \in Whole ->
         IF t.unsigned
         THEN [tiny |-> "smallint", small |-> "integer", medium |-> "integer", int |-> "bigint",
               big |-> "bigint"][t.base]
         ELSE [tiny |-> "smallint", small |-> "smallint", medium |-> "integer",
               int |-> "integer", big |-> "bigint"][t.base]
    [] t.base \in Broken -> [decimal |-> "numeric", float |-> "real",
                             double |-> "double precision"][t.base]
    [] OTHER -> "text"

\* The values that pass the CHECK a type is given, all of them if it has none.
CheckOf(t) ==
  CASE t.unsigned /\ t.base \in Whole \ {"big"} -> NonNegative \cap Upto(Width[t.base])
    [] t.unsigned /\ t.base \in Broken          -> NonNegative
    [] t.base = "enum"                          -> TextIn(t.members)
    [] OTHER                                    -> Value

\* A column of CREATE TABLE or ADD COLUMN: its options go through, and
\* AUTO_INCREMENT becomes an identity, which PostgreSQL holds not null.
TranslateColumn(def) ==
  [type |-> PgTypeOf(def.type), notNull |-> def.notNull \/ def.key \/ def.auto,
   default |-> def.default, identity |-> def.auto, key |-> def.key,
   passes |-> CheckOf(def.type)]

\* Mutant of TranslateModify: the new type's CHECK is not added.
ModifyUnchecked(p, def) ==
  [p EXCEPT !.type = PgTypeOf(def.type), !.notNull = def.notNull, !.default = def.default]

\* Mutant of TranslateModify: a default that is not named is left.
ModifyKeepingDefault(p, def) ==
  [p EXCEPT !.type = PgTypeOf(def.type), !.notNull = def.notNull,
            !.default = def.default \/ p.default, !.passes = @ \cap CheckOf(def.type)]

\* MODIFY COLUMN: TYPE, SET or DROP NOT NULL, SET or DROP DEFAULT, ADD CHECK.
\* The CHECKs the column had stay.
TranslateModify(p, def) ==
  [p EXCEPT !.type = PgTypeOf(def.type), !.notNull = def.notNull, !.default = def.default,
            !.passes = @ \cap CheckOf(def.type)]

\* PostgreSQL takes the operations of MODIFY COLUMN: the default of an identity
\* cannot be changed, a key stays not null, a text is not cast to a number, and
\* a CHECK on numbers does not fit a text.
PgModifies(p, def) ==
  /\ ~p.identity
  /\ p.key => def.notNull
  /\ p.type = "text" => PgTypeOf(def.type) = "text"
  /\ p.type # "text" /\ PgTypeOf(def.type) = "text" => p.passes = Value

-----------------------------------------------------------------------------
(* Statements *)

ColumnInit ==
  /\ believed = [c \in Column |-> NoColumn]
  /\ pg = [c \in Column |-> NoColumn]
  /\ columnReply = "none"

\* PostgreSQL finds the column by its name as it is written.
FindsColumn(c, quoted) == c \notin QuotedOnly \/ quoted

\* The name in a CHECK is not quoted by the translation: in CREATE and ADD it is
\* as the client wrote it, with or without backticks, in MODIFY bare.
CheckFinds(c, t, quoted) == CheckOf(t) = Value \/ FindsColumn(c, quoted)

\* CREATE TABLE with this column, or ALTER TABLE ADD COLUMN.
AddColumn(c) ==
  /\ pg[c] = NoColumn
  /\ \E def \in Definition, quoted \in BOOLEAN :
       /\ CheckFinds(c, def.type, quoted)
       /\ pg' = [pg EXCEPT ![c] = TranslateColumn(def)]
       /\ believed' = [believed EXCEPT ![c] = MySqlColumn(def, FALSE)]
  /\ columnReply' = "ok"

\* PostgreSQL refuses a CHECK on a column it does not find, and all with it.
AddRefused(c) ==
  /\ pg[c] = NoColumn
  /\ \E def \in Definition : ~CheckFinds(c, def.type, FALSE)
  /\ columnReply' = "err"
  /\ UNCHANGED <<believed, pg>>

\* The definitions MODIFY COLUMN changes the column to.  AUTO_INCREMENT, a key and
\* every other option but those that are dropped are refused by the translator.
Modifiable(c) ==
  {d \in Definition : /\ ~d.auto /\ ~d.key
                      /\ CheckFinds(c, d.type, FALSE)
                      /\ PgModifies(pg[c], d)}

\* The column keeps the key it has.
ModifyColumn(c) ==
  /\ pg[c] # NoColumn
  /\ \E def \in Modifiable(c) :
       /\ pg' = [pg EXCEPT ![c] = TranslateModify(pg[c], def)]
       /\ believed' = [believed EXCEPT
                         ![c] = MySqlColumn([def EXCEPT !.key = believed[c].key], TRUE)]
  /\ columnReply' = "ok"

\* By the translator or by PostgreSQL.
ModifyRefused(c) ==
  /\ pg[c] # NoColumn
  /\ Definition \ Modifiable(c) # {}
  /\ columnReply' = "err"
  /\ UNCHANGED <<believed, pg>>

\* Mutant of DropColumn: the statement is answered and not run.
DropColumnUnrun(c) ==
  /\ pg[c] # NoColumn
  /\ believed' = [believed EXCEPT ![c] = NoColumn]
  /\ columnReply' = "ok"
  /\ UNCHANGED pg

\* DROP COLUMN goes through as it is, and takes the column's CHECKs along; in
\* backticks it finds every column.
DropColumn(c) ==
  /\ pg[c] # NoColumn
  /\ pg' = [pg EXCEPT ![c] = NoColumn]
  /\ believed' = [believed EXCEPT ![c] = NoColumn]
  /\ columnReply' = "ok"

DropRefused(c) ==
  /\ pg[c] # NoColumn
  /\ ~FindsColumn(c, FALSE)
  /\ columnReply' = "err"
  /\ UNCHANGED <<believed, pg>>

ColumnNext ==
  \E c \in Column : \/ AddColumn(c) \/ AddRefused(c)
                    \/ ModifyColumn(c) \/ ModifyRefused(c)
                    \/ DropColumn(c) \/ DropRefused(c)

ColumnSpec == ColumnInit /\ [][ColumnNext]_columnVars

-----------------------------------------------------------------------------
(* Properties *)

Columns == {c \in Column : believed[c] # NoColumn}

ColumnTypeOK ==
  /\ pg \in [Column -> PgColumn \cup {NoColumn}]
  /\ believed \in [Column -> Believed \cup {NoColumn}]
  /\ columnReply \in {"none", "ok", "err"}
  /\ \A c \in Column : (believed[c] = NoColumn) = (pg[c] = NoColumn)

\* However often a column is changed, an unsigned one takes no value MySQL would
\* refuse; BIGINT UNSIGNED is the documented exception (translate_data_type:
\* every unsigned type brings its CHECK, in CREATE, ADD and MODIFY alike).
UnsignedBounded ==
  \A c \in Columns :
    believed[c].type.unsigned /\ believed[c].type.base # "big"
      => Takes(pg[c]) \subseteq MySqlRange(believed[c].type)

\* A column that was never modified takes every value of its MySQL type, again
\* but for BIGINT UNSIGNED (translate_data_type: the widening of the types).
UnmodifiedKeepsValues ==
  \A c \in Columns :
    ~believed[c].modified /\ (believed[c].type.unsigned => believed[c].type.base # "big")
      => MySqlRange(believed[c].type) \subseteq Takes(pg[c])

\* Whether a column takes NULL, has a default and counts by itself is what the
\* last statement about it says, although MODIFY COLUMN restates the column and
\* PostgreSQL's ALTER COLUMN does not (translate_modify_column).
ColumnsAgree ==
  \A c \in Columns :
    /\ pg[c].notNull = believed[c].notNull
    /\ pg[c].default = believed[c].default
    /\ pg[c].identity = believed[c].auto

\* The README and the warnings of the translator: types are widened, and given
\* CHECKs, "to preserve the MySQL value range".
RangePreserved ==
  \A c \in Columns :
    believed[c].type.unsigned /\ believed[c].type.base # "big"
      => MySqlRange(believed[c].type) \subseteq Takes(pg[c])
=============================================================================
