---------------------------- MODULE MCColumnDdl ----------------------------
(* Column definitions for TLC: every kind of type, narrow and wide.         *)
EXTENDS ColumnDdl

Num(base, unsigned) == [base |-> base, unsigned |-> unsigned, members |-> {}]
Enum(members)       == [base |-> "enum", unsigned |-> FALSE, members |-> members]

MCTypes == {Num(b, u) : b \in Whole \cup {"decimal"}, u \in BOOLEAN}
             \cup {Enum({"new"}), Enum({"new", "sale"}), [Enum({}) EXCEPT !.base = "text"]}

\* AUTO_INCREMENT is for whole numbers that are a key and have no default.
MCDefinition ==
  {d \in [type : MCTypes, notNull : BOOLEAN, default : BOOLEAN, auto : BOOLEAN, key : BOOLEAN] :
     d.auto => d.key /\ ~d.default /\ d.type.base \in Whole}

=============================================================================
