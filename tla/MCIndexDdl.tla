----------------------------- MODULE MCIndexDdl -----------------------------
(* Names for TLC that meet: table a with key b_c, and table a_b with key c. *)
EXTENDS IndexDdl

TableA   == <<"a">>
TableAB  == <<"a", "_", "b">>
KeyC     == <<"c">>
KeyB     == <<"b">>            \* on table a its index is named as table a_b
KeyBC    == <<"b", "_", "c">>
KeyABC   == <<"a", "_", "b", "_", "c">>  \* the index of KeyBC on table a has this name
KeyAC    == <<"A", "-", "c">>  \* sanitized as a_c, which begins with the name of table a
KeyCKey  == <<"c", "_", "key">> \* on table a its index is named as PostgreSQL names a constraint

MCTableName == {TableA, TableAB}
MCColumn    == KeyC
MCAnonymous == <<"anonymous">>

Plain(name) == [name |-> name, unique |-> FALSE, primary |-> FALSE, form |-> "column",
                symbol |-> "none"]
Unsupported(name) == [Plain(name) EXCEPT !.form = "unsupported"]
Unique(form, symbol, name) ==
  [Plain(name) EXCEPT !.unique = TRUE, !.form = form, !.symbol = symbol]
Primary    == [Plain(MCAnonymous) EXCEPT !.unique = TRUE, !.primary = TRUE]
Add(key)   == [key |-> key, op |-> "add"]
Drop(name) == [key |-> Plain(name), op |-> "drop"]

MCKeyLists == {<<>>, <<Plain(MCAnonymous), Plain(KeyBC)>>, <<Primary, Unique("prefix", "none", KeyAC)>>,
               <<Unique("options", "none", KeyAC)>>,
               <<Unique("column", "plain", KeyABC), Plain(KeyB)>>,
               <<Unsupported(KeyC)>>}
MCChanges == {<<Add(Plain(KeyC))>>, <<Drop(KeyBC)>>, <<Drop(KeyC), Add(Plain(KeyC))>>,
              <<Drop(KeyAC), Add(Plain(KeyCKey))>>, <<Add(Unique("prefix", "none", KeyC))>>,
              <<Add(Unique("column", "none", KeyC))>>, <<Add(Unique("column", "ticked", KeyC))>>,
              <<Add(Unsupported(KeyC))>>}

\* For the runs that look for one thing.
OneKeyList == {<<Plain(KeyC)>>}
FewChanges == {<<Add(Plain(KeyC))>>, <<Drop(KeyBC)>>, <<Drop(KeyC)>>}
=============================================================================
