------------------------------ MODULE MCUpsert ------------------------------
(* A table with two unique keys for TLC, the first that of user_language.   *)
EXTENDS Upsert

MCField  == {"login", "name", "language"}
MCKeys    == <<{"login"}, {"name"}>>
MCLists   == {<<"login">>, <<"login", "language">>, <<"name", "login">>, <<"language", "name">>,
               <<"login", "name", "language">>}
MCDefaults == {[c \in MCField |-> ""], [c \in MCField |-> IF c = "language" THEN "a" ELSE ""]}
=============================================================================
