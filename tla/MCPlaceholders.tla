--------------------------- MODULE MCPlaceholders ---------------------------
(* Short texts of every kind of character and longer ones of the kinds that *)
(* quotations are made of.                                                  *)
EXTENDS Placeholders

UpTo(n, kinds) == UNION {[1 .. l -> kinds] : l \in 1 .. n}

MCTexts == UpTo(4, Char) \cup UpTo(6, {"param", "quote", "slash"})
             \cup UpTo(5, {"param", "quote", "double", "tick"})
             \cup UpTo(5, {"param", "quote", "double", "slash"})
             \cup UpTo(5, {"param", "tick", "hash", "newline"})
=============================================================================
