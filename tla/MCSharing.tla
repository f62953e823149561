----------------------------- MODULE MCSharing -----------------------------
(* Two clients that share databases, or that insert and come and go: one or *)
(* the other, which keeps the instance small.                               *)
EXTENDS MCMySqlFrontend

VARIABLE mix

MixInit == FrontInit /\ mix \in {"databases", "inserts"}

MixNext ==
  /\ FrontNext
  /\ UNCHANGED mix
  /\ mix = "databases" => nextConnId' <= 3 /\ \A c \in Conn : request'[c].query.kind # "insert"
  /\ mix = "inserts" =>
       \A c \in Conn : /\ currentDb'[c] = NoDb /\ request'[c].db = NoDb
                       /\ request'[c].query.kind \in {"noop", "insert"}

MixSpec == MixInit /\ [][MixNext]_<<vars, mix>>
=============================================================================
