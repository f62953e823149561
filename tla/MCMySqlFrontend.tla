-------------------------- MODULE MCMySqlFrontend --------------------------
(* The MySQL frontend on small instances: what clients send in each run. *)
EXTENDS MySqlFrontend

CONSTANTS v0, v1

Q(kind)      == [NoQuery EXCEPT !.kind = kind]
Bind(q, n)   == [q EXCEPT !.params = n]
Sets(v)      == [Q("session_set") EXCEPT !.value = v]
OnDb(kind)   == {[Q(kind) EXCEPT !.db = db] : db \in Db}
Kills        == {[Q("kill") EXCEPT !.target = id] : id \in ConnId}

KillQueries      == Kills \cup {Q("select")}
DatabaseQueries  == OnDb("create_db") \cup OnDb("drop_db") \cup {Q("select")}
SharedQueries    == DatabaseQueries \cup {Q("insert")}
StatementQueries == {Bind(Q("insert"), 1), Bind(Q("select"), 2), Q("multi"), Q("canned")}
LocalQueries     == {Q(k) : k \in {"session_read", "canned", "noop", "session_bad", "load_data",
                                   "untranslatable", "option", "select_star", "commit"}}
                      \cup {Sets(v1), Bind(Q("select"), 1)} \cup OnDb("create_db") \cup OnDb("drop_db")

\* README.md, Notes: "MySQL frontend now returns MySQL error packets instead of
\* dropping the connection when translation or PostgreSQL execution fails."
FailureIsAnswered ==
  [][\A c \in Conn :
       phase[c] = "calling" /\ call[c].stage \in Failure => phase'[c] # "closed"]_vars

\* README.md, Important current limitations: "Prepared statements with ?
\* parameters return a clear "not implemented yet" MySQL error."
ParametersAreRefused ==
  \A c \in Conn, s \in StmtId : prepared[c][s] # NoStmt => prepared[c][s].params = 0
=============================================================================
