--------------------------- MODULE FreshExecutor ---------------------------
(***************************************************************************)
(* The fresh-connection executor of src/src/executor.rs, which the HTTP    *)
(* and the command-line frontends use: every call opens a PostgreSQL       *)
(* session of its own and drops it when it returns, with whatever          *)
(* transaction the text left open.  A call whose future is dropped leaves  *)
(* a session behind that PostgreSQL may still run the text in.             *)
(*                                                                         *)
(* A text is its statements: they read, write, or begin and end            *)
(* transactions.  Effects are counted as writes that will last.            *)
(* HttpFrontend says who makes the calls.                                  *)
(***************************************************************************)
EXTENDS Integers, Sequences, SequencesExt

CONSTANTS Task,     \* callers
          Texts,    \* what they send: sequences of statements
          PgLimit   \* sessions PostgreSQL allows at once

Statements == {"read", "write", "insert", "begin", "commit", "rollback"}

ASSUME FreshAssumption == /\ PgLimit \in Nat
                          /\ Texts \subseteq Seq(Statements) /\ Texts # {} /\ <<>> \notin Texts

VARIABLES task,    \* the call each caller makes
          session, \* its PostgreSQL session
          durable  \* writes of its text that are committed

freshVars == <<task, session, durable>>

Method == {"execute", "prepared", "describe", "describe_prepared", "create_schema", "drop_schema"}
AtSession == {"path", "prepare", "lookup", "run"}
Call == [stage : {"idle", "connect", "dropped", "ok", "failed"} \cup AtSession, method : Method,
         text : Texts, inSchema : BOOLEAN, identified : BOOLEAN]

\* What a session holds that is not committed: the writes, and whether a
\* transaction block is open.
NoSession == [live |-> FALSE, block |-> FALSE, writes |-> 0]
NewSession == [NoSession EXCEPT !.live = TRUE]

FreshTypeOK ==
  /\ task \in [Task -> Call]
  /\ durable \in [Task -> Nat] /\ \A t \in Task : durable[t] <= Len(task[t].text)
  /\ session \in [Task -> [live : BOOLEAN, block : BOOLEAN, writes : Nat]]

NoCall == [stage |-> "idle", method |-> "execute", text |-> CHOOSE x \in Texts : TRUE,
           inSchema |-> FALSE, identified |-> FALSE]

FreshInit ==
  /\ task = [t \in Task |-> NoCall]
  /\ session = [t \in Task |-> NoSession]
  /\ durable = [t \in Task |-> 0]

In(t, stage) == task[t].stage = stage
Go(t, stage) == task' = [task EXCEPT ![t].stage = stage]

-----------------------------------------------------------------------------
(* PostgreSQL *)

\* One statement: what becomes pending and what becomes durable.
Effect(done, st) ==
  CASE st \in {"write", "insert"} -> [done EXCEPT !.writes = @ + 1]
    [] st = "begin"               -> [done EXCEPT !.block = TRUE]
    [] st = "commit"              -> [block |-> FALSE, writes |-> 0, durable |-> done.durable + done.writes]
    [] st = "rollback"            -> [done EXCEPT !.block = FALSE, !.writes = 0]
    [] OTHER                      -> done

Writes(text) == Cardinality({i \in DOMAIN text : text[i] \in {"write", "insert"}})

\* The first n statements of a text sent at once, which is one transaction
\* except where it says otherwise; all of them, or fewer when one fails.
After(text, n) ==
  LET done == FoldLeft(Effect, [block |-> FALSE, writes |-> 0, durable |-> 0], SubSeq(text, 1, n))
  IN  IF done.block \/ n < Len(text) THEN [done EXCEPT !.block = TRUE]
      ELSE Effect(done, "commit")

Runs(t, n) ==
  LET done == After(task[t].text, n)
  IN  /\ durable' = [durable EXCEPT ![t] = @ + done.durable]
      /\ session' = [session EXCEPT ![t].block = done.block, ![t].writes = done.writes]

\* PostgreSQL ends a session whose client is gone; what is pending is undone.
PgEnds(t) ==
  /\ session[t].live
  /\ task[t].stage \in {"dropped", "ok", "failed"}
  /\ session' = [session EXCEPT ![t] = NoSession]
  /\ task' = [task EXCEPT ![t].stage = IF @ = "dropped" THEN "failed" ELSE @]
  /\ UNCHANGED durable

-----------------------------------------------------------------------------
(* The executor *)

\* create_schema and drop_schema connect without a schema.
Begin(t, method, text, inSchema) ==
  /\ In(t, "idle")
  /\ method \in {"create_schema", "drop_schema"} => ~inSchema /\ text = <<"write">>
  /\ task' = [task EXCEPT ![t] = [stage |-> "connect", method |-> method, text |-> text,
                                  inSchema |-> inSchema, identified |-> FALSE]]
  /\ durable' = [durable EXCEPT ![t] = 0]
  /\ UNCHANGED session

\* A describe by text runs the text and reads the columns of the answer.
AfterPath(t) ==
  CASE task[t].method \in {"prepared", "describe_prepared"} -> "prepare"
    [] task[t].method = "execute" /\ Head(task[t].text) = "insert" -> "lookup"
    [] OTHER -> "run"

Connect(t) ==
  /\ In(t, "connect")
  /\ Cardinality({u \in Task : session[u].live}) < PgLimit
  /\ session' = [session EXCEPT ![t] = NewSession]
  /\ Go(t, IF task[t].inSchema THEN "path" ELSE AfterPath(t))
  /\ UNCHANGED durable

ConnectFails(t) ==
  /\ In(t, "connect")
  /\ Go(t, "failed")
  /\ UNCHANGED <<session, durable>>

SetPath(t) ==
  /\ In(t, "path")
  /\ Go(t, AfterPath(t))
  /\ UNCHANGED <<session, durable>>

\* PostgreSQL prepares one statement at a time.
Prepare(t) ==
  /\ In(t, "prepare")
  /\ Len(task[t].text) = 1
  /\ Go(t, IF task[t].method = "describe_prepared" THEN "ok"
           ELSE IF Head(task[t].text) = "insert" THEN "lookup" ELSE "run")
  /\ UNCHANGED <<session, durable>>

\* The text starts with an INSERT into a table of the current schema, which has
\* an identity column or has none.
Lookup(t) ==
  /\ In(t, "lookup")
  /\ \E found \in BOOLEAN : task' = [task EXCEPT ![t].stage = "run", ![t].identified = found]
  /\ UNCHANGED <<session, durable>>

\* The wrapped text is one INSERT ... RETURNING: a second statement is a syntax
\* error in it.
Wrappable(t) == task[t].identified => Len(task[t].text) = 1

Run(t) ==
  /\ In(t, "run")
  /\ Wrappable(t)
  /\ Runs(t, Len(task[t].text))
  /\ Go(t, "ok")

\* Mutant of Fails: the text is run statement by statement.
FailsInPieces(t) ==
  /\ task[t].stage \in AtSession
  /\ \E n \in 0 .. Len(task[t].text) :
       durable' = [durable EXCEPT ![t] = IF In(t, "run") /\ Wrappable(t)
                                         THEN Writes(SubSeq(task[t].text, 1, n)) ELSE @]
  /\ Go(t, "failed")
  /\ UNCHANGED session

\* Mutant of Fails: what PostgreSQL refuses is sent to it again.
FailsRetried(t) ==
  /\ task[t].stage \in AtSession
  /\ UNCHANGED freshVars

\* An error of PostgreSQL's or the loss of the session, at any await; of a text
\* that is run it may come after some of the statements.
Fails(t) ==
  /\ task[t].stage \in AtSession
  /\ \E n \in 0 .. Len(task[t].text) :
       IF In(t, "run") /\ Wrappable(t) THEN Runs(t, n) ELSE UNCHANGED <<session, durable>>
  /\ Go(t, "failed")

\* The caller's future is dropped at an await: the client with it, and with a
\* client the session, once PostgreSQL notices.
IfDropped(t) == IF In(t, "run") /\ Wrappable(t) THEN "dropped" ELSE "failed"

Drops(t) ==
  /\ task[t].stage \in {"connect"} \cup AtSession
  /\ Go(t, IfDropped(t))
  /\ UNCHANGED <<session, durable>>

\* PostgreSQL runs what had been sent for a call that was dropped.
RunsDropped(t) ==
  /\ In(t, "dropped")
  /\ Runs(t, Len(task[t].text))
  /\ Go(t, "failed")

\* Nothing of the call is left, and its caller may make another.
Collect(t) ==
  /\ task[t].stage \in {"ok", "failed"}
  /\ ~session[t].live
  /\ task' = [task EXCEPT ![t] = NoCall]
  /\ durable' = [durable EXCEPT ![t] = 0]
  /\ UNCHANGED session

Advance(t) == \/ Connect(t)
              \/ ConnectFails(t)
              \/ SetPath(t)
              \/ Prepare(t)
              \/ Lookup(t)
              \/ Run(t)
              \/ Fails(t)

-----------------------------------------------------------------------------
(* Properties *)

\* Texts that leave their own transactions to nobody.
Plain(text) == \A i \in DOMAIN text : text[i] \in {"read", "write", "insert"}

\* What a caller is told is what lasts: an answered text without transaction
\* statements is all there, a failed or dropped one is there or not but never in
\* part, although it is several statements (execute_sql_in_schema sends one
\* simple query; wrap_insert_returning_sql takes the whole text).
AllOrNothing ==
  \A t \in Task : Plain(task[t].text) /\ task[t].method # "describe_prepared" =>
    /\ durable[t] \in {0, Writes(task[t].text)}
    /\ In(t, "ok") => durable[t] = Writes(task[t].text)

\* No call leaves a session behind, whether it was answered, failed or dropped
\* (the client of connect lives as long as the call).
SessionsEnd == \A t \in Task : session[t].live ~> ~session[t].live
=============================================================================
