----------------------- MODULE SessionExecutorProofs -----------------------
(* Proofs about the session executor, for any connections, databases, kinds *)
(* of call and bounds.                                                      *)
EXTENDS SessionExecutor, TLAPS

\* A call that is not over has had no effect.
UnansweredUnapplied ==
  \A c \in Conn : call[c].stage \notin Done => call[c].applied = 0

\* A call past set_schema is not in an aborted transaction: set_schema would
\* have failed.
SchemaSetMeansLive ==
  \A c \in Conn :
    call[c].stage \in AtWork /\ SetsSchema(c) => txn[c] # "failed"

\* Without a session there is no transaction.
TransactionsNeedSession == \A c \in Conn : client[c] # "open" => txn[c] = "none"

\* The inductive invariant.
ExecInv == /\ TypeOK
           /\ UnansweredUnapplied
           /\ TransactionsNeedSession
           /\ SchemaSetMeansLive
           /\ PathFollowsSchema
           /\ InsertIdIsOwn

\* A step for c whoever calls: with any kind of call, prepared or not.
BeginSome(c) == \E op \in Op, schema \in Db \cup {NoDb}, prepared \in BOOLEAN :
                  Shape(op, prepared) /\ Begin(c, op, schema, prepared)
ExecStep(c)  == BeginSome(c) \/ Advance(c) \/ PgDisconnects(c) \/ Return(c) \/ Release(c)

LEMMA NextIsStep ==
  ASSUME NEW c \in Conn, ExecNext(c)
  PROVE  ExecStep(c)
  BY ExecutorAssumption DEF ExecNext, ExecStep, BeginAny, BeginSome

-----------------------------------------------------------------------------
(* What the parts of a step do to the type *)

\* A statement writes rows whose identity values the sequence has reached.
LEMMA WrittenAreIds ==
  ASSUME TypeOK, NEW op, NEW n \in Additions(op), NEW upserted \in Upserts(op)
  PROVE  /\ identity + n \in 0 .. MaxIdentity
         /\ Written(n, upserted) \subseteq Id
  <1>1. n \in Nat /\ identity + n <= MaxIdentity
    BY ExecutorAssumption DEF TypeOK, Additions
  <1>2. upserted \subseteq 1 .. identity
    BY DEF Upserts
  <1> QED
    BY <1>1, <1>2, ExecutorAssumption DEF TypeOK, Written, Id

\* Moving a call to a stage keeps its type.
LEMMA GoToType ==
  ASSUME TypeOK, NEW c \in Conn, NEW stage \in Stage, GoTo(c, stage)
  PROVE  call' \in [Conn -> Call]
  BY DEF TypeOK, GoTo, Call

LEMMA MoveRecord ==
  ASSUME NEW r \in Call, NEW stage \in Stage, NEW applied \in 0 .. 1
  PROVE  [r EXCEPT !.stage = stage, !.applied = applied] \in Call
  BY DEF Call

LEMMA MoveType ==
  ASSUME TypeOK, NEW c \in Conn, NEW stage \in Stage, NEW applied \in 0 .. 1,
         call' = [call EXCEPT ![c].stage = stage, ![c].applied = applied]
  PROVE  call' \in [Conn -> Call]
  <1>1. call[c] \in Call
    BY DEF TypeOK
  <1>2. [call[c] EXCEPT !.stage = stage, !.applied = applied] \in Call
    BY <1>1, MoveRecord
  <1> QED
    BY <1>2 DEF TypeOK

LEMMA IdentifyRecord ==
  ASSUME NEW r \in Call, NEW stage \in Stage
  PROVE  [r EXCEPT !.stage = stage, !.identified = TRUE] \in Call
  BY Zenon DEF Call

LEMMA IdentifyType ==
  ASSUME TypeOK, NEW c \in Conn, NEW stage \in Stage,
         call' = [call EXCEPT ![c].stage = stage, ![c].identified = TRUE]
  PROVE  call' \in [Conn -> Call]
  <1>1. call[c] \in Call
    BY DEF TypeOK
  <1>2. [call[c] EXCEPT !.stage = stage, !.identified = TRUE] \in Call
    BY <1>1, IdentifyRecord
  <1> QED
    BY <1>2 DEF TypeOK

LEMMA IdleCallType == IdleCall \in Call
  BY ExecutorAssumption DEF IdleCall, Call, Stage, Op, Runnable

LEMMA SessionEndsType ==
  ASSUME TypeOK, NEW c \in Conn, NEW slot \in {"none", "open", "closed"}, SessionEnds(c, slot)
  PROVE  /\ client' \in [Conn -> {"none", "open", "closed"}]
         /\ path' \in [Conn -> Db \cup {NoDb}]
         /\ savedPath' \in [Conn -> Db \cup {NoDb}]
         /\ txn' \in [Conn -> {"none", "open", "failed"}]
  BY DEF TypeOK, SessionEnds

LEMMA EffectType ==
  ASSUME TypeOK, NEW c \in Conn, NEW op, NEW n \in Additions(op), NEW upserted \in Upserts(op),
         TakesEffect(c, n, upserted)
  PROVE  /\ identity' \in 0 .. MaxIdentity
         /\ wrote' \in [Conn -> SUBSET Id]
  BY WrittenAreIds DEF TypeOK, TakesEffect

LEMMA TransactionType ==
  ASSUME TypeOK, NEW c \in Conn, NEW op, TransactionAfter(c, op)
  PROVE  /\ path' \in [Conn -> Db \cup {NoDb}]
         /\ savedPath' \in [Conn -> Db \cup {NoDb}]
         /\ txn' \in [Conn -> {"none", "open", "failed"}]
  BY DEF TypeOK, TransactionAfter

LEMMA StagesAfter ==
  ASSUME NEW c \in Conn
  PROVE  /\ AfterSchema(c) \in {"prepare", "lookup", "run"}
         /\ AfterAcquire(c) \in {"set_schema", "prepare", "lookup", "run"}
         /\ AfterLookup(c) \in {"prepare_wrapped", "run"}
         /\ SetsSchema(c) => AfterAcquire(c) = "set_schema"
         /\ AfterSchema(c) \in Stage /\ AfterAcquire(c) \in Stage
  BY DEF AfterSchema, AfterAcquire, AfterLookup, Stage, AtPg, AtWork

-----------------------------------------------------------------------------
(* Type correctness *)

\* Every step of the executor keeps the type, given that a call that is not
\* over has had no effect yet (its count of effects stays within 0 .. 1).
LEMMA TypeStep ==
  ASSUME TypeOK, UnansweredUnapplied, NEW c \in Conn, ExecStep(c)
  PROVE  TypeOK'
  <1> USE DEF Done, Failure
  <1>1. CASE BeginSome(c)
    <2>1. PICK op \in Op, schema \in Db \cup {NoDb}, prepared \in BOOLEAN :
            Begin(c, op, schema, prepared)
      BY <1>1 DEF BeginSome
    <2>2. [stage |-> "acquire", op |-> op, schema |-> schema, prepared |-> prepared,
           identified |-> FALSE, lastId |-> 0, applied |-> 0] \in Call
      BY ExecutorAssumption DEF Call, Stage
    <2> QED
      BY <2>1, <2>2 DEF TypeOK, Begin
  <1>2. CASE AcquireHeld(c)
    BY <1>2, GoToType, StagesAfter DEF TypeOK, AcquireHeld
  <1>3. CASE AcquireConnect(c)
    BY <1>3, GoToType, SessionEndsType, StagesAfter DEF TypeOK, AcquireConnect
  <1>4. CASE AcquireFail(c)
    BY <1>4, GoToType DEF TypeOK, AcquireFail, Stage
  <1>5. CASE SetSchema(c)
    <2>1. call[c].schema \in Db \cup {NoDb}
      BY DEF TypeOK, Call
    <2> QED
      BY <1>5, <2>1, GoToType, StagesAfter DEF TypeOK, SetSchema
  <1>6. CASE Prepare(c)
    <2>1. AfterPrepare(c) \in Stage
      BY DEF AfterPrepare, Stage, AtPg, AtWork
    <2> DEFINE applied == IF call[c].op = "describe" THEN 1 ELSE 0
    <2>2. /\ applied \in 0 .. 1
          /\ call' = [call EXCEPT ![c].stage = AfterPrepare(c), ![c].applied = applied]
      BY <1>6 DEF Prepare
    <2> HIDE DEF applied
    <2>3. call' \in [Conn -> Call]
      BY <2>1, <2>2, MoveType
    <2> QED
      BY <1>6, <2>3 DEF TypeOK, Prepare
  <1>7. CASE LookupFinds(c)
    <2>1. AfterLookup(c) \in Stage
      BY StagesAfter DEF Stage, AtPg, AtWork
    <2>2. call' \in [Conn -> Call]
      BY <1>7, <2>1, IdentifyType DEF LookupFinds
    <2> QED
      BY <1>7, <2>2 DEF TypeOK, LookupFinds
  <1>8. CASE LookupMisses(c)
    BY <1>8, GoToType DEF TypeOK, LookupMisses, Stage, AtPg, AtWork
  <1>16. CASE PrepareWrapped(c)
    BY <1>16, GoToType DEF TypeOK, PrepareWrapped, Stage, AtPg, AtWork
  <1>9. CASE Run(c)
    <2>0. PICK op \in TextOps(c) :
            /\ TransactionAfter(c, op)
            /\ \E n \in Additions(op), upserted \in Upserts(op), id \in 0 .. MaxIdentity :
                 /\ TakesEffect(c, n, upserted)
                 /\ call' = [call EXCEPT ![c].stage = "ok", ![c].lastId = id,
                                         ![c].applied = call[c].applied + 1]
      BY <1>9 DEF Run
    <2>1. PICK n \in Additions(op), upserted \in Upserts(op), id \in 0 .. MaxIdentity :
            /\ TakesEffect(c, n, upserted)
            /\ call' = [call EXCEPT ![c].stage = "ok", ![c].lastId = id,
                                    ![c].applied = call[c].applied + 1]
      BY <2>0
    <2>2. call[c].applied + 1 \in 0 .. 1
      BY <1>9 DEF Run, At, UnansweredUnapplied
    <2>3. call' \in [Conn -> Call]
      BY <2>1, <2>2 DEF TypeOK, Call, Stage
    <2> QED
      BY <1>9, <2>0, <2>1, <2>3, EffectType, TransactionType DEF TypeOK, Run
  <1>10. CASE PgRejects(c)
    BY <1>10, GoToType DEF TypeOK, PgRejects, Stage
  <1>11. CASE PgGone(c)
    BY <1>11, GoToType DEF TypeOK, PgGone, Stage
  <1>12. CASE RunLost(c)
    <2>0. PICK op \in TextOps(c) :
            \E n \in Additions(op), upserted \in Upserts(op) : TakesEffect(c, n, upserted)
      BY <1>12 DEF RunLost
    <2>1. PICK n \in Additions(op), upserted \in Upserts(op) : TakesEffect(c, n, upserted)
      BY <2>0
    <2>2. call[c].applied + 1 \in 0 .. 1
      BY <1>12 DEF RunLost, At, UnansweredUnapplied
    <2>3. call' \in [Conn -> Call]
      BY <1>12, <2>2 DEF TypeOK, RunLost, Call, Stage
    <2> QED
      BY <1>12, <2>1, <2>3, EffectType, SessionEndsType DEF TypeOK, RunLost
  <1>13. CASE PgDisconnects(c)
    BY <1>13, SessionEndsType DEF TypeOK, PgDisconnects
  <1>14. CASE Return(c)
    BY <1>14, IdleCallType DEF TypeOK, Return
  <1>15. CASE Release(c)
    BY <1>15, IdleCallType, SessionEndsType DEF TypeOK, Release
  <1> QED
    BY <1>1, <1>2, <1>3, <1>4, <1>5, <1>6, <1>7, <1>8, <1>9, <1>10, <1>11, <1>12, <1>13,
       <1>14, <1>15, <1>16 DEF ExecStep, Advance

-----------------------------------------------------------------------------
(* The inductive invariant *)

LEMMA InvInit == Init => ExecInv
  <1> SUFFICES ASSUME Init PROVE ExecInv
    OBVIOUS
  <1>1. TypeOK
    BY ExecutorAssumption, IdleCallType DEF Init, TypeOK
  <1>2. \A c \in Conn : call[c] = IdleCall /\ txn[c] = "none"
    BY DEF Init
  <1> QED
    BY <1>1, <1>2 DEF ExecInv, UnansweredUnapplied, TransactionsNeedSession, SchemaSetMeansLive,
                      PathFollowsSchema, InsertIdIsOwn, IdleCall, AtWork

\* A step of c touches no other connection's session and call.
LEMMA OthersUntouched ==
  ASSUME TypeOK, NEW c \in Conn, ExecStep(c), NEW d \in Conn, d # c
  PROVE  /\ call'[d] = call[d] /\ client'[d] = client[d] /\ path'[d] = path[d]
         /\ txn'[d] = txn[d] /\ wrote'[d] = wrote[d]
  <1> USE DEF TypeOK, GoTo, SessionEnds, TransactionAfter, TakesEffect
  <1>1. CASE BeginSome(c)
    BY <1>1 DEF BeginSome, Begin
  <1>2. CASE AcquireHeld(c) \/ AcquireFail(c) \/ LookupMisses(c) \/ PrepareWrapped(c)
    BY <1>2 DEF AcquireHeld, AcquireFail, LookupMisses, PrepareWrapped
  <1>3. CASE AcquireConnect(c)
    BY <1>3 DEF AcquireConnect
  <1>4. CASE SetSchema(c)
    BY <1>4 DEF SetSchema
  <1>5. CASE Prepare(c) \/ LookupFinds(c)
    BY <1>5 DEF Prepare, LookupFinds
  <1>6. CASE Run(c)
    BY <1>6 DEF Run
  <1>7. CASE PgRejects(c) \/ PgGone(c)
    BY <1>7 DEF PgRejects, PgGone
  <1>8. CASE RunLost(c)
    BY <1>8 DEF RunLost
  <1>9. CASE PgDisconnects(c) \/ Return(c) \/ Release(c)
    BY <1>9 DEF PgDisconnects, Return, Release
  <1> QED
    BY <1>1, <1>2, <1>3, <1>4, <1>5, <1>6, <1>7, <1>8, <1>9 DEF ExecStep, Advance

\* The invariant of one connection.
OwnInv(c) ==
  /\ call[c].stage \notin Done => call[c].applied = 0
  /\ client[c] # "open" => txn[c] = "none"
  /\ call[c].stage \in AtWork /\ SetsSchema(c) => txn[c] # "failed"
  /\ call[c].stage \in AtWork /\ client[c] = "open" /\ SetsSchema(c)
       => path[c] = call[c].schema
  /\ call[c].lastId # 0 => call[c].lastId \in wrote[c]

LEMMA InvIsOwnInvs == ExecInv <=> TypeOK /\ \A c \in Conn : OwnInv(c)
  BY DEF ExecInv, OwnInv, UnansweredUnapplied, TransactionsNeedSession, SchemaSetMeansLive, PathFollowsSchema,
         InsertIdIsOwn

\* A step of c keeps c's own part.
LEMMA OwnStep ==
  ASSUME TypeOK, NEW c \in Conn, OwnInv(c), ExecStep(c)
  PROVE  OwnInv(c)'
  <1> USE DEF TypeOK, OwnInv, SetsSchema, At, GoTo, Done, Failure, AtPg, AtWork
  <1>1. CASE BeginSome(c)
    BY <1>1 DEF BeginSome, Begin
  <1>2. CASE AcquireHeld(c)
    BY <1>2, StagesAfter DEF AcquireHeld
  <1>3. CASE AcquireConnect(c)
    BY <1>3, StagesAfter DEF AcquireConnect, SessionEnds
  <1>4. CASE AcquireFail(c)
    BY <1>4 DEF AcquireFail
  <1>5. CASE SetSchema(c)
    BY <1>5, StagesAfter DEF SetSchema, Accepts
  <1>6. CASE Prepare(c)
    BY <1>6 DEF Prepare, AfterPrepare
  <1>7. CASE LookupFinds(c) \/ LookupMisses(c) \/ PrepareWrapped(c)
    <2>1. /\ call'[c].stage \in {"prepare_wrapped", "run"}
          /\ call'[c].op = call[c].op /\ call'[c].schema = call[c].schema
          /\ call'[c].lastId = call[c].lastId /\ call'[c].applied = call[c].applied
      <3>1. call[c] \in Call
        OBVIOUS
      <3>2. CASE LookupFinds(c)
        BY <3>1, <3>2, StagesAfter DEF LookupFinds, Call
      <3>3. CASE LookupMisses(c)
        BY <3>1, <3>3 DEF LookupMisses, Call
      <3>4. CASE PrepareWrapped(c)
        BY <3>1, <3>4 DEF PrepareWrapped, Call
      <3> QED
        BY <1>7, <3>2, <3>3, <3>4
    <2>2. call[c].stage \in {"lookup", "prepare_wrapped"} /\ UNCHANGED <<client, path, txn, wrote>>
      BY <1>7 DEF LookupFinds, LookupMisses, PrepareWrapped
    <2> QED
      BY <2>1, <2>2
  <1>8. CASE Run(c)
    <2>0. PICK op \in TextOps(c) :
            /\ Accepts(c, op \in Ending)
            /\ \E n \in Additions(op), upserted \in Upserts(op), id \in 0 .. MaxIdentity :
                 /\ TakesEffect(c, n, upserted)
                 /\ Reports(c, Written(n, upserted), id)
                 /\ call' = [call EXCEPT ![c].stage = "ok", ![c].lastId = id,
                                         ![c].applied = call[c].applied + 1]
      BY <1>8 DEF Run
    <2>1. PICK n \in Additions(op), upserted \in Upserts(op), id \in 0 .. MaxIdentity :
            /\ TakesEffect(c, n, upserted)
            /\ Reports(c, Written(n, upserted), id)
            /\ call' = [call EXCEPT ![c].stage = "ok", ![c].lastId = id,
                                    ![c].applied = call[c].applied + 1]
      BY <2>0
    <2>2. id # 0 => id \in wrote'[c]
      BY <2>1 DEF Reports, TakesEffect
    <2>3. call'[c].stage = "ok" /\ call'[c].lastId = id
      BY <2>1 DEF Call
    <2>4. client'[c] = "open"
      BY <1>8, <2>0 DEF Run, Accepts
    <2> QED
      BY <2>2, <2>3, <2>4
  <1>9. CASE PgRejects(c) \/ PgGone(c)
    <2>1. call'[c].stage \in Failure /\ call'[c].lastId = call[c].lastId
      BY <1>9 DEF PgRejects, PgGone, Call
    <2>2. UNCHANGED <<client, wrote>> /\ (client[c] # "open" => txn'[c] = txn[c])
      BY <1>9 DEF PgRejects, PgGone
    <2> QED
      BY <2>1, <2>2
  <1>10. CASE RunLost(c)
    <2>0. PICK op \in TextOps(c) :
            \E n \in Additions(op), upserted \in Upserts(op) : TakesEffect(c, n, upserted)
      BY <1>10 DEF RunLost
    <2>1. PICK n \in Additions(op), upserted \in Upserts(op) : TakesEffect(c, n, upserted)
      BY <2>0
    <2>2. call'[c].stage = "failed" /\ call'[c].lastId = call[c].lastId
      BY <1>10 DEF RunLost
    <2>3. wrote[c] \subseteq wrote'[c] /\ txn'[c] = "none"
      BY <1>10, <2>1 DEF RunLost, SessionEnds, TakesEffect
    <2> QED
      BY <2>2, <2>3
  <1>11. CASE PgDisconnects(c)
    BY <1>11 DEF PgDisconnects, SessionEnds
  <1>12. CASE Return(c)
    BY <1>12 DEF Return, IdleCall
  <1>13. CASE Release(c)
    BY <1>13 DEF Release, SessionEnds, IdleCall
  <1> QED
    BY <1>1, <1>2, <1>3, <1>4, <1>5, <1>6, <1>7, <1>8, <1>9, <1>10, <1>11, <1>12, <1>13
       DEF ExecStep, Advance

LEMMA SomeStep ==
  ASSUME ExecInv, (\E c \in Conn : ExecStep(c)) \/ UNCHANGED execVars
  PROVE  ExecInv'
  <1>1. TypeOK /\ UnansweredUnapplied /\ \A c \in Conn : OwnInv(c)
    BY InvIsOwnInvs DEF ExecInv
  <1>2. CASE \E c \in Conn : ExecStep(c)
    <2>1. PICK c \in Conn : ExecStep(c)
      BY <1>2
    <2>2. TypeOK'
      BY <1>1, <2>1, TypeStep
    <2>3. ASSUME NEW d \in Conn PROVE OwnInv(d)'
      <3>1. CASE d = c
        BY <1>1, <2>1, <3>1, OwnStep
      <3>2. CASE d # c
        BY <1>1, <2>1, <3>2, OthersUntouched DEF OwnInv, SetsSchema
      <3> QED
        BY <3>1, <3>2
    <2> QED
      BY <2>2, <2>3 DEF ExecInv, OwnInv, UnansweredUnapplied, TransactionsNeedSession, SchemaSetMeansLive,
                        PathFollowsSchema, InsertIdIsOwn
  <1>3. CASE UNCHANGED execVars
    BY <1>1, <1>3 DEF execVars, ExecInv, TypeOK, UnansweredUnapplied, TransactionsNeedSession, SchemaSetMeansLive,
                      PathFollowsSchema, InsertIdIsOwn, SetsSchema
  <1> QED
    BY <1>2, <1>3

LEMMA InvStep == ExecInv /\ [Next]_execVars => ExecInv'
  BY NextIsStep, SomeStep DEF Next

LEMMA Invariance == Spec => []ExecInv
  BY InvInit, InvStep, PTL DEF Spec

-----------------------------------------------------------------------------
(* Theorems *)

\* Type correctness (SessionPostgresExecutor and the calls made on it).
THEOREM TypeCorrect == Spec => []TypeOK
  BY Invariance, PTL DEF ExecInv

\* A statement of a caller with a database always reaches PostgreSQL under that
\* database, across reconnections and rollbacks (acquire, set_schema).
THEOREM SchemaIsolation == Spec => []PathFollowsSchema
  BY Invariance, PTL DEF ExecInv

\* The insert id a call returns is that of a row its own session wrote
\* (wrap_insert_returning_sql).
THEOREM InsertIdSafety == Spec => []InsertIdIsOwn
  BY Invariance, PTL DEF ExecInv

\* A session with a database chosen leaves an aborted transaction only by being
\* lost (set_schema before every statement).
THEOREM AbortedSafety == Spec => AbortedStaysAborted
  <1>1. ASSUME ExecInv, Next, NEW d \in Conn, txn[d] = "failed", txn'[d] # "failed",
               SetsSchema(d)
        PROVE  client'[d] # "open"
    <2> USE DEF TypeOK
    <2>1. TypeOK /\ OwnInv(d) /\ client[d] = "open"
      BY <1>1, InvIsOwnInvs DEF OwnInv
    <2>2. PICK c \in Conn : ExecStep(c)
      BY <1>1, NextIsStep DEF Next
    <2>3. c = d
      BY <1>1, <2>1, <2>2, OthersUntouched
    <2>4. CASE BeginSome(d) \/ AcquireHeld(d) \/ AcquireFail(d) \/ Prepare(d) \/ Return(d)
      BY <1>1, <2>4 DEF BeginSome, Begin, AcquireHeld, AcquireFail, Prepare, Return
    <2>5. CASE AcquireConnect(d) \/ PgGone(d)
      BY <2>1, <2>5 DEF AcquireConnect, PgGone
    <2>6. CASE SetSchema(d) \/ LookupFinds(d) \/ LookupMisses(d) \/ PrepareWrapped(d)
      BY <1>1, <2>6 DEF SetSchema, LookupFinds, LookupMisses, PrepareWrapped
    <2>7. CASE Run(d)
      BY <1>1, <2>1, <2>7 DEF Run, OwnInv, At, AtWork
    <2>8. CASE PgRejects(d)
      BY <1>1, <2>1, <2>8 DEF PgRejects
    <2>9. CASE RunLost(d) \/ PgDisconnects(d) \/ Release(d)
      BY <2>1, <2>9 DEF RunLost, PgDisconnects, Release, SessionEnds
    <2> QED
      BY <2>2, <2>3, <2>4, <2>5, <2>6, <2>7, <2>8, <2>9 DEF ExecStep, Advance
  <1>2. ExecInv /\ [Next]_execVars =>
          [\A c \in Conn : txn[c] = "failed" /\ txn'[c] # "failed" =>
             client'[c] # "open" \/ ~SetsSchema(c)]_execVars
    BY <1>1
  <1> QED
    BY Invariance, <1>2, PTL DEF Spec, AbortedStaysAborted

-----------------------------------------------------------------------------
(* The executor implements the statement service *)

\* A call that changes for c alone is a step of the service as soon as its
\* outcome and its count of effects change as one of the service's actions says.
LEMMA ServiceMoves ==
  ASSUME ExecInv, NEW c \in Conn,
         \A d \in Conn \ {c} : call'[d] = call[d],
         \/ Outcome(c)' = Outcome(c) /\ call'[c].applied = call[c].applied
         \/ Outcome(c) = "idle" /\ Outcome(c)' = "pending" /\ call'[c].applied = call[c].applied
         \/ Outcome(c) = "pending" /\ Outcome(c)' = "ok" /\ call'[c].applied = call[c].applied + 1
         \/ /\ Outcome(c) = "pending" /\ Outcome(c)' = "failed"
            /\ call'[c].applied \in {call[c].applied, call[c].applied + 1}
         \/ Outcome(c) \in {"ok", "failed"} /\ Outcome(c)' = "idle" /\ call'[c].applied = 0
  PROVE  Service!Next \/ UNCHANGED Service!vars
  <1> DEFINE outcome == [d \in Conn |-> Outcome(d)]
             effects == [d \in Conn |-> call[d].applied]
  <1>1. \A d \in Conn \ {c} : Outcome(d)' = Outcome(d) /\ call'[d].applied = call[d].applied
    BY DEF Outcome
  <1>2. /\ outcome' = [outcome EXCEPT ![c] = Outcome(c)']
        /\ effects' = [effects EXCEPT ![c] = call'[c].applied]
    BY <1>1
  <1>3. outcome[c] = Outcome(c) /\ effects[c] = call[c].applied
    OBVIOUS
  <1> QED
    BY <1>2, <1>3 DEF Service!Next, Service!vars, Service!Submit, Service!Succeed, Service!Fail,
                      Service!Collect

\* Every step of the executor is one of the service, or none.
LEMMA ServiceStep ==
  ASSUME ExecInv, NEW c \in Conn, ExecStep(c)
  PROVE  Service!Next \/ UNCHANGED Service!vars
  <1>1. TypeOK /\ OwnInv(c) /\ call[c] \in Call
    BY InvIsOwnInvs DEF TypeOK
  <1>2. \A d \in Conn \ {c} : call'[d] = call[d]
    BY <1>1, OthersUntouched
  <1> USE DEF TypeOK, OwnInv, Outcome, At, GoTo, Done, Failure, AtPg, AtWork
  <1>3. CASE BeginSome(c)
    <2>1. Outcome(c) = "idle" /\ Outcome(c)' = "pending" /\ call'[c].applied = call[c].applied
      BY <1>1, <1>3 DEF BeginSome, Begin
    <2> QED
      BY <1>2, <2>1, ServiceMoves
  <1>4. CASE AcquireHeld(c) \/ AcquireConnect(c)
    <2>1. Outcome(c)' = Outcome(c) /\ call'[c].applied = call[c].applied
      BY <1>1, <1>4, StagesAfter DEF AcquireHeld, AcquireConnect, Call
    <2> QED
      BY <1>2, <2>1, ServiceMoves
  <1>5. CASE AcquireFail(c) \/ PgRejects(c) \/ PgGone(c)
    <2>1. /\ Outcome(c) = "pending" /\ Outcome(c)' = "failed"
          /\ call'[c].applied = call[c].applied
      BY <1>1, <1>5 DEF AcquireFail, PgRejects, PgGone, Call
    <2> QED
      BY <1>2, <2>1, ServiceMoves
  <1>6. CASE SetSchema(c)
    <2>1. Outcome(c)' = Outcome(c) /\ call'[c].applied = call[c].applied
      BY <1>1, <1>6, StagesAfter DEF SetSchema, Call
    <2> QED
      BY <1>2, <2>1, ServiceMoves
  <1>7. CASE Prepare(c)
    <2>1. call[c].applied = 0 /\ Outcome(c) = "pending"
      BY <1>1, <1>7 DEF Prepare
    <2>2. CASE call[c].op = "describe"
      <3>1. Outcome(c)' = "ok" /\ call'[c].applied = 1
        BY <1>1, <1>7, <2>2 DEF Prepare, AfterPrepare, Call
      <3> QED
        BY <1>2, <2>1, <3>1, ServiceMoves
    <2>3. CASE call[c].op # "describe"
      <3>1. Outcome(c)' = "pending" /\ call'[c].applied = 0
        BY <1>1, <1>7, <2>3 DEF Prepare, AfterPrepare, Call
      <3> QED
        BY <1>2, <2>1, <3>1, ServiceMoves
    <2> QED
      BY <2>2, <2>3
  <1>8. CASE LookupFinds(c) \/ LookupMisses(c) \/ PrepareWrapped(c)
    <2>1. CASE LookupFinds(c)
      BY <1>1, <1>2, <2>1, StagesAfter, ServiceMoves DEF LookupFinds, Call
    <2>2. CASE LookupMisses(c)
      BY <1>1, <1>2, <2>2, ServiceMoves DEF LookupMisses, Call
    <2>3. CASE PrepareWrapped(c)
      BY <1>1, <1>2, <2>3, ServiceMoves DEF PrepareWrapped, Call
    <2> QED
      BY <1>8, <2>1, <2>2, <2>3
  <1>9. CASE Run(c)
    <2>1. /\ Outcome(c) = "pending" /\ Outcome(c)' = "ok"
          /\ call'[c].applied = call[c].applied + 1
      BY <1>1, <1>9 DEF Run, Call
    <2> QED
      BY <1>2, <2>1, ServiceMoves
  <1>10. CASE RunLost(c)
    <2>1. /\ Outcome(c) = "pending" /\ Outcome(c)' = "failed"
          /\ call'[c].applied = call[c].applied + 1
      BY <1>1, <1>10 DEF RunLost, Call
    <2> QED
      BY <1>2, <2>1, ServiceMoves
  <1>11. CASE PgDisconnects(c)
    BY <1>2, <1>11, ServiceMoves DEF PgDisconnects
  <1>12. CASE Return(c)
    <2>1. call'[c] = IdleCall
      BY <1>1, <1>12 DEF Return
    <2>2. Outcome(c)' = "idle" /\ call'[c].applied = 0
      BY <2>1 DEF IdleCall
    <2>3. Outcome(c) \in {"ok", "failed"}
      BY <1>1, <1>12 DEF Return
    <2> QED
      BY <1>2, <2>2, <2>3, ServiceMoves
  <1>13. CASE Release(c)
    <2>1. call'[c] = IdleCall
      BY <1>1, <1>13 DEF Release
    <2>2. Outcome(c)' = "idle" /\ call'[c].applied = 0
      BY <2>1 DEF IdleCall
    <2>3. Outcome(c) \in {"ok", "failed"} \/ (Outcome(c) = "idle" /\ call[c].applied = 0)
      BY <1>1, <1>13 DEF Release
    <2> QED
      BY <1>2, <2>2, <2>3, ServiceMoves
  <1> QED
    BY <1>3, <1>4, <1>5, <1>6, <1>7, <1>8, <1>9, <1>10, <1>11, <1>12, <1>13 DEF ExecStep, Advance

\* A call is answered once, and its statement takes effect once if it succeeds
\* and at most once if it fails (no method of the executor tries again).
THEOREM Implementation == Spec => ServiceSpec
  <1>1. Init => Service!Init
    BY DEF Init, Service!Init, Outcome, IdleCall, Failure
  <1>2. ExecInv /\ [Next]_execVars => [Service!Next]_(Service!vars)
    <2> SUFFICES ASSUME ExecInv, [Next]_execVars PROVE [Service!Next]_(Service!vars)
      OBVIOUS
    <2>1. CASE Next
      BY <2>1, NextIsStep, ServiceStep DEF Next
    <2>2. CASE UNCHANGED execVars
      BY <2>2 DEF execVars, Service!vars, Outcome
    <2> QED
      BY <2>1, <2>2
  <1> QED
    BY Invariance, <1>1, <1>2, PTL DEF Spec, ServiceSpec, Service!Spec
=============================================================================
