------------------------- MODULE HttpFrontendProofs -------------------------
(* Proofs about the HTTP frontend and the fresh-connection executor, for    *)
(* any clients, routes, texts and limit of PostgreSQL's.                    *)
EXTENDS HttpFrontend, SequenceTheorems, FoldLemmas

Done == [block : BOOLEAN, writes : Nat, durable : Nat]
Nothing == [block |-> FALSE, writes |-> 0, durable |-> 0]

-----------------------------------------------------------------------------
(* What a text does *)

LEMMA EffectType ==
  ASSUME NEW done \in Done, NEW st \in Statements
  PROVE  /\ Effect(done, st) \in Done
         /\ Effect(done, st).writes + Effect(done, st).durable <= done.writes + done.durable + 1
         /\ st \in {"read", "write", "insert"} =>
              /\ Effect(done, st).block = done.block /\ Effect(done, st).durable = done.durable
              /\ Effect(done, st).writes = IF st \in {"write", "insert"} THEN done.writes + 1
                                           ELSE done.writes
  <1>0. done.writes \in Nat /\ done.durable \in Nat /\ done.block \in BOOLEAN
    BY DEF Done
  <1>1. CASE st \in {"write", "insert"}
    <2>1. Effect(done, st) = [block |-> done.block, writes |-> done.writes + 1, durable |-> done.durable]
      BY <1>1, <1>0 DEF Effect, Done
    <2>2. Effect(done, st) \in Done
      BY <1>0, <2>1 DEF Done
    <2> QED
      BY <1>0, <1>1, <2>1, <2>2
  <1>2. CASE st = "begin"
    <2>1. Effect(done, st) = [block |-> TRUE, writes |-> done.writes, durable |-> done.durable]
      BY <1>2, <1>0 DEF Effect, Done
    <2>2. Effect(done, st) \in Done
      BY <1>0, <2>1 DEF Done
    <2> QED
      BY <1>0, <1>2, <2>1, <2>2
  <1>3. CASE st = "commit"
    <2>1. Effect(done, st) = [block |-> FALSE, writes |-> 0, durable |-> done.durable + done.writes]
      BY <1>3, <1>0 DEF Effect, Done
    <2>2. Effect(done, st) \in Done
      BY <1>0, <2>1 DEF Done
    <2> QED
      BY <1>0, <1>3, <2>1, <2>2
  <1>4. CASE st = "rollback"
    <2>1. Effect(done, st) = [block |-> FALSE, writes |-> 0, durable |-> done.durable]
      BY <1>4, <1>0 DEF Effect, Done
    <2>2. Effect(done, st) \in Done
      BY <1>0, <2>1 DEF Done
    <2> QED
      BY <1>0, <1>4, <2>1, <2>2
  <1>5. CASE st = "read"
    <2>1. Effect(done, st) = [block |-> done.block, writes |-> done.writes, durable |-> done.durable]
      BY <1>5, <1>0 DEF Effect, Done
    <2>2. Effect(done, st) \in Done
      BY <1>0, <2>1 DEF Done
    <2> QED
      BY <1>0, <1>5, <2>1, <2>2
  <1> QED
    BY <1>1, <1>2, <1>3, <1>4, <1>5 DEF Statements

\* The fold of After, statement by statement.
LEMMA EffectsInOrder ==
  ASSUME NEW q \in Seq(Statements)
  PROVE  \E g \in [0 .. Len(q) -> Done] :
           /\ g[0] = Nothing
           /\ \A k \in 1 .. Len(q) : g[k] = Effect(g[k - 1], q[k])
           /\ FoldLeft(Effect, Nothing, q) = g[Len(q)]
  <1> DEFINE F == [p \in Done \X Statements |-> Effect(p[1], p[2])]
  <1>1. F \in [Done \X Statements -> Done] /\ Nothing \in Done
    BY EffectType DEF Done, Nothing
  <1>2. PICK e \in [SUBSET DOMAIN q -> Done] : Iterates(e, Nothing, F, q)
    <2> HIDE DEF F
    <2> QED
      BY Zenon, <1>1, FoldExists
  <1>4. e = [s \in SUBSET DOMAIN q |->
               IF s = {} THEN Nothing ELSE Effect(e[s \ {Max(s)}], q[Max(s)])]
    <2>1. ASSUME NEW s \in SUBSET DOMAIN q, s # {}
          PROVE  e[s] = Effect(e[s \ {Max(s)}], q[Max(s)])
      <3>2. e[s \ {Max(s)}] \in Done /\ q[Max(s)] \in Statements
        BY <2>1, PositionOfMax
      <3>3. e[s] = F[<<e[s \ {Max(s)}], q[Max(s)]>>]
        BY Zenon, <1>2, <2>1 DEF Iterates
      <3> QED
        BY <3>2, <3>3
    <2>2. e[{}] = Nothing
      BY Zenon, <1>2 DEF Iterates
    <2> HIDE DEF F
    <2> QED
      BY <2>1, <2>2
  <1>5. PICK f : /\ f = [s \in SUBSET DOMAIN q |->
                          IF s = {} THEN Nothing ELSE Effect(f[s \ {Max(s)}], q[Max(s)])]
                 /\ FoldLeft(Effect, Nothing, q) = f[DOMAIN q]
    BY Zenon, <1>4 DEF FoldLeft, MapThenFoldSet
  <1>6. Unfolds(f, Nothing, F, q, Done)
    <2>1. ASSUME NEW s \in SUBSET DOMAIN q, s # {}, f[s \ {Max(s)}] \in Done
          PROVE  f[s] = F[<<f[s \ {Max(s)}], q[Max(s)]>>]
      <3>1. q[Max(s)] \in Statements
        BY <2>1, PositionOfMax
      <3>2. f[s] = Effect(f[s \ {Max(s)}], q[Max(s)])
        BY Zenon, <1>5, <2>1
      <3> QED
        BY <2>1, <3>1, <3>2
    <2>2. f[{}] = Nothing
      BY Zenon, <1>5
    <2> HIDE DEF F
    <2> QED
      BY Zenon, <2>1, <2>2 DEF Unfolds
  <1>7. PICK g \in [0 .. Len(q) -> Done] : PrefixStates(g, Nothing, F, q, f[DOMAIN q])
    <2> HIDE DEF F
    <2> QED
      BY Zenon, <1>1, <1>6, IterationRuns
  <1>8. \A k \in 1 .. Len(q) : g[k - 1] \in Done /\ q[k] \in Statements
    OBVIOUS
  <1> QED
    BY <1>5, <1>7, <1>8 DEF PrefixStates

\* What the first statements of a text leave: never more than they are, and of
\* a text without transaction statements its writes, none of them committed.
LEMMA EffectsCount ==
  ASSUME NEW q \in Seq(Statements)
  PROVE  LET done == FoldLeft(Effect, Nothing, q)
         IN  /\ done \in Done /\ done.writes + done.durable <= Len(q)
             /\ Plain(q) => ~done.block /\ done.durable = 0 /\ done.writes = Writes(q)
  <1>1. PICK g \in [0 .. Len(q) -> Done] :
          /\ g[0] = Nothing
          /\ \A k \in 1 .. Len(q) : g[k] = Effect(g[k - 1], q[k])
          /\ FoldLeft(Effect, Nothing, q) = g[Len(q)]
    BY EffectsInOrder
  <1> DEFINE W == {i \in DOMAIN q : q[i] \in {"write", "insert"}}
             Counts(k) == /\ g[k].writes + g[k].durable <= k
                          /\ Plain(q) => /\ g[k].block = FALSE /\ g[k].durable = 0
                                         /\ g[k].writes = Cardinality(W \cap (1 .. k))
             S == {k \in 0 .. Len(q) : Counts(k)}
  <1>2. Len(q) \in Nat /\ 0 \in S
    <2>1. Cardinality(W \cap (1 .. 0)) = 0
      BY FS_EmptySet, W \cap (1 .. 0) = {}
    <2> QED
      BY <1>1, <2>1 DEF Nothing
  <1>3. ASSUME NEW k \in 1 .. Len(q), k - 1 \in S PROVE k \in S
    <2>1. /\ g[k - 1] \in Done /\ q[k] \in Statements /\ k \in Nat \ {0}
          /\ g[k] = Effect(g[k - 1], q[k]) /\ Counts(k - 1)
          /\ g[k - 1].writes \in Nat /\ g[k - 1].durable \in Nat
      BY <1>1, <1>3 DEF Done
    <2>2. /\ g[k] \in Done /\ g[k].writes + g[k].durable <= g[k - 1].writes + g[k - 1].durable + 1
          /\ q[k] \in {"read", "write", "insert"} =>
               /\ g[k].block = g[k - 1].block /\ g[k].durable = g[k - 1].durable
               /\ g[k].writes = IF q[k] \in {"write", "insert"} THEN g[k - 1].writes + 1
                                ELSE g[k - 1].writes
      BY <2>1, EffectType
    <2>3. g[k].writes + g[k].durable <= k
      BY <2>1, <2>2 DEF Done
    <2>4. ASSUME Plain(q)
          PROVE  /\ g[k].block = FALSE /\ g[k].durable = 0
                 /\ g[k].writes = Cardinality(W \cap (1 .. k))
      <3>1. q[k] \in {"read", "write", "insert"} /\ (k \in W <=> q[k] \in {"write", "insert"})
        BY <2>4 DEF Plain
      <3>2. Cardinality(W \cap (1 .. k)) = IF k \in W THEN Cardinality(W \cap (1 .. (k - 1))) + 1
                                           ELSE Cardinality(W \cap (1 .. (k - 1)))
        <4> HIDE DEF W
        <4> QED
          BY Zenon, <2>1, CountOfPrefix
      <3> HIDE DEF W
      <3> QED
        BY <2>1, <2>2, <2>4, <3>1, <3>2
    <2> HIDE DEF W
    <2> QED
      BY <2>3, <2>4
  <1>4. Len(q) \in S
    <2> HIDE DEF S
    <2>1. 0 .. Len(q) \subseteq S
      BY Zenon, <1>2, <1>3, BoundedInduction
    <2> QED
      BY <1>2, <2>1
  <1>5. Writes(q) = Cardinality(W \cap (1 .. Len(q)))
    <2>1. W \cap (1 .. Len(q)) = W
      OBVIOUS
    <2> QED
      BY <2>1 DEF Writes
  <1> HIDE DEF W
  <1> QED
    BY <1>1, <1>4, <1>5

\* A text that is run commits no more than it writes; one without transaction
\* statements all of its writes, or none if not all of it is run.
LEMMA AfterCommits ==
  ASSUME NEW q \in Seq(Statements), NEW n \in 0 .. Len(q)
  PROVE  /\ After(q, n).durable \in 0 .. Len(q)
         /\ After(q, n).block \in BOOLEAN /\ After(q, n).writes \in Nat
         /\ Plain(q) => After(q, n).durable = IF n = Len(q) THEN Writes(q) ELSE 0
  <1> DEFINE done == FoldLeft(Effect, Nothing, SubSeq(q, 1, n))
  <1>1. SubSeq(q, 1, n) \in Seq(Statements) /\ Len(SubSeq(q, 1, n)) = n
        /\ \A i \in 1 .. n : SubSeq(q, 1, n)[i] = q[i]
    BY SubSeqProperties
  <1>2. /\ done \in Done /\ done.writes + done.durable <= n
        /\ Plain(SubSeq(q, 1, n)) => /\ ~done.block /\ done.durable = 0
                                     /\ done.writes = Writes(SubSeq(q, 1, n))
    BY <1>1, EffectsCount
  <1>3. Plain(q) => Plain(SubSeq(q, 1, n))
    BY <1>1 DEF Plain
  <1>4. n = Len(q) => SubSeq(q, 1, n) = q
    BY <1>1
  <1>5. After(q, n) = IF done.block \/ n < Len(q) THEN [done EXCEPT !.block = TRUE]
                      ELSE Effect(done, "commit")
    BY DEF After, Nothing
  <1> HIDE DEF done
  <1>6. done.writes \in Nat /\ done.durable \in Nat /\ done.block \in BOOLEAN
    BY <1>2 DEF Done
  <1>7. CASE done.block \/ n < Len(q)
    <2>1. After(q, n) = [block |-> TRUE, writes |-> done.writes, durable |-> done.durable]
      BY <1>2, <1>5, <1>7 DEF Done
    <2> QED
      BY <1>2, <1>3, <1>6, <1>7, <2>1
  <1>8. CASE ~done.block /\ n = Len(q)
    <2>1. After(q, n) = [block |-> FALSE, writes |-> 0, durable |-> done.durable + done.writes]
      BY <1>5, <1>8 DEF Effect
    <2>2. Plain(q) => done.durable = 0 /\ done.writes = Writes(q)
      BY Zenon, <1>2, <1>3, <1>4, <1>8
    <2>3. done.durable + done.writes \in 0 .. Len(q)
          /\ (Plain(q) => done.durable + done.writes = Writes(q))
      BY <1>2, <1>6, <1>8, <2>2
    <2> QED
      BY <1>8, <2>1, <2>3
  <1> QED
    BY <1>7, <1>8

-----------------------------------------------------------------------------
(* The inductive invariant *)

\* Of a call and what is committed of it: nothing before its text has run, and
\* of a plain text all or nothing.
CallInv(c, d) ==
  /\ c.stage \in {"idle", "connect", "dropped"} \cup AtSession => d = 0
  /\ Plain(c.text) => d \in {0, Writes(c.text)}
  /\ Plain(c.text) /\ c.stage = "ok" /\ c.method # "describe_prepared" => d = Writes(c.text)

\* Of a request and the call it makes: the call is of the request's text, it is
\* there while the request waits for it, and how it ended is what was answered.
LinkInv(r, c) ==
  /\ r.stage \in {"none", "received"} => c.stage = "idle" /\ r.status = "none"
  /\ r.stage = "calling" => c.stage # "idle"
  /\ r.status # "none" => r.stage = "answered"
  /\ r.route \in {"execute", "command"} =>
       /\ c.stage # "idle" => c.method = "execute" /\ c.text = r.text
       /\ r.status = "OK" => c.stage = "ok"
       /\ r.status = "BAD_REQUEST" => c.stage = "idle"

HttpInv ==
  /\ TypeOK
  /\ \A t \in Task : CallInv(task[t], durable[t]) /\ LinkInv(request[t], task[t])

LEMMA Given ==
  /\ NoCall \in Call /\ NoRequest \in Request /\ NoSession \in [live : BOOLEAN, block : BOOLEAN, writes : Nat]
  /\ \A x \in Texts : x \in Seq(Statements) /\ Len(x) \in Nat
  /\ \A t \in Task : RoutesOf[t] \subseteq Routes
  <1>1. (CHOOSE x \in Texts : TRUE) \in Texts
    BY FreshAssumption
  <1>2. NoCall \in Call /\ NoRequest \in Request
    BY <1>1 DEF NoCall, Call, Method, NoRequest, Request, Routes
  <1>3. NoSession \in [live : BOOLEAN, block : BOOLEAN, writes : Nat]
    BY DEF NoSession
  <1> QED
    BY <1>2, <1>3, FreshAssumption, HttpAssumption

\* Most steps are of one caller: they leave the others' calls and requests alone.
Others(t) == \A u \in Task \ {t} : /\ task'[u] = task[u] /\ durable'[u] = durable[u]
                                   /\ request'[u] = request[u]

LEMMA OneTask ==
  ASSUME HttpInv, NEW t \in Task, Others(t),
         task' \in [Task -> Call], durable' \in [Task -> Nat], request' \in [Task -> Request],
         session' \in [Task -> [live : BOOLEAN, block : BOOLEAN, writes : Nat]],
         server' \in {"off"} \cup Running,
         durable'[t] <= Len(task'[t].text),
         CallInv(task'[t], durable'[t]), LinkInv(request'[t], task'[t])
  PROVE  HttpInv'
  <1>1. ASSUME NEW u \in Task
        PROVE  /\ durable'[u] <= Len(task'[u].text)
               /\ CallInv(task'[u], durable'[u]) /\ LinkInv(request'[u], task'[u])
    <2>1. CASE u = t
      BY Zenon, <2>1
    <2>2. CASE u # t
      BY <2>2 DEF HttpInv, TypeOK, FreshTypeOK, Others
    <2> QED
      BY <2>1, <2>2
  <1> QED
    BY <1>1 DEF HttpInv, TypeOK, FreshTypeOK

LEMMA Facts ==
  ASSUME HttpInv
  PROVE  /\ task \in [Task -> Call] /\ durable \in [Task -> Nat] /\ request \in [Task -> Request]
         /\ session \in [Task -> [live : BOOLEAN, block : BOOLEAN, writes : Nat]]
         /\ server \in {"off"} \cup Running
         /\ \A t \in Task : /\ durable[t] <= Len(task[t].text)
                            /\ CallInv(task[t], durable[t]) /\ LinkInv(request[t], task[t])
  BY DEF HttpInv, TypeOK, FreshTypeOK

LEMMA HttpInitially == Init => HttpInv
  <1> SUFFICES ASSUME Init PROVE HttpInv
    OBVIOUS
  <1>1. /\ task \in [Task -> Call] /\ durable \in [Task -> Nat] /\ request \in [Task -> Request]
        /\ session \in [Task -> [live : BOOLEAN, block : BOOLEAN, writes : Nat]]
        /\ server \in {"off"} \cup Running
    BY Given DEF Init, FreshInit
  <1>2. ASSUME NEW t \in Task
        PROVE  /\ durable[t] <= Len(task[t].text)
               /\ CallInv(task[t], durable[t]) /\ LinkInv(request[t], task[t])
    <2>1. task[t] = NoCall /\ durable[t] = 0 /\ request[t] = NoRequest
      BY DEF Init, FreshInit
    <2>2. /\ NoCall.stage = "idle" /\ Len(NoCall.text) \in Nat
          /\ NoRequest.stage = "none" /\ NoRequest.status = "none" /\ NoRequest.route = "health"
      <3>1. NoCall.text \in Texts
        BY Given DEF Call
      <3> QED
        BY <3>1, Given DEF NoCall, NoRequest
    <2> QED
      BY <2>1, <2>2 DEF CallInv, LinkInv
  <1> QED
    BY <1>1, <1>2 DEF HttpInv, TypeOK, FreshTypeOK

-----------------------------------------------------------------------------
(* The executor's steps *)

\* A step that only moves a call to another stage, with nothing committed yet.
Moves(t, stage) ==
  /\ task' = [task EXCEPT ![t].stage = stage]
  /\ UNCHANGED durable

LEMMA MovesKeep ==
  ASSUME HttpInv, NEW t \in Task, At(t, "calling"), UNCHANGED <<server, request>>,
         NEW stage \in AtSession \cup {"ok", "failed"}, Moves(t, stage),
         task[t].stage \in {"connect", "dropped"} \cup AtSession,
         stage = "ok" => task[t].method = "describe_prepared",
         session' \in [Task -> [live : BOOLEAN, block : BOOLEAN, writes : Nat]]
  PROVE  HttpInv'
  <1> USE Facts
  <1>1. task[t] \in Call /\ durable[t] = 0 /\ Len(task[t].text) \in Nat
    BY Given DEF CallInv, Call
  <1>2. /\ task' \in [Task -> Call] /\ durable' = durable
        /\ task'[t] = [task[t] EXCEPT !.stage = stage] /\ \A u \in Task \ {t} : task'[u] = task[u]
    BY DEF Moves, Call
  <1>3. task'[t].stage = stage /\ task'[t].text = task[t].text /\ task'[t].method = task[t].method
    BY <1>1, <1>2 DEF Call
  <1>4. CallInv(task'[t], durable'[t])
    BY <1>1, <1>2, <1>3 DEF CallInv
  <1>5. LinkInv(request'[t], task'[t])
    BY <1>3 DEF LinkInv, At, AtSession
  <1> QED
    BY <1>1, <1>2, <1>3, <1>4, <1>5, OneTask DEF Others

\* A step that runs a text, or its first statements.
LEMMA RunKeeps ==
  ASSUME HttpInv, NEW t \in Task, UNCHANGED <<server, request>>,
         task[t].stage \in {"run", "dropped"},
         NEW n \in 0 .. Len(task[t].text), Runs(t, n),
         NEW stage \in {"ok", "failed"}, stage = "ok" => n = Len(task[t].text), Go(t, stage)
  PROVE  HttpInv'
  <1> USE Facts
  <1> DEFINE x == task[t].text
  <1>1. /\ task[t] \in Call /\ durable[t] = 0 /\ x \in Seq(Statements) /\ Len(x) \in Nat
    BY Given DEF CallInv, Call, AtSession
  <1>2. /\ task' \in [Task -> Call]
        /\ task'[t] = [task[t] EXCEPT !.stage = stage] /\ \A u \in Task \ {t} : task'[u] = task[u]
    BY DEF Go, Call
  <1>3. task'[t].stage = stage /\ task'[t].text = x /\ task'[t].method = task[t].method
    BY <1>1, <1>2 DEF Call
  <1>4. /\ After(x, n).durable \in 0 .. Len(x)
        /\ After(x, n).block \in BOOLEAN /\ After(x, n).writes \in Nat
        /\ Plain(x) => After(x, n).durable = IF n = Len(x) THEN Writes(x) ELSE 0
    BY <1>1, AfterCommits
  <1>5. /\ durable' = [durable EXCEPT ![t] = @ + After(x, n).durable]
        /\ session' = [session EXCEPT ![t].block = After(x, n).block, ![t].writes = After(x, n).writes]
    BY DEF Runs
  <1>6. /\ durable' \in [Task -> Nat] /\ durable'[t] = After(x, n).durable
        /\ \A u \in Task \ {t} : durable'[u] = durable[u]
    BY <1>1, <1>4, <1>5
  <1>7. session' \in [Task -> [live : BOOLEAN, block : BOOLEAN, writes : Nat]]
    BY <1>4, <1>5
  <1>8. CallInv(task'[t], durable'[t])
    <2>1. Plain(x) => durable'[t] = IF n = Len(x) THEN Writes(x) ELSE 0
      BY <1>4, <1>6
    <2> QED
      BY <1>3, <2>1 DEF CallInv, AtSession
  <1>9. LinkInv(request'[t], task'[t])
    BY <1>3 DEF LinkInv
  <1>10. durable'[t] <= Len(task'[t].text) /\ Others(t)
    BY <1>1, <1>2, <1>3, <1>4, <1>6 DEF Others
  <1> HIDE DEF x
  <1> QED
    BY <1>2, <1>6, <1>7, <1>8, <1>9, <1>10, OneTask

LEMMA AdvanceKeeps ==
  ASSUME HttpInv, NEW t \in Task, Polled(t)
  PROVE  HttpInv'
  <1> USE Facts
  <1>0. At(t, "calling") /\ UNCHANGED <<server, request>> /\ task[t] \in Call
    BY DEF Polled
  <1>1. AfterPath(t) \in AtSession
    BY DEF AfterPath, AtSession
  <1>2. CASE Connect(t)
    <2>1. session' \in [Task -> [live : BOOLEAN, block : BOOLEAN, writes : Nat]]
      BY <1>2 DEF Connect, NewSession, NoSession
    <2>2. \E stage \in AtSession \cup {"ok", "failed"} : Moves(t, stage) /\ stage # "ok"
      <3>1. (IF task[t].inSchema THEN "path" ELSE AfterPath(t)) \in AtSession
        BY <1>1 DEF AtSession
      <3> QED
        BY <1>2, <3>1 DEF Connect, Go, Moves, AtSession
    <2> QED
      BY <1>0, <1>2, <2>1, <2>2, MovesKeep DEF Connect, In
  <1>3. CASE ConnectFails(t)
    BY <1>0, <1>3, MovesKeep DEF ConnectFails, In, Go, Moves
  <1>4. CASE SetPath(t)
    <2>1. Moves(t, AfterPath(t)) /\ AfterPath(t) # "ok" /\ task[t].stage \in AtSession
      BY <1>1, <1>4 DEF SetPath, In, Go, Moves, AtSession
    <2> QED
      BY <1>0, <1>1, <1>4, <2>1, MovesKeep DEF SetPath
  <1>5. CASE Prepare(t)
    <2>1. PICK stage \in AtSession \cup {"ok", "failed"} :
            Moves(t, stage) /\ (stage = "ok" => task[t].method = "describe_prepared")
      <3> DEFINE stage == IF task[t].method = "describe_prepared" THEN "ok"
                          ELSE IF Head(task[t].text) = "insert" THEN "lookup" ELSE "run"
      <3>1. Moves(t, stage)
        BY <1>5 DEF Prepare, Go, Moves
      <3>2. stage \in {"ok", "lookup", "run"}
        OBVIOUS
      <3>3. stage = "ok" => task[t].method = "describe_prepared"
        OBVIOUS
      <3> HIDE DEF stage
      <3> QED
        BY <3>1, <3>2, <3>3 DEF AtSession
    <2> QED
      BY <1>0, <1>5, <2>1, MovesKeep DEF Prepare, In, AtSession
  <1>6. CASE Lookup(t)
    <2>1. PICK found \in BOOLEAN :
            task' = [task EXCEPT ![t].stage = "run", ![t].identified = found]
      BY <1>6 DEF Lookup
    <2>2. /\ task' \in [Task -> Call] /\ \A u \in Task \ {t} : task'[u] = task[u]
          /\ task'[t] = [task[t] EXCEPT !.stage = "run", !.identified = found]
      <3>1. task' = [task EXCEPT ![t] = [task[t] EXCEPT !.stage = "run", !.identified = found]]
        BY <2>1
      <3>2. [task[t] EXCEPT !.stage = "run", !.identified = found] \in Call
        BY <1>0 DEF Call, AtSession
      <3> QED
        BY <3>1, <3>2
    <2>3. /\ task'[t].stage = "run" /\ task'[t].text = task[t].text
          /\ task'[t].method = task[t].method /\ task[t].stage = "lookup"
      BY <1>0, <1>6, <2>2 DEF Call, Lookup, In
    <2>4. CallInv(task'[t], durable'[t]) /\ UNCHANGED <<durable, session>>
      BY <1>6, <2>3 DEF CallInv, AtSession, Lookup
    <2>5. LinkInv(request'[t], task'[t])
      BY <1>0, <2>3 DEF LinkInv, At
    <2> QED
      BY <1>0, <2>2, <2>3, <2>4, <2>5, OneTask DEF Others
  <1>7. CASE Run(t)
    <2>1. Len(task[t].text) \in 0 .. Len(task[t].text)
      BY <1>0, Given DEF Call
    <2> QED
      BY <1>0, <1>7, <2>1, RunKeeps DEF Run, In
  <1>8. CASE Fails(t)
    <2>1. PICK n \in 0 .. Len(task[t].text) :
            IF In(t, "run") /\ Wrappable(t) THEN Runs(t, n) ELSE UNCHANGED <<session, durable>>
      BY <1>8 DEF Fails
    <2>2. CASE In(t, "run") /\ Wrappable(t)
      BY <1>0, <1>8, <2>1, <2>2, RunKeeps DEF Fails, In
    <2>3. CASE ~(In(t, "run") /\ Wrappable(t))
      BY <1>0, <1>8, <2>1, <2>3, MovesKeep DEF Fails, Go, Moves
    <2> QED
      BY <2>2, <2>3
  <1> QED
    BY <1>2, <1>3, <1>4, <1>5, <1>6, <1>7, <1>8 DEF Polled, Advance

LEMMA PgSideKeeps ==
  ASSUME HttpInv, NEW t \in Task, PgSide(t)
  PROVE  HttpInv'
  <1> USE Facts
  <1>0. UNCHANGED <<server, request>> /\ task[t] \in Call
    BY DEF PgSide
  <1>1. CASE RunsDropped(t)
    <2>1. Len(task[t].text) \in 0 .. Len(task[t].text)
      BY <1>0, Given DEF Call
    <2> QED
      BY <1>0, <1>1, <2>1, RunKeeps DEF RunsDropped, In
  <1>2. CASE PgEnds(t)
    <2> DEFINE stage == IF task[t].stage = "dropped" THEN "failed" ELSE task[t].stage
    <2>1. /\ task' \in [Task -> Call] /\ \A u \in Task \ {t} : task'[u] = task[u]
          /\ task'[t] = [task[t] EXCEPT !.stage = stage]
      BY <1>2 DEF PgEnds, Call
    <2>2. /\ task'[t].stage = stage /\ task'[t].text = task[t].text
          /\ task'[t].method = task[t].method /\ task[t].stage \in {"dropped", "ok", "failed"}
      BY <1>0, <1>2, <2>1 DEF Call, PgEnds
    <2>3. session' \in [Task -> [live : BOOLEAN, block : BOOLEAN, writes : Nat]] /\ durable' = durable
      BY <1>2, Given DEF PgEnds
    <2>4. CallInv(task'[t], durable'[t])
      BY <2>2, <2>3 DEF CallInv, AtSession
    <2>5. LinkInv(request'[t], task'[t])
      BY <1>0, <2>2 DEF LinkInv
    <2> QED
      BY <1>0, <2>1, <2>2, <2>3, <2>4, <2>5, OneTask DEF Others
  <1> QED
    BY <1>1, <1>2 DEF PgSide

-----------------------------------------------------------------------------
(* The frontend's steps *)

\* A step that only answers or drops a request.
LEMMA RequestKeeps ==
  ASSUME HttpInv, NEW t \in Task, UNCHANGED <<task, session, durable, server>>,
         NEW r \in Request, request' = [request EXCEPT ![t] = r], LinkInv(r, task[t])
  PROVE  HttpInv'
  <1> USE Facts
  <1>1. /\ request' \in [Task -> Request] /\ request'[t] = r
        /\ \A u \in Task \ {t} : request'[u] = request[u]
    OBVIOUS
  <1> QED
    BY <1>1, OneTask DEF Others

\* A step that begins a call for a request.
LEMMA BeginKeeps ==
  ASSUME HttpInv, NEW t \in Task, At(t, "received"), UNCHANGED server,
         NEW method \in Method, NEW inSchema \in BOOLEAN,
         Begin(t, method, request[t].text, inSchema),
         request' = [request EXCEPT ![t].stage = "calling"],
         request[t].route \in {"execute", "command"} => method = "execute"
  PROVE  HttpInv'
  <1> USE Facts
  <1> DEFINE c == [stage |-> "connect", method |-> method, text |-> request[t].text,
                   inSchema |-> inSchema, identified |-> FALSE]
             r == [request[t] EXCEPT !.stage = "calling"]
  <1>1. request[t] \in Request /\ request[t].stage = "received" /\ request[t].status = "none"
    BY DEF At, LinkInv
  <1>2. c \in Call /\ r \in Request /\ Len(c.text) \in Nat
    BY <1>1, Given DEF Call, Request
  <1>3. task' = [task EXCEPT ![t] = c] /\ durable' = [durable EXCEPT ![t] = 0] /\ session' = session
    BY DEF Begin
  <1>4. request' = [request EXCEPT ![t] = r]
    OBVIOUS
  <1>5. r.status = "none" /\ r.stage = "calling" /\ r.route = request[t].route /\ r.text = c.text
    BY <1>1 DEF Request
  <1>6. CallInv(c, 0) /\ LinkInv(r, c)
    BY <1>5 DEF CallInv, LinkInv
  <1> HIDE DEF c, r
  <1>7. /\ task' \in [Task -> Call] /\ task'[t] = c
        /\ durable' \in [Task -> Nat] /\ durable'[t] = 0
        /\ request' \in [Task -> Request] /\ request'[t] = r
        /\ \A u \in Task \ {t} : /\ task'[u] = task[u] /\ durable'[u] = durable[u]
                                 /\ request'[u] = request[u]
    BY <1>2, <1>3, <1>4
  <1>8. durable'[t] <= Len(task'[t].text)
    BY <1>2, <1>7
  <1> QED
    BY <1>3, <1>6, <1>7, <1>8, OneTask DEF Others

LEMMA HandleKeeps ==
  ASSUME HttpInv, NEW t \in Task, Handle(t)
  PROVE  HttpInv'
  <1> USE Facts
  <1>0. request[t] \in Request /\ task[t] \in Call
    OBVIOUS
  \* An answer, and what it has to be true to.
  <1>1. ASSUME NEW status \in {"OK", "BAD_REQUEST", "BAD_GATEWAY"}, Answer(t, status),
               UNCHANGED <<task, session, durable, server>>,
               request[t].stage \in {"received", "calling"},
               request[t].route \in {"execute", "command"} =>
                 /\ status = "OK" => task[t].stage = "ok"
                 /\ status = "BAD_REQUEST" => task[t].stage = "idle"
        PROVE  HttpInv'
    <2> DEFINE r == [request[t] EXCEPT !.stage = "answered", !.status = status]
    <2>1. r \in Request
      BY <1>0 DEF Request
    <2>2. request' = [request EXCEPT ![t] = r]
      BY <1>1 DEF Answer
    <2>3. r.stage = "answered" /\ r.status = status /\ r.route = request[t].route
          /\ r.text = request[t].text
      BY <1>0 DEF Request
    <2>4. LinkInv(r, task[t])
      BY <1>1, <2>3 DEF LinkInv
    <2> HIDE DEF r
    <2> QED
      BY <1>1, <2>1, <2>2, <2>4, RequestKeeps
  <1>2. CASE Health(t)
    BY <1>1, <1>2 DEF Health, At
  <1>3. CASE Translate(t)
    BY <1>1, <1>3 DEF Translate, At
  <1>4. CASE Execute(t)
    <2>1. CASE request[t].translates
      BY <1>4, <2>1, BeginKeeps DEF Execute, Method
    <2>2. CASE ~request[t].translates
      BY <1>1, <1>4, <2>2 DEF Execute, At, LinkInv
    <2> QED
      BY <2>1, <2>2
  <1>5. CASE CallLibrary(t)
    BY <1>5, BeginKeeps DEF CallLibrary
  <1>6. CASE Finish(t)
    <2>1. CASE In(t, "ok")
      BY <1>1, <1>6, <2>1 DEF Finish, At, In
    <2>2. CASE ~In(t, "ok")
      BY <1>1, <1>6, <2>2 DEF Finish, At
    <2> QED
      BY <2>1, <2>2
  <1> QED
    BY <1>2, <1>3, <1>4, <1>5, <1>6 DEF Handle

LEMMA ReceiveKeeps ==
  ASSUME HttpInv, NEW t \in Task, NEW route \in RoutesOf[t], NEW x \in Texts,
         NEW translates \in BOOLEAN, Receive(t, route, x, translates)
  PROVE  HttpInv'
  <1> USE Facts
  <1> DEFINE r == [stage |-> "received", route |-> route, text |-> x,
                   translates |-> translates, status |-> "none"]
  <1>1. r \in Request
    BY Given DEF Request
  <1>2. LinkInv(r, task[t])
    BY DEF Receive, In, LinkInv
  <1>3. request' = [request EXCEPT ![t] = r] /\ UNCHANGED <<task, session, durable, server>>
    BY DEF Receive
  <1> HIDE DEF r
  <1> QED
    BY <1>1, <1>2, <1>3, RequestKeeps

LEMMA GoneKeeps ==
  ASSUME HttpInv, NEW t \in Task, ClientGone(t)
  PROVE  HttpInv'
  <1> USE Facts
  <1> DEFINE r == [request[t] EXCEPT !.stage = "gone"]
  <1>1. /\ request[t] \in Request /\ task[t] \in Call
        /\ request[t].status = "none" /\ request[t].stage \in {"received", "calling"}
    BY DEF ClientGone, LinkInv
  <1>2. /\ r \in Request /\ r.stage = "gone" /\ r.status = "none"
        /\ r.route = request[t].route /\ r.text = request[t].text
    BY <1>1 DEF Request
  <1>3. request' = [request EXCEPT ![t] = r] /\ UNCHANGED server
    BY DEF ClientGone
  <1> HIDE DEF r
  <1>4. CASE task[t].stage \in {"connect"} \cup AtSession
    <2>1. IfDropped(t) \in {"dropped", "failed"}
      BY DEF IfDropped
    <2>2. /\ task' \in [Task -> Call] /\ \A u \in Task \ {t} : task'[u] = task[u]
          /\ task'[t] = [task[t] EXCEPT !.stage = IfDropped(t)]
          /\ UNCHANGED <<session, durable>>
      <3>1. task' = [task EXCEPT ![t].stage = IfDropped(t)] /\ UNCHANGED <<session, durable>>
        BY Zenon, <1>4 DEF ClientGone, Drops, Go
      <3>2. [task[t] EXCEPT !.stage = IfDropped(t)] \in Call
        BY <1>1, <2>1 DEF Call
      <3> QED
        BY <3>1, <3>2
    <2>3. /\ task'[t].stage = IfDropped(t) /\ task'[t].text = task[t].text
          /\ task'[t].method = task[t].method
      BY <1>1, <2>2 DEF Call
    <2>4. CallInv(task'[t], durable'[t])
      BY <1>4, <2>1, <2>2, <2>3 DEF CallInv
    <2>5. LinkInv(r, task'[t])
      BY <1>2, <1>4, <2>1, <2>3 DEF LinkInv, AtSession
    <2>6. /\ request' \in [Task -> Request] /\ request'[t] = r
          /\ \A u \in Task \ {t} : request'[u] = request[u]
      BY <1>2, <1>3
    <2> QED
      BY <1>3, <2>2, <2>3, <2>4, <2>5, <2>6, OneTask DEF Others
  <1>5. CASE task[t].stage \notin {"connect"} \cup AtSession
    <2>1. UNCHANGED <<task, session, durable>>
      BY <1>5 DEF ClientGone
    <2>2. LinkInv(r, task[t])
      BY <1>2 DEF LinkInv
    <2> QED
      BY <1>2, <1>3, <2>1, <2>2, RequestKeeps
  <1> QED
    BY <1>4, <1>5

LEMMA ForgetKeeps ==
  ASSUME HttpInv, NEW t \in Task, Forget(t)
  PROVE  HttpInv'
  <1> USE Facts
  <1>1. request' = [request EXCEPT ![t] = NoRequest] /\ UNCHANGED server
    BY DEF Forget
  <1>2. /\ NoRequest.stage = "none" /\ NoRequest.status = "none" /\ NoRequest.route = "health"
        /\ NoCall.stage = "idle" /\ Len(NoCall.text) \in Nat
    <2>1. NoCall.text \in Texts
      BY Given DEF Call
    <2> QED
      BY <2>1, Given DEF NoRequest, NoCall
  <1>3. CASE In(t, "idle")
    <2>1. LinkInv(NoRequest, task[t])
      BY <1>2, <1>3 DEF LinkInv, In
    <2> QED
      BY <1>1, <1>3, <2>1, Given, RequestKeeps DEF Forget
  <1>4. CASE ~In(t, "idle")
    <2>1. /\ task' \in [Task -> Call] /\ task'[t] = NoCall
          /\ durable' \in [Task -> Nat] /\ durable'[t] = 0
          /\ \A u \in Task \ {t} : task'[u] = task[u] /\ durable'[u] = durable[u]
          /\ UNCHANGED session
      <3>1. /\ task' = [task EXCEPT ![t] = NoCall] /\ durable' = [durable EXCEPT ![t] = 0]
            /\ UNCHANGED session
        BY Zenon, <1>4 DEF Forget, Collect
      <3> QED
        BY <3>1, Given
    <2>2. CallInv(NoCall, 0) /\ LinkInv(NoRequest, NoCall)
      BY <1>2 DEF CallInv, LinkInv
    <2>3. /\ request' \in [Task -> Request] /\ request'[t] = NoRequest
          /\ \A u \in Task \ {t} : request'[u] = request[u]
      BY <1>1, Given
    <2>4. durable'[t] <= Len(task'[t].text)
      BY <1>2, <2>1
    <2> QED
      BY <1>1, <2>1, <2>2, <2>3, <2>4, OneTask DEF Others
  <1> QED
    BY <1>3, <1>4

LEMMA ServeKeeps ==
  ASSUME HttpInv, Start \/ MySqlBinds \/ ServeEnds
  PROVE  HttpInv'
  <1> USE Facts
  <1>1. CASE Start \/ MySqlBinds
    <2>1. server' \in {"off"} \cup Running /\ UNCHANGED <<task, session, durable, request>>
      BY <1>1 DEF Start, MySqlBinds, Running
    <2> QED
      BY <2>1 DEF HttpInv, TypeOK, FreshTypeOK
  <1>2. CASE ServeEnds
    <2> DEFINE cut == {t \in Task : request[t].stage \in {"received", "calling"}
                                    /\ request[t].route \notin Local}
    <2>1. /\ server' = "off" /\ UNCHANGED <<session, durable>>
          /\ request' = [t \in Task |-> IF t \in cut THEN [request[t] EXCEPT !.stage = "gone"]
                                        ELSE request[t]]
          /\ task' = [t \in Task |->
                        IF t \in cut /\ task[t].stage \in {"connect"} \cup AtSession
                        THEN [task[t] EXCEPT !.stage = IfDropped(t)] ELSE task[t]]
      BY <1>2 DEF ServeEnds
    <2>2. ASSUME NEW t \in Task
          PROVE  /\ task'[t] \in Call /\ request'[t] \in Request
                 /\ durable'[t] <= Len(task'[t].text)
                 /\ CallInv(task'[t], durable'[t]) /\ LinkInv(request'[t], task'[t])
      <3> DEFINE r == [request[t] EXCEPT !.stage = "gone"]
                 c == [task[t] EXCEPT !.stage = IfDropped(t)]
      <3>1. task[t] \in Call /\ request[t] \in Request /\ IfDropped(t) \in {"dropped", "failed"}
        BY DEF IfDropped
      <3>2. /\ r \in Request /\ r.stage = "gone" /\ r.status = request[t].status
            /\ r.route = request[t].route /\ r.text = request[t].text
        BY <3>1 DEF Request
      <3>3. /\ c \in Call /\ c.stage = IfDropped(t) /\ c.text = task[t].text
            /\ c.method = task[t].method
        BY <3>1 DEF Call
      <3>4. CASE t \notin cut
        <4>1. task'[t] = task[t] /\ request'[t] = request[t] /\ durable'[t] = durable[t]
          BY <2>1, <3>4
        <4> QED
          BY <4>1
      <3>5. CASE t \in cut /\ task[t].stage \in {"connect"} \cup AtSession
        <4>1. task'[t] = c /\ request'[t] = r /\ durable'[t] = durable[t]
          BY <2>1, <3>5
        <4>2. r.status = "none" /\ task[t].stage # "idle"
          BY <3>2, <3>5 DEF LinkInv, AtSession
        <4>3. CallInv(c, durable[t])
          BY <3>1, <3>3, <3>5 DEF CallInv
        <4>4. LinkInv(r, c)
          BY <3>2, <3>3, <4>2 DEF LinkInv
        <4> HIDE DEF r, c
        <4> QED
          BY <3>2, <3>3, <4>1, <4>3, <4>4
      <3>6. CASE t \in cut /\ task[t].stage \notin {"connect"} \cup AtSession
        <4>1. task'[t] = task[t] /\ request'[t] = r /\ durable'[t] = durable[t]
          BY <2>1, <3>6
        <4>2. r.status = "none"
          BY <3>2, <3>6 DEF LinkInv
        <4>3. LinkInv(r, task[t])
          BY <3>2, <4>2 DEF LinkInv
        <4> HIDE DEF r, c
        <4> QED
          BY <3>1, <3>2, <4>1, <4>3
      <3> QED
        BY <3>4, <3>5, <3>6
    <2>3. task' \in [Task -> Call] /\ request' \in [Task -> Request]
      BY <2>1, <2>2
    <2> QED
      BY <2>1, <2>2, <2>3 DEF HttpInv, TypeOK, FreshTypeOK
  <1> QED
    BY <1>1, <1>2

LEMMA HttpStep == HttpInv /\ [Next]_vars => HttpInv'
  <1> SUFFICES ASSUME HttpInv, [Next]_vars PROVE HttpInv'
    OBVIOUS
  <1>1. CASE Start \/ MySqlBinds \/ ServeEnds
    BY <1>1, ServeKeeps
  <1>2. ASSUME NEW t \in Task, NEW route \in RoutesOf[t], NEW x \in Texts,
               NEW translates \in BOOLEAN, Receive(t, route, x, translates)
        PROVE  HttpInv'
    BY <1>2, ReceiveKeeps
  <1>3. ASSUME NEW t \in Task, Handle(t) PROVE HttpInv'
    BY <1>3, HandleKeeps
  <1>4. ASSUME NEW t \in Task, Polled(t) PROVE HttpInv'
    BY <1>4, AdvanceKeeps
  <1>5. ASSUME NEW t \in Task, PgSide(t) PROVE HttpInv'
    BY <1>5, PgSideKeeps
  <1>6. ASSUME NEW t \in Task, ClientGone(t) PROVE HttpInv'
    BY <1>6, GoneKeeps
  <1>7. ASSUME NEW t \in Task, Forget(t) PROVE HttpInv'
    BY <1>7, ForgetKeeps
  <1>8. CASE UNCHANGED vars
    BY <1>8 DEF vars, HttpInv, TypeOK, FreshTypeOK
  <1> QED
    BY <1>1, <1>2, <1>3, <1>4, <1>5, <1>6, <1>7, <1>8 DEF Next

THEOREM HttpInvariant == Spec => []HttpInv
  BY HttpInitially, HttpStep, PTL DEF Spec

-----------------------------------------------------------------------------
(* What a client is told *)

\* Calls, sessions and requests are of their types, and no more writes of a text
\* last than it has statements (execute_sql_in_schema, execute_handler).
THEOREM HttpTyped == Spec => []TypeOK
  <1>1. HttpInv => TypeOK
    BY DEF HttpInv
  <1> QED
    BY <1>1, HttpInvariant, PTL

\* An answered text without transaction statements is all there, a failed or
\* dropped one is there or not but never in part (execute_sql_in_schema,
\* wrap_insert_returning_sql).
THEOREM TextsAreAtomic == Spec => []AllOrNothing
  <1>1. HttpInv => AllOrNothing
    BY DEF HttpInv, AllOrNothing, CallInv, In
  <1> QED
    BY <1>1, HttpInvariant, PTL

\* BAD_REQUEST, nothing was done; OK, all of a text that has no transaction
\* statements of its own; and an error, all or nothing (execute_handler, main).
THEOREM StatusIsTrue == Spec => []StatusTellsEffect
  <1>1. ASSUME HttpInv, NEW t \in Task, request[t].route \in {"execute", "command"}
        PROVE  /\ request[t].status = "BAD_REQUEST" => In(t, "idle") /\ durable[t] = 0
               /\ request[t].status = "OK" /\ Plain(request[t].text)
                    => durable[t] = Writes(request[t].text)
               /\ ~At(t, "none") /\ Plain(request[t].text)
                    => durable[t] \in {0, Writes(request[t].text)}
    <2> USE <1>1, Facts
    <2>1. CASE task[t].stage = "idle"
      <3>1. durable[t] = 0
        BY <2>1 DEF CallInv
      <3>2. request[t].status # "OK"
        BY <2>1 DEF LinkInv
      <3> QED
        BY <2>1, <3>1, <3>2 DEF In
    <2>2. CASE task[t].stage # "idle"
      <3>1. /\ task[t].text = request[t].text /\ task[t].method = "execute"
            /\ request[t].status = "OK" => task[t].stage = "ok"
            /\ request[t].status # "BAD_REQUEST"
        BY <2>2 DEF LinkInv
      <3> QED
        BY <3>1 DEF CallInv
    <2> QED
      BY <2>1, <2>2
  <1>2. HttpInv => StatusTellsEffect
    BY <1>1 DEF StatusTellsEffect
  <1> QED
    BY <1>2, HttpInvariant, PTL
=============================================================================
