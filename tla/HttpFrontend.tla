---------------------------- MODULE HttpFrontend ----------------------------
(***************************************************************************)
(* The HTTP frontend of src/src/server.rs, and the commands of             *)
(* src/src/main.rs, over the fresh-connection executor: every request is   *)
(* translated, refused or run in a session of its own, and answered.       *)
(* serve joins the HTTP and the MySQL frontend: when one of them fails     *)
(* both end, with every request in flight.                                 *)
(***************************************************************************)
EXTENDS FreshExecutor

CONSTANT RoutesOf  \* of each caller: what it calls

VARIABLES server,  \* the serve command
          request  \* of each client

vars == <<task, session, durable, server, request>>

\* command: the Execute of main; library: a program that calls the crate's executor.
Routes == {"health", "translate", "execute", "command", "library"}
Local  == {"command", "library"}

ASSUME HttpAssumption == RoutesOf \in [Task -> SUBSET Routes]
Running == {"http", "both"}                    \* listening for HTTP only, or for MySQL too

Request == [stage : {"none", "received", "calling", "answered", "gone"}, route : Routes,
            text : Texts, translates : BOOLEAN,
            status : {"none", "OK", "BAD_REQUEST", "BAD_GATEWAY"}]

TypeOK == /\ FreshTypeOK
          /\ server \in {"off"} \cup Running
          /\ request \in [Task -> Request]

NoRequest == [stage |-> "none", route |-> "health", text |-> CHOOSE x \in Texts : TRUE,
              translates |-> TRUE, status |-> "none"]

Init == /\ FreshInit
        /\ server = "off"
        /\ request = [t \in Task |-> NoRequest]

At(t, stage) == request[t].stage = stage
Answer(t, status) ==
  request' = [request EXCEPT ![t].stage = "answered", ![t].status = status]

-----------------------------------------------------------------------------
(* serve *)

\* The driver of the configuration is known and the HTTP address can be bound.
Start == /\ server = "off"
         /\ server' = "http"
         /\ UNCHANGED <<task, session, durable, request>>

MySqlBinds == /\ server = "http"
              /\ server' = "both"
              /\ UNCHANGED <<task, session, durable, request>>

\* The MySQL address cannot be bound, or one of the frontends fails to accept:
\* try_join returns, the process ends and drops every request it had.
ServeEnds ==
  /\ server \in Running
  /\ server' = "off"
  /\ LET cut == {t \in Task : request[t].stage \in {"received", "calling"}
                              /\ request[t].route \notin Local}
     IN  /\ request' = [t \in Task |-> IF t \in cut THEN [request[t] EXCEPT !.stage = "gone"]
                                       ELSE request[t]]
         /\ task' = [t \in Task |->
                       IF t \in cut /\ task[t].stage \in {"connect"} \cup AtSession
                       THEN [task[t] EXCEPT !.stage = IfDropped(t)] ELSE task[t]]
  /\ UNCHANGED <<session, durable>>

-----------------------------------------------------------------------------
(* Requests *)

\* What does not translate fails in any text; only execute and command tell texts apart.
Receive(t, route, text, translates) ==
  /\ At(t, "none") /\ In(t, "idle")
  /\ route \in {"health", "translate"} => text = NoRequest.text
  /\ route \in {"health", "library"} => translates
  /\ route \notin Local => server \in Running
  /\ request' = [request EXCEPT ![t] = [stage |-> "received", route |-> route, text |-> text,
                                        translates |-> translates, status |-> "none"]]
  /\ UNCHANGED <<task, session, durable, server>>

Health(t) == /\ At(t, "received") /\ request[t].route = "health"
             /\ Answer(t, "OK")
             /\ UNCHANGED <<task, session, durable, server>>

Translate(t) == /\ At(t, "received") /\ request[t].route = "translate"
                /\ Answer(t, IF request[t].translates THEN "OK" ELSE "BAD_REQUEST")
                /\ UNCHANGED <<task, session, durable, server>>

\* Mutant of Execute: a text that does not translate goes through as it is.
ExecuteAnyway(t) ==
  /\ At(t, "received") /\ request[t].route \in {"execute", "command"}
  /\ Begin(t, "execute", request[t].text, FALSE)
  /\ request' = [request EXCEPT ![t].stage = "calling",
                                ![t].status = IF request[t].translates THEN "none" ELSE "BAD_REQUEST"]
  /\ UNCHANGED server

Execute(t) ==
  /\ At(t, "received") /\ request[t].route \in {"execute", "command"}
  /\ IF request[t].translates
     THEN /\ Begin(t, "execute", request[t].text, FALSE)
          /\ request' = [request EXCEPT ![t].stage = "calling"]
     ELSE /\ Answer(t, "BAD_REQUEST")
          /\ UNCHANGED <<task, session, durable>>
  /\ UNCHANGED server

CallLibrary(t) ==
  /\ At(t, "received") /\ request[t].route = "library"
  /\ \E method \in Method, inSchema \in BOOLEAN : Begin(t, method, request[t].text, inSchema)
  /\ request' = [request EXCEPT ![t].stage = "calling"]
  /\ UNCHANGED server

\* Mutant of Finish: an error of the executor is not answered.
FinishIfOk(t) == /\ At(t, "calling") /\ In(t, "ok")
                 /\ Answer(t, "OK")
                 /\ UNCHANGED <<task, session, durable, server>>

\* Mutant of Finish: a call that failed is made again.
FinishRetried(t) == /\ At(t, "calling") /\ task[t].stage \in {"ok", "failed"}
                    /\ IF In(t, "ok") THEN Answer(t, "OK") /\ UNCHANGED task
                       ELSE Go(t, "connect") /\ UNCHANGED request
                    /\ UNCHANGED <<session, durable, server>>

Finish(t) == /\ At(t, "calling") /\ task[t].stage \in {"ok", "failed"}
             /\ Answer(t, IF In(t, "ok") THEN "OK" ELSE "BAD_GATEWAY")
             /\ UNCHANGED <<task, session, durable, server>>

\* The client closes its connection, or kills the command, while it waits: the
\* handler is dropped.
ClientGone(t) ==
  /\ request[t].stage \in {"received", "calling"}
  /\ request' = [request EXCEPT ![t].stage = "gone"]
  /\ IF task[t].stage \in {"connect"} \cup AtSession THEN Drops(t)
     ELSE UNCHANGED <<task, session, durable>>
  /\ UNCHANGED server

\* The request is over and so is its call.
Forget(t) ==
  /\ request[t].stage \in {"answered", "gone"}
  /\ IF In(t, "idle") THEN UNCHANGED <<task, session, durable>> ELSE Collect(t)
  /\ request' = [request EXCEPT ![t] = NoRequest]
  /\ UNCHANGED server

Handle(t) == Health(t) \/ Translate(t) \/ Execute(t) \/ CallLibrary(t) \/ Finish(t)
Polled(t) == Advance(t) /\ At(t, "calling") /\ UNCHANGED <<server, request>>
PgSide(t) == (RunsDropped(t) \/ PgEnds(t)) /\ UNCHANGED <<server, request>>

Next ==
  \/ Start \/ MySqlBinds \/ ServeEnds
  \/ \E t \in Task :
       \/ \E route \in RoutesOf[t], text \in Texts, translates \in BOOLEAN :
            Receive(t, route, text, translates)
       \/ Handle(t) \/ Polled(t) \/ PgSide(t) \/ ClientGone(t) \/ Forget(t)

\* Handlers are polled while they can go on; PostgreSQL answers or ends the
\* session of a client that is gone.
Fairness == \A t \in Task : /\ WF_vars(Handle(t)) /\ WF_vars(Polled(t))
                            /\ WF_vars(PgEnds(t) /\ UNCHANGED <<server, request>>)

Spec == Init /\ [][Next]_vars /\ Fairness

-----------------------------------------------------------------------------
(* Properties *)

\* The status tells what was done: BAD_REQUEST, nothing; OK, all of a text that
\* has no transaction statements of its own; and an error, all or nothing.
StatusTellsEffect ==
  \A t \in Task : request[t].route \in {"execute", "command"} =>
    /\ request[t].status = "BAD_REQUEST" => In(t, "idle") /\ durable[t] = 0
    /\ request[t].status = "OK" /\ Plain(request[t].text)
         => durable[t] = Writes(request[t].text)
    /\ ~At(t, "none") /\ Plain(request[t].text) => durable[t] \in {0, Writes(request[t].text)}

\* Every request is answered unless its client or the server is gone first, with
\* more requests than PostgreSQL allows sessions.
RequestsAreAnswered == \A t \in Task : At(t, "received") ~> request[t].stage \in {"answered", "gone"}
=============================================================================
