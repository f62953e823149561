# Verification of mysql2pg

mysql2pg lets MySQL clients work on a PostgreSQL server: it speaks the MySQL protocol, rewrites each
statement for PostgreSQL and runs it there; an HTTP frontend and a command do the same for single texts.
This directory holds TLA+ models of the parts that keep state, wait or have a contract with the
client, checked by TLC on small instances, and proofs about them checked by TLAPS for every value of the
constants. `PROJECT.json` maps every definition to the source lines it stands for.

## The system

| Component | State | Operations | Talks to | Modelled in |
| --- | --- | --- | --- | --- |
| Session executor, `src/src/executor.rs` | a client slot per MySQL connection; in PostgreSQL the session's search_path and transaction | acquire, set_schema, execute (text or prepared), describe, create and drop schema | PostgreSQL, one await per step | `SessionExecutor`, `StatementService` |
| MySQL frontend, `src/src/mysql_server.rs` | per connection: id, current_db, settings, last_insert_id, prepared statements; shared statics: next id, killed ids, default database | on_init, on_prepare, on_execute, on_close, on_reset, on_query | the executor (awaits), the statics (locks) | `MySqlFrontend` |
| Command loop, `src/vendor/opensrv-mysql/src/lib.rs` | the statement data of the connection (count, bound types) | one command at a time: parse, call the handler, flush | the frontend (callbacks) | `MySqlFrontend` |
| Session variables, `mysql_server.rs` | charset, collation, sql_mode, isolation | SET, SELECT @@ | frontend | `SessionVariables` |
| Placeholders, `mysql_server.rs` and `translator.rs` | the text of a prepared statement | count, translate, number | frontend, parser | `Placeholders` |
| Translator, `src/src/translator.rs` | none of its own: the schema it has changed in PostgreSQL | CREATE and ALTER TABLE, INSERT, SHOW, DESCRIBE | both frontends | `ColumnDdl`, `IndexDdl`, `Upsert`, `Catalog` |
| Fresh-connection executor, `executor.rs` | a PostgreSQL session per call | the same trait as the session executor | PostgreSQL | `FreshExecutor` |
| HTTP frontend, `server.rs`; `main.rs` | requests in flight; two joined tasks | health, translate, execute; the execute command | fresh-connection executor | `HttpFrontend` |
| Packet layer, result writer, value codecs, TLS (vendored opensrv-mysql) | partial packets, rows begun | read, write | command loop | no |
| Configuration | read at start | - | - | no |

What is hard:

- Between any two awaits of a call other connections move and PostgreSQL may end the session. A session
  that is gone is replaced silently; SET search_path is undone by a rollback.
- The statics are read and written by all connections.
- Two tables of prepared statements, owned by two libraries, must agree. Some errors leave a handler by
  `?`, which ends the connection, and some do not.
- One MySQL statement becomes several PostgreSQL statements, and one of them may fail.
- The translator has no schema to look at. It guesses the conflict target of an upsert and builds the
  name of an index twice from different texts, in a name space that indexes and tables share.
- A MySQL database is a schema in a path that goes on to public, and may be dropped by anyone.
- Four programs read the quotation marks of a text, each by its own rules.
- A future may be dropped at any await, while PostgreSQL still runs its text.

`PROJECT.json` lists the hazards at their lines with the properties that catch each, or why none does.

What makes each component correct:

- executors: a call is answered once; its statement takes effect once if it succeeds and at most once
  otherwise; it runs in the caller's database; the insert id is the caller's own; every call ends and no
  session stays behind.
- frontends: a statement runs in its own connection's database; a killed connection starts nothing; the
  two tables agree; every command is answered or the connection ends; a status tells what was done.
- translator: what is served is what MySQL would do; what is refused changes nothing.
- placeholders and settings: the client is told what MySQL would tell it, and PostgreSQL reads what was
  written.

## Modules

### The executor and the MySQL frontend

- `StatementService`: what an executor promises a caller (outcome and number of effects of the call).
- `SessionExecutor`: the executor, one action per await of a call. `call[c]` is the call in progress:
  its stage is the await it is at. `client[c]` is `self.client`; `path`, `savedPath` and `txn` are what
  PostgreSQL remembers of the session (external, modelled as far as the executor depends on it);
  `identity` is the identity sequence of the one table inserts go to, `wrote` a history of who wrote
  which rows.

| Action | Code |
| --- | --- |
| `Begin` | one of the trait's methods is called |
| `AcquireHeld`, `AcquireConnect`, `AcquireFail` | `acquire`: `is_closed`, `connect`, its error |
| `SetSchema` | `set_schema`; not reached without a database or in create/drop schema |
| `Prepare` | `client.prepare`; the end of `describe_prepared_sql_in_schema` |
| `LookupFinds`, `LookupMisses` | `find_identity_insert_target` |
| `PrepareWrapped` | `client.prepare` of the wrapped INSERT, of a prepared call |
| `Run` | the statement itself, an INSERT wrapped by `wrap_insert_returning_sql`; `describe_sql_in_schema` runs the text it is given |
| `PgRejects`, `PgGone`, `RunLost` | the `map_err(...)?` of each await: rejected, session gone, session lost after the effect |
| `Return`, `Release` | the caller takes the result; the executor is dropped with its backend |
| `PgDisconnects` | PostgreSQL ends a session at any moment |

- `MySqlFrontend` EXTENDS `SessionExecutor`: each connection slot adds the handler's task (`phase`,
  `request`, `partsLeft`), the backend's fields (`connId` ... `prepared`), the loop's table (`stmts`)
  and the statics. A handler runs without an await up to the executor call, so the part before it is
  one action, except that a lock of a static is a step of its own: `CheckNotKilled` or `AbortIfKilled`,
  then the branch of the query. `Awaits` begins an executor call and `Finish...` actions take its
  result. A query is a record: the kind is the branch of `on_query` and `on_prepare` it takes. The
  pieces of a prepared text with `;` are statements of any kind (`BeginPart`). When a task ends (`End`), the backend, the table and the executor go with it. What clients do is external:
  with `Conforming` TRUE they keep to the protocol, otherwise they send any command at any time.
- `MCMySqlFrontend`: the sets of queries of the runs, and the two statements of the repository's README
  that the code does not keep. `MCSharing`: two mixes of its clients, those that share databases and
  those that insert, one per behaviour.

### What the client's statements become

Each of these keeps what the client believes, as MySQL would have it, beside what PostgreSQL has after
the translated statements, and relates the two.

- `ColumnDdl`: one table's columns under CREATE, ADD, MODIFY and DROP. `believed` is the client's column,
  `pg` PostgreSQL's. The values a column takes are classes: a sign and the bits a magnitude needs, so
  that a boundary such as 2^32 is one value more; a CHECK is the set of classes that pass. A CHECK names
  its column as the client wrote it, and in MODIFY without quotation marks: a name that PostgreSQL finds in
  quotation marks only (`QuotedOnly`, in upper case or reserved) is then refused. Options MODIFY does not
  know are refused by the translator (`Modifiable`).
- `IndexDdl`: the keys of a client's tables and the relations of PostgreSQL. Names are sequences of
  characters, because the collision of names is what matters: table `a` with key `b_c` and table `a_b`
  with key `c`. A statement is the list of statements the translator makes of it, run as one text (all
  or nothing) or, when prepared, piece by piece (`RunText`). A key is plain, unique or primary, on a column,
  with options or USING, on a prefix, or on something the translator does not know (`Form`), and named in
  its own place or by CONSTRAINT (`Symbol`). DROP INDEX names neither table nor schema and looks along the
  search_path as far as public.
- `Upsert`: INSERT, INSERT IGNORE and ON DUPLICATE KEY UPDATE of one table. `MySql` is MySQL's rule,
  every unique key in its order; `Result` is PostgreSQL's of the text with the inferred target and the
  defaults. The state is the rows and the defaults of the table's columns; the comparison is over every
  statement in every state.
- `Catalog`: databases that come and go, tables and views, `current_db` and the search_path of each
  client. A statement is two steps, path (`SetPath`) and text (`Write`, `Read`), and other clients run
  between them. `mixed` is a history of the databases that a statement reached by falling through.
- `Placeholders`: the scan for `?`, the rewriting of `""` to `''`, the parser's printing and backticks, as
  operators on sequences of kinds of characters, beside one lexer (`ReadText`) with MySQL's and
  PostgreSQL's rules as the reference. The parser prints a mark in a quotation twice unless it stands
  beside another or after a backslash, where it takes it for escaped (`Lone`).
- `SessionVariables`: the SETs that the proxy keeps the values of, and what a SELECT answers. `last` is
  the last SET of each variable that was answered OK, from which MySQL's value follows.
- `MCColumnDdl`, `MCIndexDdl`, `MCUpsert`, `MCPlaceholders`: definitions for TLC. `MCClientStatements`
  checks all six: the variable `focus` says which of them moves. They share no state, so their state
  spaces are added and not multiplied.

### HTTP

- `FreshExecutor`: `task[t]` is a call of the executor at its stage, `session[t]` its PostgreSQL session,
  `durable[t]` the writes of it that last. A call may fail, lose its session or be dropped at every
  await (`Fails`, `PgSide`, `ClientGone`); what PostgreSQL then does with the text is its own choice.
- `HttpFrontend` EXTENDS it: the handlers, the execute command and a program that calls the executor
  (the only caller of describe outside the MySQL frontend), and `serve`, whose end drops every request.

## Runs

| Run | Question | Bounds |
| --- | --- | --- |
| `executor_calls` | does a call keep its promises whatever PostgreSQL does? | one executor (executors share the identity sequence only), two databases, every kind of call |
| `kills` | does a killed connection start nothing, and end? | two slots and three ids: one slot is used twice, ids are killed before, during and after use |
| `sharing` | does a connection run in its own database and report ids of its own rows? | two connections and two databases with CREATE, DROP, COM_INIT_DB and SELECT; or two slots, three clients and two identity values |
| `statements` | do the two tables agree for a conforming client? | two statements; counts 0, 1 and 2 of parameters, where the 16-bit limit is scaled to 2, so a count is cut |
| `commands` | is every command of any client answered? is the executor used by its rules? | one statement, every command and kind of query, two clients after another |
| `client_statements` | is what is served what MySQL would do? | see below |
| `requests` | does a status tell what was done, in whole? | two callers and one session, so that they compete for it; texts of one to three statements, one with a commit inside |
| `failures`, `parameters`, `modify`, `if_not_exists`, `inline_keys` | violated: what a document says and the code does not do | as the runs beside them |

`client_statements`, by focus:

- columns: every base type, signed and unsigned, ENUM with one and two members, text, every option, one
  column at a time (columns do not interact), of a name PostgreSQL finds anyhow or of one it finds quoted
  only, with any number of changes; complete.
- indexes: two tables whose index names meet, keys of each form (plain, prefix, unique, primary, with
  options, unsupported, unnamed, with CONSTRAINT in backticks and without), a drop and an addition of one
  name in one statement, up to `MaxRelations` = 4 relations, in one database, and one table name in a
  database and in public. A statement has one constraint at most (`OneConstraint`), for PostgreSQL names
  those of one statement in an order of its own.
- rows: three columns, two of them unique keys, three values, a language whose default is the empty text
  or another, at most two rows: two rows are what an upsert may confuse.
- databases: two clients, two databases, one name for tables and views; connections and databases are
  interchangeable, no definition names one, hence SYMMETRY.
- texts: every text of up to 4 of the 8 kinds of characters, of up to 6 of `?`, `'`, `\`, and of up to 5
  of three further choices. 4 is what two adjoining quotations need, 6 two with an escape.
- settings: every SET with four character sets and collations, three modes, two levels.

In a run of statements nothing waits and any statement may follow, so deadlock is checked. It is not in
the frontend's runs, where `MaxConnId` bounds the clients and all of them may have gone.

Two connections are enough for what connections do to each other: each interaction is of one with
another, through a static, a sequence or a schema. The bounds are `MaxIdentity`, `MaxRows`, `MaxConnId`,
`MaxStmt`, `MaxParts`, `MaxRelations` and `PgLimit`, which stop a counter or fill a table, and
`ParamModulus`, which scales 2^16 down.

Fairness. In the MySQL frontend `WF(Serve(c))` for each connection (`WF(Advance(c))` in the executor
alone): each connection is a spawned Tokio task, polled until it ends, and PostgreSQL answers or closes
the session. In the HTTP frontend weak fairness of a handler's own steps, of its future's polls, and of
PostgreSQL ending a session whose client is gone. No client is assumed to connect, send or quit, no
session to last, and no server to end. The statement modules need no fairness: they state no liveness.

### Findings

- `failures`: CREATE or DROP DATABASE that PostgreSQL refuses drops the connection (`?` in `on_query`);
  the repository's README says that error packets are returned instead. `OnlySchemaDdlDrops` shows that
  these two are the only ones.
- `parameters`: statements with `?` are prepared and executed; the README says that they are refused.
- `modify`: MODIFY COLUMN never drops the CHECK of the old type, so the column keeps the old range.
- `if_not_exists`: CREATE TABLE IF NOT EXISTS, which `docs/compatibility.md:25` lists as supported, fails
  when the table is there and the statement has a KEY.
- `inline_keys`: `docs/compatibility.md:41-43` says that inline KEYs of CREATE TABLE are "explicitly rejected
  today" and the repository's README (line 48) that they are not yet emulated; the code translates and serves
  them (`translator.rs` 1321-1327), as the tests at lines 275 and 393 of `tests/translation_smoke.rs` expect.
  The properties of `IndexDdl` follow the code: `IndexesAgree` and `NamedKeyCanBeDropped` are of inline KEYs
  too.

Other behaviours that no document speaks of, and the properties leave out: DROP INDEX names neither table
nor schema, so that a client that drops a key it does not have may drop another table's index
(`KnownDrop`). A user's language is filled in as the empty text whatever the table's default
(`FilledAsDefault`). `KILL` of an id not yet in
use ends its later owner (`kills` includes it). In an aborted transaction even ROLLBACK is refused once
a database is chosen, because `set_schema` comes first (`AbortedStaysAborted`). A row that meets two rows
by two keys updates the target's row, not the first key's (`ServedAsMySql`). Names fall through to
public when they are not in the database or it is gone, and SHOW SCHEMAS lists PostgreSQL's own schemas
beside the client's (`AnsweredAsMySql`). `PlainText` in
`Placeholders` names the texts that PostgreSQL reads as MySQL does; outside of it a literal with two
quotation marks side by side, as `''''''`, is sent as `''''` and loses one, a backslash left in a
literal makes the second scan number a `?` inside of it or miss one after it, a backtick in a literal
becomes `"`, a quotation mark in a comment misaligns the rewriting of `""`, and `''` beside `""` become
one literal. SET TRANSACTION without SESSION acts like SET SESSION TRANSACTION, SET COLLATION_CONNECTION
is answered OK without effect, and a SELECT of a variable among other columns gets a constant
(`TakenAlike`, `CompatibilityLiteral`).

## Proofs

Every theorem holds for any value of the constants, under the named assumptions of the modules, which
TLC evaluates on every run (bounds are naturals, NoDb is no database, queries have the kinds the code
knows, a new connection's settings are values of their variables, texts are sequences of statements or of
characters, the columns of a table and the names of its keys are different).

`SessionExecutorProofs` — `TypeCorrect`, `SchemaIsolation`, `InsertIdSafety`, `AbortedSafety`, and
`Implementation`: the executor implements `StatementService`. The invariants are not inductive by
themselves. `TypeOK` bounds `applied` by 1, which a `Run` keeps only because a call not over has had no
effect (`UnansweredUnapplied`). A rollback changes the search_path, and could do so under a call past
set_schema if that call's own statement were not what ends the transaction. A call past set_schema is
never in an aborted transaction (`SchemaSetMeansLive`), and one in another stage leaves it by losing the
session only, since without a session there is no transaction (`TransactionsNeedSession`). `ExecInv` is
the conjunction. Its types are shown first (`TypeStep`); every other conjunct speaks of one connection,
so it is shown for the one that moves (`OwnStep`) and kept for the others (`OthersUntouched`).

`MySqlFrontendProofs` — `FrontTypeCorrect`, `TablesAgreement`, `ConformingService`, `KillSafety`,
`CurrentDbSafety`, `OwnInsertId`, `DropSafety`, `FrontendUsesExecutor` and `FrontendUsesService`: whatever
clients send, the frontend calls the executors as their specification lets them be called (a describe of a
prepared text only, a schema's making or end by its own method), and the executors implement the
service. What a step of the frontend does to the executors is a step of theirs or none (`ExecMoves`), so
`ExecInv` carries over. `FrontInv` adds, per connection, that a prepared statement with a PostgreSQL text is of a kind the proxy translates and that
the two tables hold the same ids (`WellShaped`), that their entries agree and none is above the next
id (`Tabled`), that a conforming client was not cut off and executes what is there with types for its
parameters (`Served`), and that a call in flight is in the connection's database, a doomed request is a
killed connection's and the insert id kept is of a row it wrote (`Linked`); and across connections that
ids are distinct. Without `Linked` nothing relates the path a call sets to `current_db`; without distinct
ids a kill could speak of another connection.

`TableDdlProofs` — what statements make of a table.

- Columns: `ColumnTypeCorrect`, `UnsignedSafety`, `WideningSafety`, `OptionsAgree`. `UnsignedBounded`
  is not inductive: a MODIFY adds a CHECK to those there were. `ColumnInv` says that PostgreSQL's type is
  the one of the last statement and that what passes is within its CHECK, and equal to it as long as the
  column was not modified (`Follows`); the table of types is lemmas about each base type.
- Indexes: `IndexTyped`, `KeysHaveIndexes`, `NamedKeyDroppable`, `RefusedTextKeeps`. `IndexInv` says that
  relations have names of their own, that each index is on a table that is there, that no two keys of a
  table share a name and, if clients are `Careful`, that keys and indexes are one to one on every table no
  prepared statement left in pieces (`loose`). The second and third theorem are for careful clients, as the
  run is: one drops a key of its own table and database whose index still has the name the translator
  builds, and no key twice in a statement; a drop of any other name may hit another table's index. The
  agreement is not inductive without the one to one: two keys on one index would lose both by the drop of one. What a list of
  keys or of changes becomes is a fold over statements, followed along its prefixes in one text
  or piece by piece. The proof showed two cases the run's small sets did not have: a UNIQUE key named like
  PostgreSQL's constraint, whose constraint a DROP INDEX does not remove, and the same drop twice in one
  statement, which MySQL refuses; `KnownDrop` and `AlterTable` say so now.

`ConnectionProofs` — what the frontend keeps for a connection.

- Databases: `CatalogTypeCorrect`, `DatabaseAgreement`, `DatabaseIsolation`, `AnswerCorrectness`. `CatalogInv`
  adds that a client whose text is due has its database first in the path (`PathIsCurrent`) and that a
  schema that is gone left nothing behind (`NothingOrphaned`): otherwise one made anew would find the old
  one's tables. `AnswerCorrectness` follows from that invariant alone, by what each kind of statement asks
  for.
- Settings: `SettingsCorrect`: each setting is what its last accepted SET made of it, a refused one touches
  neither the setting nor the history.

`PlaceholdersProofs` — `TextTyped`, `ParametersCounted`, `PlainTextsAreRead`. The state remembers the text, so
the invariant is plain (`TextInv`: what was answered is what the operators make of the text, and a text is
refused only for what the parser makes of its tokens) and the work is in the operators, folds over
characters and tokens of any number.

- `ParametersCounted`: the scan for `?` and MySQL's reading are two folds; after every character they are in
  the same place, escaped or not, and have met the same `?` (`Together`, `ReadsTogether`). The count is
  MySQL's for every text, plain or not.
- `PlainTextsAreRead` has two parts. First, MySQL reads in what the rewriting of `""` leaves of a plain text
  the tokens it reads in the text, but for the marks of the literals (`NormalizedReads`). A relation
  between the rewriting, the reading of the text and the reading of the outcome (`AsNormalized`) is kept by
  every character (`AdvancesAlways`) as long as nothing plainness excludes has been met (`Calm`).
- Second, each token the parser takes is printed, its backticks replaced, scanned for `?` and read by
  PostgreSQL's rules, and adds to what PostgreSQL is told what it adds to what MySQL is (`TokenOn`, with
  `QuotationOn` inside of quotations). `Told` says where the scan and the reading stand between two tokens.
  That the content of a literal comes through needs its marks to stand apart (`Apart`): then each is `Lone`
  and printed twice, as PostgreSQL reads it.

`UpsertProofs` — `UpsertTyped`, `ServedStatementsAgree`, `FirstKeyServed`. `UpsertInv` is that no two rows have
a key in common, as MySQL keeps it: PostgreSQL must refuse what would break it, whatever target the text
names. MySQL's result goes through the keys in their order and PostgreSQL's through the target; they are the
same row unless the statement meets two. The row itself is the same as long as a language that is filled in
is the column's default (`FilledRow`, `FilledAsDefault`).

`HttpFrontendProofs` — `HttpTyped`, `TextsAreAtomic`, `StatusIsTrue`. `HttpInv` says of each call that nothing of
its text lasts before it is run, and none or all after (`CallInv`), and of each request that the call is of
its text and was answered as the call ended (`LinkInv`). What a session does with a text is a fold over its
statements.

`FoldLemmas` — what these proofs share. A text is run or read from left to right, as a `FoldLeft`. A property
of the numbers is a set of them, and a set that holds 0 and with each number the next holds them all
(`SetInduction`, from the well-foundedness of `<`). With that a fold is shown to exist as a function of the
prefixes (`FoldExists`, `IterationRuns`), and each proof about a fold is an induction over its prefixes. The
lists that `FlattenSeq` joins are handled alike (`FlattenType`).

Only model-checked:

- liveness (`CallsEnd`, `KillsEnd`, `CommandsEnd`, `SessionsEnd`, `RequestsAreAnswered`), which needs
  fairness and ENABLED;
- the properties of the runs that are violated.

## Not modelled

- Text to text rewriting: expressions, LIMIT, OPTIMIZE TABLE, function names, JSON operators, reserved
  names, the constant tables of SHOW VARIABLES, STATUS, CHARSET and COLLATION. It is regular expressions
  over whole texts; a model would be the text again.
- In the placeholders, the second attempt of `translate_preparable_sql` with markers in place of `?`, and
  comments other than `#`; `--` without a space behind it, which the code takes for a comment and MySQL does
  not, is thus outside of the texts.
- In the frontend, the decoding of parameters and the inference of column names beyond their outcomes,
  the warning texts, and a client that disappears while its command is served (the loop notices at its
  next write or read, after the call).
- In the command loop, long data, COM_FIELD_LIST and `SELECT @@max_allowed_packet`, which is answered
  like a ping.
- Third-party code under vendor/ below the command loop: packets, result writer, codecs, TLS. The proxy
  accepts every user; the configuration is read once and never changes.
- In the keys of tables, more than one column, two constraints in one statement, ALTER TABLE ADD and DROP
  PRIMARY KEY (the second goes through and is refused by PostgreSQL), and a UNIQUE KEY with a CONSTRAINT
  name and one of its own. In the columns, a reserved word that PostgreSQL takes for a value of its own
  (`user`).
- MySQL's own databases in SHOW SCHEMAS, and the refusal of a row that leaves out a column without a default.
- PostgreSQL beyond what the code relies on: savepoints, views that depend on tables, temporary tables,
  the contents of a dropped schema in `MySqlFrontend` (they are in `Catalog`).
