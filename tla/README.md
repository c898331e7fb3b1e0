# A verification project for typedb-benchmark

The repository measures TypeDB against other databases.  It has three programs
that share nothing but the databases they drive:

* `src/tpcc`, the TPC-C harness (Python, derived from py-tpcc), with one driver
  per database;
* `src/simulation` and `src/iam`, a simulation framework (Kotlin) whose agents
  read and write in parallel partitions;
* `src/ldbc`, implementations of the LDBC SNB driver (Java) and data loaders
  (Python).

This project states what these programs have to get right when their clients,
threads and databases interleave and fail.  TLC checks it on small instances;
TLAPS proves the part of it that is listed under *What is proved* for every
value of the constants.

## Components

| Component | State | Operations | Interacts with | Hard parts | Correct when |
|---|---|---|---|---|---|
| Parallel load (`tpcc.py startLoading, loaderFunc`, `runtime/loader.py`) | the warehouses of each client; the manager's `items_complete_event`; open transactions; the tables | `loadTuples` per table and batch, `loadFinishItem`, `loadFinish`, `pool.join` | a driver per process; one shared event | clients at different speeds; a client that dies; rows inserted by MATCH | nothing is dropped, nothing is loaded twice, the load ends |
| Execution (`tpcc.py startExecution, executorFunc`, `runtime/executor.py`, `util/results.py`) | two `Results` per client, the batch clock, the total | the loop of `execute`, `startTransaction`, `stopTransaction`, `abortTransaction`, `append` | a driver per process, the pool | failures and interrupts of one client; batches replaced on the way | what is reported is what was executed |
| Verification (`tpcc.py --verify`, `executor.py`) | two databases | every transaction twice, `verifyTableCounts` | the TypeDB 3 driver and a Postgres verifier | different keys, different choices, failures between the two | equal row counts |
| Workload (`loader.py`, `executor.py`, `scaleparameters.py`) | none | generators of rows and of parameters | all drivers | scale factors, remote payments, rolled-back orders | TPC-C |
| TypeDB 3 driver (`drivers/typedb3driver.py`) | integer keys of districts and customers, one transaction per TPC-C transaction | five transactions, the load | the server | recovery of a customer's number from a key | TPC-C's consistency conditions |
| Postgres driver (`drivers/postgresdriver.py`) | one connection, READ COMMITTED | five transactions, the load | the server, other clients | unlocked reads before absolute writes, lock order, no rollback | the same |
| MongoDB driver (`drivers/mongodbdriver.py`) | one session per transaction, its snapshot and its writes | the same five, `run_transaction_with_retries` | the server, other clients | write conflicts, retries without limit, commits of unknown outcome; a mode without transactions | the same, and every call returns |
| SQLite driver (`drivers/sqlitedriver.py`) | one connection to a file, a transaction that begins with the first write | the same five, the load | SQLite's file locks, other clients | the district is read before the transaction begins; nothing is rolled back | the same, as far as the locks reach |
| Neo4j driver (`drivers/neo4jdriver.py`) | one transaction per call, the nodes it has locked | the same | the server, other clients | no wait for items; O_ID is no key; increments of what is now, inserts under what was read | the same |
| TypeDB 2 driver (`drivers/typedb2driver.py`) | one transaction per call on a snapshot | the same | the server, other clients | conflicts at the commit, which nobody tries again | the same |
| Legacy drivers (redis, cassandra, hbase, couchdb, membase, scalaris, tokyocabinet, csv) | keys of a store without transactions | the same five | none: see *What is not modelled* | | |
| Simulation framework (`src/simulation/framework`) | iteration, the pool's queue, the shared `RandomSource`, reports, sessions | `Simulation.run, iterate`, `Agent.iterate, run`, `RandomSource.nextSource`, `Runner.run` | the agents' handlers, the database client | threads that share one generator; handlers that throw | no shared randomness, a complete report per iteration, everything is closed |
| Read-write agents (`src/simulation/read-write`) | a counter of persons per partition; persons, friendships, meeting-times | `createPerson`, `createFriendship`, `deletePersons`, four reads | the framework, the database client | numbers drawn from 0 and from 1; attributes shared by equal hashes, within and across partitions; commits that fail | numbers that exist; deletions that are whole |
| IAM agents and comparison (`src/iam/simulation`) | the agents' reports | pairings, `ComparisonTest` | two databases | reports keyed by class name | equal reports |
| LDBC loaders for TypeDB (`src/ldbc/typedb2/loader.py`, `src/ldbc/typedb3/loader.py`) | a transaction and a count per file; a queue of queries; threads | 18 load functions in the order of `main` | the server | rows that match nothing; counts carried over files; a thread that raises; running it again | each row once, with its parts |
| LDBC drivers (`src/ldbc/*/src`) | prepared query texts | one handler per query | the LDBC driver, the database | inserts of several statements | each insert once |
| `verify.js` | none | TPC-C's consistency checks 1 to 12 | MongoDB | | states what a database has to satisfy |

`PROJECT.json` lists every component with its sources and status, and under
`hazards` the lines where something may go wrong that a test would hardly reach.

## Modules

| Module | Models | Checked by |
|---|---|---|
| `TpccPool` | the clients of the two pools of `tpcc.py` | with the next two |
| `TpccLoading` | the parallel load, with the TypeDB 3, Neo4j and Postgres drivers | `load` |
| `TpccExecution` | the execution phase and its results | `exec` |
| `TpccWorkload` | what is loaded, and the parameters of transactions | with the stores |
| `Typedb3Store` | the TypeDB 3 driver's transactions, one client | with `TpccVerification` |
| `PostgresStore` | the Postgres driver's transactions, one client | with `TpccVerification` |
| `TpccVerification` | `--verify`: both stores side by side, and their comparison | `verify`, `verify_full_scale` |
| `TpccRows` | the rows of a warehouse as loaded, and the checks of `verify.js` on them | with the clients |
| `PostgresClients` | several Postgres clients, statement by statement | `pg_mixed` |
| `MongodbClients` | several MongoDB clients, write by write, with their retries | `mongo_mixed`, `mongo_prices` |
| `DriverClients` | what the clients of the next three drivers have in common: their variables, calls and returns | with them |
| `SqliteClients`, `Neo4jClients`, `Typedb2Clients` | several clients of one of these drivers | with `TpccClients` |
| `TpccClients` | an execution with one of the three, and what it keeps | `clients` |
| `OrderNumbering` | what every driver owes the order numbers (abstract) | refined in `pg_mixed`, `mongo_mixed`, `clients` |
| `AgentRuns` | what the next two share: partitions and the actions of a run | with them |
| `Simulation` | the simulation framework | `simulation`, `sim_determinism` |
| `PersonAgent` | the read-write agents | `read_write`, on the agents of `MCPersonAgent` |
| `LdbcTables` | how a load function of the LDBC loaders is described | with `LdbcLoader` |
| `Typedb2Loader`, `Typedb3Loader` | the load functions of the two loaders, in the order of `main` | with `LdbcLoader` |
| `LdbcLoader` | the loaders at work: files, batches, the queue, threads, failures, running again | `ldbc_load`, on the data of `MCLdbcLoader` |
| `TpccHarness_proofs` | theorems about `TpccLoading` and `TpccExecution` | tlapm |
| `Simulation_proofs` | theorems about `Simulation` and `PersonAgent` | tlapm |
| `TpccVerification_proofs`, `PostgresClients_proofs`, `MongodbClients_proofs`, `TpccClients_proofs`, `LdbcLoader_proofs` | theorems about the module of that name | tlapm |
| `SumFacts` | lemmas about sums over finite sets | tlapm |

### TpccLoading

`loaderFunc` of client `i` is the process `i`; its calls of the driver's
`loadTuples` are records (table, warehouse, district, batch), and `After` is the
order in which `Loader.loadItems` and `loadWarehouse` make them.  `stored` holds
the calls whose rows are in the database, `lost` those of which the driver's
`MATCH` found no parent and so inserted nothing, `pending` those of an open
transaction (Postgres commits in `loadFinish`, the others in `loadTuples`).
`driver` is chosen once, as `main` does from its arguments.  `Start`,
`NextWarehouse`, `LoadTuples`, `LoadFinishItem` and `LoadFinish` are the steps of
a client; `Raise` is any call of it that raises; `Join` is the pool's `join`,
which does not look at results.  Rows have no values here.

A batch is committed whole.  `typedb3driver.loadTuples` in fact commits every
1000 rows: a client that raises in the middle of a call leaves a part of a batch,
which the model counts as not stored.

### TpccExecution

A client loops over `Begin` and one of `Completes`, `Aborts` (the driver returns
`None`), `Fails` (it raises) and `Interrupt`, until `Finish`.  `global` and
`batch` are `global_result` and `batch_result`; whether the 15 minutes of a batch
are over is a choice of `Completes`.  `Merge` is one turn of the loop over the
`AsyncResult`s.  `HasKey` is the key a `txn_counters` gets when a type is first
completed, which is what `AppendResults` iterates over.

### TpccWorkload, Typedb3Store, PostgresStore, TpccVerification

`TpccWorkload` draws the parameters of transactions and the permutation of
customers behind the loaded orders.  Each store has one action per transaction,
the whole of it, since there is one client.  `Typedb3Store` keeps the driver's
integer keys (`DKey`, `CKey`) and recovers the customer's number as it does
(`CIdOf`, `% CPD`).  Both pick any new order of a district to deliver (`limit 1`
without an order).  `PostgresStore.pConn` is the connection: it is aborted once a
statement has raised, because nothing rolls back.  `TpccVerification` composes
them: an iteration of `Executor.execute` is the driver's transaction followed by
the verifier's, or by the verifier's exception, or the driver's exception alone.
An amount of money is one unit per order line and per payment; balances are
relative to what the load wrote.

### TpccRows, PostgresClients and OrderNumbering

`TpccRows` is what the two modules of concurrent clients share: rows by table and
primary key, their values after the load (sums count from there), and the
consistency checks of `verify.js` as operators on a database.

A client executes the SQL statements of a transaction one by one.  `db` has the
committed rows, `writes` and `deletes` what an open transaction has changed; a row
that is in them is locked.  Reads see what is committed and what the transaction
has written (READ COMMITTED).  Statements that only read are part of the step that
begins a transaction, or of the write they precede; what was read is kept in `txn`,
and that is where it becomes stale.  A statement that wants a locked row is not
enabled.  A cycle of such waits is broken by `DeadlockDetected`, which makes one
of them raise.  A client whose statement has raised does nothing more: its
connection refuses every statement, the executor catches the error and goes on,
and nobody rolls back.

`OrderNumbering` is the contract: `D_NEXT_O_ID` counts orders up from 1, new
orders are what deliveries have not taken, one per district at a time.
`PostgresClients!Numbering` instantiates it with expressions over `db`; a commit
maps to `Place`, `Deliver` or a stutter, everything else to a stutter.

### MongodbClients

What a callback of the driver writes is a function of its parameters and of the
snapshot it reads, so `Start` computes the list of writes (`WritesOf`, with one
operator per callback) and `Write` does the next one.  `Conflicting` is the
server's test: the document has been written by another open transaction, or changed
since the snapshot (`stale`).  `Conflict` is then the
`TransientTransactionError` that makes `run_transaction` return `(False, None)` and
`run_transaction_with_retries` start over with the same parameters, as after
`ConnectionFails`.  `AnswerLost` is a commit that is stored and whose answer is not
received: the driver runs the transaction again.  `Abandon` is the order with an
unknown item, for which the callback calls `abort_transaction` itself.  The options
of `loadConfig` are those it can have: it compares the strings of a configuration
file with `True`, so `notransactions`, `findandmodify` and `denormalize` stay off.
A find returns items and stocks by their number (`Found`), which is both their
natural order and that of their index.

### DriverClients, SqliteClients, Neo4jClients, Typedb2Clients and TpccClients

The clients of one execution are the processes of `startExecution`, and `driver`
is the system named on the command line, chosen once.  `DriverClients` has what
does not depend on it: `db` is what is committed; `request[i]` the call client `i`
is in, `pc[i]` where in it, `todo[i]` what its loop has not reached, `seen[i]` the
rows it has read, with the values it read; `written[i]` what its open transaction
has written and `open[i]` the state of that transaction.  A call that raises is
an abort, and the client goes on with the next one, as `Executor.execute` does.

* **SQLite** (rollback journal, Python's `sqlite3`).  `Read` is a call up to its
  first statement that writes: those reads are outside a transaction, because
  `sqlite3` begins one with the first write.  `Write` is the rest of its statements,
  which one connection can execute at a time (RESERVED); `Commit` waits for
  readers.  Either raises "database is locked" after five seconds (`WriteLocked`,
  `CommitLocked`; `ReadOnlyLocked` for the commit of a call that only reads).  The
  driver and the executor never roll back: what a call had written when it raised
  stays in `written`, and the client's next commit stores it.  `WriteRaises` is the
  order whose number is taken, after D_NEXT_O_ID was set.
* **Neo4j**.  One action per query.  A query locks the nodes it sets until the
  transaction ends, and waits for locked ones; `Deadlock` makes one of two that wait
  for each other raise, and its `with` statement rolls back.  An order is a node of
  its own (`OrderNode`) that is found by its number, and more than one may have it.
* **TypeDB 2**.  A call reads one snapshot, so `Run` computes all it writes, and
  `Commit` stores that if nothing it changes was changed since (`Conflict`);
  otherwise `CommitRaises`.  That the server refuses such a commit, and no other,
  is an assumption about TypeDB; nothing in the repository implements it.

Which of the guarantees each driver keeps, whatever is interleaved:

| | Postgres | MongoDB | SQLite | Neo4j | TypeDB 2 |
|---|---|---|---|---|---|
| W_YTD is the sum of D_YTD (check 1) | yes | yes | yes | yes | yes |
| new orders are contiguous (check 3) | no | yes | yes | no such table | no such table |
| an order has a carrier iff it is not new (check 5) | yes | yes | yes | one flag | one flag |
| YTD sums are HISTORY's (checks 8, 9) | yes | yes | yes | no: none is made | yes |
| balances are what was delivered and paid (check 12) | no | yes | no | no | yes |
| order numbers are unique and dense | yes | yes | yes | no | yes |
| D_NEXT_O_ID is the next number | yes | yes | may fall behind | counts the orders | yes |
| the numbering refines `OrderNumbering` | yes | yes | no | no | yes |
| S_ORDER_CNT counts the lines | no | yes | yes | no | yes |

A "yes" is checked by `pg_mixed`, `mongo_mixed` or `clients`.  A "no" is what was
seen while modelling: TLC finds a counterexample when the property is claimed for
that driver too, except for Postgres' stock, whose quantities are not modelled.
Where MongoDB has a "yes" it is with transactions, which is how `loadConfig` leaves
it.

### Simulation

A run is an agent's task for one partition; the pool has `Parallelism` threads
and takes queued runs in order.  `nextSource` is two atomic draws of the shared
`java.util.Random`, `DrawHigh` and `DrawLow`; `sources` remembers which draws
seeded which action.  `HandlerThrows` is any exception of an action.
`Join` and `JoinThrows` are `allOf(...).join()`.  `Close` is `Runner.run`'s
`use`.  Report contents and the agents' own actions are left out.

### PersonAgent

The partitions of `read-write/common/Context.kt`, each with its counter `idCtr`;
`persons`, `friendships` and `times` are the database.  An action of an agent is
what it reads when its transaction is opened (`createPerson`, `createFriendship`,
`deletePersons`, `read`) and `commit` or `commitRaises`; between the two the other
partitions go on.  `at` and `left` are the framework's turns: `AgentOver` is the
join of all partitions of an agent (`Simulation` models it in detail).  Two oddities
of the code matter and are kept: a friendship relates its first person only
(`Players`), and the numbers to delete are drawn from 0 (`DrawnToDelete`).  A
meeting-time is `timeZero` plus `Objects.hash("date", first, second)` seconds
(`dateFrom`, `hash`): a constant plus 31 times the first number plus the second, in 32
bits.  `timeZero` is the clock when the agent was built, and the agents are built anew
for each iteration, so `AgentOver` chooses one of `Readings`, in no order.  TypeDB has
one attribute of each value.  Pairs of numbers with the same hash, in one partition or
in several, share their meeting-time, those of different iterations may, and a
deletion takes it from all of them (`FriendshipsAfter`).  The queries of a
`deletePersons` are run one after the other, and a friendship whose meeting-time an
earlier one has deleted is not matched by a later one (`Found`).  A friendship keeps
`time`, the one it was made with, after it has lost it (`timed`); the second number has
no other use and is not kept.  A run whose commit raises ends ("failed"), except in
`deletePersons`, which catches it.

### LdbcTables, Typedb2Loader, Typedb3Loader and LdbcLoader

A load function is described by the directory it reads, how it commits (once per
file, once for all files, every `batch_size` rows, or with a queue of queries), and
its passes: what a row inserts and which types it matches.  `Typedb2Loader!main` and
`Typedb3Loader!main` are the lists of them.  A row whose match finds nothing inserts
nothing and raises nothing (`Matches` in `Row`).  `LdbcLoader` executes such a list:
`Open`, `Row`, `CommitBatch`, `EndFile` are the life of a file, `files[f]` its state
with the count on which batches are decided (`carried` over files in the relations'
loads).  A load with threads has `Workers` of them; `Cancel`, `Fail` are what the
executor does when one raises.  `Raises` is a call of the driver that raises, and
`CommitRaises` one whose answer was lost after it was stored.  `Begin` runs the
program, again as often as one likes: it deletes the database first.  `typedb3dry`
is `typedb3/loader.py` as it stands, with `DRY_RUN = True`.

## What the runs show

| Run | Question | Bounds, and why they are enough |
|---|---|---|
| `load` | Does the load get everything in, in order, once, and end, whoever fails? | 3 clients and 4 warehouses: the loader of ITEM owns two, two others only wait; two batches of ITEM and STOCK; one district, as clients share nothing by district. Three drivers. |
| `exec` | Is what is reported what was executed? | 2 clients, 2 types, up to 3 transactions each: one type may be completed, aborted or never seen by each client, over a batch change. |
| `pg_mixed` | What do concurrent Postgres transactions keep, and do they ever stop waiting? | 2 clients, 2 transactions each of any type, 2 districts, 2 items (enough for opposite lock orders), one customer and one new order per district (so that everyone meets). |
| `mongo_mixed` | What do concurrent MongoDB transactions keep, whatever fails, and do they ever stop aborting one another? | 2 clients, one transaction each of any type, which may run twice as each connection may fail once; 2 districts (so that orders meet at stock rows only), 2 items, one customer and one new order per district. |
| `mongo_prices` | *violated*: are lines charged the price of their item? | one order of two items. |
| `clients` | What do concurrent SQLite, Neo4j and TypeDB 2 transactions keep? | as `pg_mixed`, with the two read-only transactions: the second call of a client is the one that stores, or meets, what its first has left behind. |
| `verify` | Do the two drivers stay in step with one client, and are balances right? | one warehouse, 2 districts, 2 customers each (one of their orders new), `CPD` 3, 4 transactions, any of which may fail on either side. |
| `verify_full_scale` | *violated*: do they stay in step with as many customers as `CPD`? | 2 districts, 2 customers, `CPD` 2, no failures. |
| `simulation` | Do threads share randomness, do turns of agents mix, does the simulation end? | 3 partitions on 2 threads (one run has to wait), 2 agents of one action: what a straggler could reach is the next agent, or the end of the iteration. |
| `sim_determinism` | *violated*: is an action's randomness independent of the schedule? | 2 partitions on 2 threads. |
| `read_write` | What does a deletion take with it, in its own partition and in others, and whom does it never take? | the agents of `medium-delete-benchmark.yml` and a reading one; 2 partitions with 2 persons each per iteration, 2 iterations and 2 readings of the clock.  With 2 for the factor 31 few persons are enough for equal hashes: friendships of different persons get the same meeting-time in one partition and in two, lose it to one another, and are deleted without; two queries per transaction, so that one takes the meeting-time from the other.  A hash has 16 values instead of 2^32 and the sums of the run pass the largest, but as they span less than 16 the cut makes no equal hashes of its own, as in the code. |
| `ldbc_load` | What is loaded and what is left out, whatever raises and however often one starts again? | `BatchSize` 2 with one to three rows a directory: files that end with a full batch, a rest or neither, counts that run over two files; every order of 3 comments of which two are replies; 3 forum files for 2 threads; tag classes in one file or two; 2 runs. |

Every property of a passing run has a mutant, in the module it is about and marked
`Mutant:` there: a change of one definition, like a plausible bug, that breaks it.
The check of the types, where it is not a property of its own, is part of one
(`Consistent`, `BatchesAddUp`, `DeletionsAreWhole`, `StoredOnce`).

### Findings

* **Customer 3000** (`verify_full_scale`).  `doPayment` and `doDelivery` of the
  TypeDB 3 driver recover a customer's number with `% CPD`.  At scale factor 1 the
  last customer's is 0: payments by name and deliveries match nothing, and the
  row counts differ from the verifier's.
* **Swapped prices** (`mongo_prices`).  The MongoDB driver matches the items a find
  returns, in order of their number, with the order of the request: a line is charged
  the price of another item, and takes its quantity from another stock.
* **Nondeterministic randomness** (`sim_determinism`).  The runs draw from the
  shared source on the pool's threads, in spite of the comment above.

Also seen while modelling; no text of the repository contradicts it, or no run is
spent on it:

* Postgres: balances are read without a lock and set absolutely, so one of two
  payments is lost (`postgresdriver.py:475`); the row count of the DELETE is ignored,
  so an order delivered by two clients credits its customer twice (`:258`); a payment
  through another warehouse reads one customer and writes the balance of another
  (`:463`, and the TypeDB 3 driver).  Stock quantities are set absolutely too (`:376`).
* SQLite: the balance is that of an unlocked read (`sqlitedriver.py:397`), and an
  order that was refused sets D_NEXT_O_ID back with the client's next commit.
* Neo4j: two orders may get one number (`neo4jdriver.py:304`); every later query for
  it matches both.  Payments make no HISTORY, since the query asks for a district that
  the warehouse belongs to (`:693`), and the stock level counts nothing (`:731`).
* TypeDB 2 recovers customers with `% CPD` as well (`typedb2driver.py:602`).  A
  TypeDB 3 commit of unknown outcome is counted as an abort (`typedb3driver.py:702`).
* MongoDB: a transaction whose answer is lost is executed twice; with
  `notransactions` two orders may get one number (`mongodbdriver.py:611`), and with
  write concern 1 an answered transaction can be lost (`:233`).  `CallsReturn` depends
  on the order in which the driver writes stocks: with the items in the order of the
  request (mutant `AsRequested`) two clients can abort one another for ever.
* `Results.append` leaves out the aborts of a type its client never completed;
  `ReportedWhereCompleted` says what is reported instead.
* `PersonAgent.kt:90` relates `p1` twice, where the README of the agents says that
  two persons become friends; line 107 draws the persons to delete from 0, so that
  the last one stays (`LastPersonStays`).
* `PersonAgent.kt:54` makes meeting-times of a hash, and `(1, 32)` and `(2, 1)` have the
  same: with thousands of persons in a partition many friendships share theirs.  A
  deletion takes it from all of them, and a person none of whose friendships has one
  is not found by `deletePersons` until it gets another (`TimesLostToDeletions`).
* `ldbc/typedb3/loader.py:15` leaves `DRY_RUN` on.  A comment that comes before its
  parent is dropped, with all that refers to it, and nothing is said
  (`LoadedButLateReplies`).  `load_tagclass` goes on with a transaction that the
  commit after its first file has closed (`:147`): more than one file ends the load.
* `Config.kt:73` truncates a logarithm before it divides by another;
  `RandomSource.kt:65` never picks the last recipient; `Simulation.kt:86` keys
  reports by the class of the agent, so that of two entries of one agent the second
  one's report is the one that is kept.

### Fairness

* Load: `WF` of each client's steps and of `Join`.  A pool has one process per
  task, so each is scheduled; a driver call returns or raises.  No fairness of
  `Raise`.  A client that waits for the event has no enabled step.
* Execution: `WF` of each client's steps: a call returns or raises, and the
  duration passes; and of `main`.
* Postgres clients: `WF` of each client's steps, `DeadlockDetected` included: the
  server answers, and `deadlock_timeout` passes.
* MongoDB clients: `WF` of each client's steps, `Conflict` included: the server
  answers and the back-off ends.  None of `ConnectionFails` and `AnswerLost`.
* Simulation: `WF` of the main thread and of each run's steps: a thread of the
  fixed pool finishes its run and takes the next of the queue.
* LDBC loaders: `WF` of `Progress`: calls return or raise, and a thread that has work
  goes on.  None of `Begin`: nobody has to run the program.

`clients`, `verify` and `read_write` claim no liveness.  `CHECK_DEADLOCK FALSE`
everywhere: all of these programs end.

## What is proved

The theorems hold for every value of the constants that satisfies the `ASSUME`s,
with unbounded numbers of clients, partitions, rows and transactions.

**`TpccHarness_proofs`**, about `TpccLoading`: `TypeCorrect`, `LoadInvariant`, `ItemsAreFirst`,
`NothingLost`, about the driver that waits.  `NoRowsLost` is not inductive: that a
call finds its parents depends on where its client is.  `WaitInv` adds that the event
is set only when ITEM is in, that nothing but ITEM is stored before it is set, that a
client still in ITEM has stored the batches before its next one, and `ChainReady`: the
calls of the same warehouse and district that precede the next one are stored.  Lemmas
about `After` (`AfterTable`, `AfterInWarehouse`, `AfterReady`) carry the chain from a
call to the next, and `ReadyHasParents` gives what a call is matched to.

The other safety properties of the load hold for every driver (`MissingHasAnOwner`,
`SharesAreWhole`, `OnlyItemsAreMissed`, `OnlyItemsBlock`).  None of them says what a
client has yet to do, so none is inductive; `Share` does: what a client has stored, has
pending and has `Left` is all of its share, where `ToCome(q)` is what follows the call
`q` in its warehouse, and `ToComeAfter` says that a call takes nothing but itself from
it.  `OwnerExists` and `SharesAreDisjoint` are the deal `w_id % clients`: every
warehouse has one owner.  `LostInv` is `ChainReady` again, with drivers that do not
wait: the tables of a chain drop no rows, as no item is among their parents.

About `TpccExecution` it has `BatchesAreWhole` (`BatchesAddUp`), `NoReportWithoutAll`
(`ReportNeedsEveryClient`) and `ReportedAreStarted` (`ReportedWhereCompleted`).  The
first is inductive, each way a transaction ends taking a step in both `Results`; the
second needs `MergedAreDone`, that nobody is asked before the pool is joined and that
the clients asked so far have returned their results.  The third relates the total to
what each client has begun.  `CountInv` says that a client has counted what it has
started but for what it is executing, and that `main` has added up what was started by
those it has asked which completed one of the type (`Reporting`); when all have
returned, nobody is executing, and the sum is over all that ever completed one.

**`PostgresClients_proofs`**: `StaysConsistent` (`Consistent`), `ImplementsNumbering`
(`NumbersOrders`) and `DeadlocksAtStock` (`OnlyStockDeadlocks`), for any number of
clients, districts, customers, items and transactions.  None of them says what an open
transaction has read, so none is inductive.  `IInv` adds

* `StoreOK`: the orders of a district are numbered from 1 to `D_NEXT_O_ID - 1`, and the
  new ones are among them;
* `LocksOK`: no row is written or deleted by two open transactions;
* `ClientOK`: how far each transaction has come (`NewOrderOK`, `PaymentOK`,
  `DeliveryOK`), and what was read for it is still what is committed where it has
  locked it.  The number read for an order may be behind what others have made of
  `D_NEXT_O_ID`, even when the client has set that; once the order is inserted it is not,
  since the insert of a number that is taken would have raised.  A delivery has deleted at
  most one new order of a district, and given that order its carrier.

What makes it inductive is `LocksOK`: a commit of one client changes no row another
has written (`Spares`), so what the other knows of its rows stays true (`Kept`, one
lemma per kind of transaction).  What it says of a customer's balance is only its type,
since balances are read without a lock; check 12 is not among the checks.  For the
refinement, the commit of an order is `Place`, that of a delivery is `Deliver` with the
districts it has written, and every other step changes nothing that `Numbering` sees.
For the deadlocks, `Rank` orders the rows of WAREHOUSE, DISTRICT, and then NEW_ORDER,
ORDERS and CUSTOMER by district; `WantsAbove` says that who does not wait for stock
waits for a row above all it has locked.  A cycle without such an order would rank
above itself.

**`MongodbClients_proofs`**: `Invariant`, `StaysConsistent` (`Consistent`), `CountsLines`
(`StockCountsLines`) and `ImplementsNumbering` (`NumbersOrders`), for any number of
clients, districts, customers, items, transactions and lost connections.  A transaction
that commits has read from a snapshot, and what it read and did not write may be old by
then: a delivery that found no new order in a district may commit after an order has
been placed there.  The invariant `IInv` says that this is harmless:

* `RunsOn`: for every running transaction there is a snapshot `s`, a store that could
  be (`StoreOK`), from which what it has written (`done`) and has yet to write (`todo`)
  follow, as the first and the last part of `WritesOf(s, i)` (`Divides`).  Only stale
  documents differ between `s` and what is stored, and orders have at most been added
  and new ones at most been taken since (`Agrees`).  The snapshot is no variable of the
  code: `stale` is all the server keeps, and the theorem says that it is enough.
* `LastAreNew`: the new orders of a district are the last ones.  Check 3 alone, that they
  have no gap, would not outlast the next order.
* `HistoryOK`: a receipt is of a transaction its client has ended or that has failed,
  so that a payment that runs again after a lost answer makes a receipt of its own.

A write that does not conflict is of a document that is not stale, so when the last one
is done, every document written is as it was in the snapshot: what is stored is then
what the callback would write if it ran now, on `db`, but for the districts it delivers
from (`Places`, `Pays`, `Delivers` say what that is, and `NewOrderStored`,
`PaymentStored`, `DeliveryStored` that a commit does it).  That no other transaction that
runs loses its snapshot is `OthersRunOn`: what is stored is either stale for it from
now on or was not there.  That the checks, the counts of the stock and the numbering
survive is then a matter of these three effects.  An item that is written twice would
spoil this, hence `Distinct`: no callback writes a document twice, for which the
items of an order have to be different.  The positions of an order's items and of the
items that are found (`Found`, sorted) are different orders of the same set
(`ItemsFound`, `SortedIs`), which is why the stock counts the lines, while
`LinesArePriced`, about the same positions, is refuted by `mongo_prices`.

**`TpccClients_proofs`**: `Invariant`, `StaysConsistent` (`Consistent`), `OrdersAreNumbered`
(`NumbersFollowOrders`), `CountsLines` (`StockCountsLines`) and
`Typedb2ImplementsNumbering` (`Typedb2NumbersOrders`), for any number of clients,
districts, customers, items and calls.  The driver never changes, so `IInv` is the
invariant of one driver or another; each has one of its own, as each database protects a
transaction by other means.

* *TypeDB 2*, `TypedbInv`.  A transaction writes what follows from its snapshot (`RunsOn`:
  for some store `s` it is one of the `Outcomes` on `s`), and it commits if what it has
  read of the rows it writes is still there.  As every call writes the rows it goes by,
  what it stores is what it would write now (`TypedbStored`): an order, a payment or a
  delivery of at most one new order of each district happens at the commit.  What these do
  to the committed rows is `Adds`, `Pays` and `Carries`, and the checks and the numbering
  are shown of those three (`TypedbOrders`, `TypedbPays`, `TypedbCarries`,
  `TypedbNumbers`).  `Fresh` says that the nodes of a call that has not ended do not
  exist yet, so that an insert makes one.
* *SQLite*, `SqliteInv`.  Only one connection is RESERVED, and what that one sees
  (`Visible`) satisfies `SqliteOK`, as what is committed does; a commit makes the one the
  other, also where it stores what an earlier call that raised has left behind.  Between
  its reads and its first write a call is not protected.  `Later` says what others may
  do to what it has read: orders stay, and what is no longer new stays so; `ReadOK` what
  follows: the number that was read follows an order that is there or is the first, and
  the new order that was read is the oldest or gone (`Takeable`, `StillReadOK`).  So a
  `D_NEXT_O_ID` that is behind stays behind (`NumberedFromOne`), and an order is
  delivered twice, if at all, without leaving a hole (`LastAreNew`, `NewAreOpen`).
* *Neo4j*, `NeoInv`.  No two transactions have written the same node, and no one else
  can change a node that is locked: what a transaction has written to WAREHOUSE or
  DISTRICT stays the committed value with its own addition (`NeoAdded`).  Which of the
  additions it has made is where it is (`NeoPhase`), and on the way to the commit of a
  payment it has made both, on that of an order one increment and one node
  (`NeoAdds`).  Of what is read without a lock, the customers, the stock and the new
  orders, only the types are kept, and the properties ask nothing more.

**`Simulation_proofs`**, about `Simulation`: `TypeCorrect`, `SimulationInvariant`, `StreamsDisjoint`
(`DrawsAreNotShared`), `SessionsOutliveHandlers` (`HandlersHaveSessions`),
`NoReportMissing` (the action property `ReportsComplete`) and `BlocksDoNotMix`
(`DrawsStayInBlock`).  The invariant adds to the first two properties that every draw
up to `drawn` has one owner, a source or a run that holds the first half of its seed
(`DrawsOwned`); that nothing is on the pool between iterations and once `main` has left
the loop (`PoolIdle`), which is what `join` is for, since it waits for the runs that go
on after one has thrown; and that a run draws only as long as it has actions left
(`RunsBounded`).  For the reports it is `ReportsSoFar`: the agents before the current
one have all of theirs.  For the blocks it is `BlocksInv`: what has been drawn is where
the agent's block begins and what its runs have drawn so far (`Taken`, a sum over the
partitions).  When all runs are done that is a whole block, and the next agent begins
where it ends (`NextBlock`).

About `PersonAgent` it has `LastIsNeverDeleted` (`LastPersonStays`), `NothingHalfDeleted`
(`DeletionsAreWhole`) and `LostToDeletionsOnly` (`TimesLostToDeletions`), for any order of
agents, any hash and any readings of the clock, and `NobodyDrawsInVain`
(`DrawsHaveNumbers`), where `createPerson` is the first of them.  A transaction holds
what its handler has read, and other partitions commit before it does.  The invariant
says for each kind of open transaction what is still true of it (`Creates`, `Befriends`,
`Deletes`): a deletion has the meeting-time of every timed friendship of those it
deletes, because only another agent could make a new one and the agents take turns;
and each meeting-time it has is still that of such a friendship, or no longer stored.
A friendship's only player is stored (`FriendsStored`), and the times are those of
timed friendships (`TimesOwned`).  With these a commit that takes a meeting-time from
a friendship deletes another one that had it (`LostInCommit`).

**`LdbcLoader_proofs`**: `AllCommitted` (`NothingLeftBehind`), `TypeCorrect`,
`RowsStoredOnce` (`StoredOnce`), `ThreadsAllFinish` (`ThreadsFinish`) and
`AllLoadedButLate` (`LoadedButLateReplies`), for any batch size, number of files and
threads, and any data that satisfies the assumptions: the rows have the columns they
should (`ExtractsAssumption`), no two rows make the same thing (`IdsAssumption`, the ids
of the LDBC generator), and every id is that of some row of a type that is matched with
it (`ReferencesAssumption`, which the last two use).  None of them says anything of the
order of the rows.

* For the first, `IInv`: a batch is committed when the count is a multiple of the batch
  size, and the rest of a file when it is not, so an open transaction at such a count
  has to be empty, also where the count began with another file (`BatchesCommitted`).
* For the types, `FilesInv`: what a file holds has been read of it, and nothing is
  held of one that is closed or was never opened.
* `StoredOnce` needs to know where a thing may still come from: `StoredInv` says that
  each is stored once and is that of a row that has been read and is held no more
  (`Past`), `HeldInv` that what is held matched what its transaction sees.  A commit
  then stores rows that are not yet in `Past`, and by `RowsDiffer` those are other
  things.  It holds where a commit stores and its answer is lost, as nothing is read
  of that file any more.
* `LoadedButLateReplies` says in one direction that no match fails where it must not.
  `LoadsFit` reads off `main` which load makes the things of each type (`Stage`) and
  that every load matches what a load before it makes, but for the superclass of a class
  of tags, which the first pass over the file makes, and for what a comment is on.  So
  what a row refers to, if the row is `Wanted`, is wanted and read before it
  (`WantedBefore`), and by `LoadedInv` every wanted row that has been read is held or
  stored.  Among the comments "before" needs `OrderInv`: a file is opened when those
  before it are closed.  It also says that no load goes on after a second file of tag
  classes, whose rows would be missing.
* In the other direction, what is left out is not stored by chance.  `LateReplies` is the
  least set of comments that has those on a later one and is closed under replies.  By
  `TakenInv` a comment that is held or stored is not on a later one, so that the comments
  that are not stored are closed in this way and have the late ones among them
  (`LateNotStored`).  In a dry run whatever is in a place, or refers to what is, would need
  a load before its own to have stored such a thing, back to the places
  (`DryNotStored`).
* `ThreadsFinish` says that the forums of a closed file are stored: `LoadedInv` again, for
  the load that is running.

**`TpccVerification_proofs`**: `VerificationInvariant`, `CountsAgree`
(`VerificationPasses`) and `DeliveriesReported` (`ReportedIffDelivered`), under the
assumption `Scaled`, that a district has fewer customers than `CPD`; at scale
factor 1 the run `verify_full_scale` refutes them.  The two databases deliver
different orders of a district, so their states are not equal; the invariant `VInv`
is that they agree in number: as many orders, lines and histories, and as many *new*
orders in every district, until the verifier's connection is aborted, from when no
comparison can be made.  For the number of orders it needs that each side's orders
of a district lie below its `D_NEXT_O_ID`, so that an insert always adds one; for
the new ones, that a delivery takes exactly one of every district that has any, on
both sides (`PicksAgree`, `DeliveriesAgree`).  On the TypeDB side that is where
`Scaled` comes in: `DKeyInjective`, `CKeyInjective` and `CIdRecovered` say that keys
determine districts and customers and that `% CPD` gives the number back, and
`DeliveredIsPicked` that the last query of `doDelivery` finds the picked order and
no other.  Payments may be remote here, unlike in the run `verify`.

`TypeCorrect` (`TypeOK`) needs `Scaled` too, as a delivery that finds no customer would
credit a key that is none.  `BalancesPaid` (`BalancesArePaid`) is about one warehouse,
as the run is: through another one, `doPayment` reads one customer and charges another
(see *Findings*).  A customer's balance and payments make up the amounts of the orders
delivered to the customer, a sum over a set of orders.  A delivery moves at most one
order of a district out of the new ones, so that it adds to the sum of one customer
per district what that customer is credited (`AmountUnion`, `TypedbCredits`); a payment
takes from the balance what it adds to the payments (`TypedbCharges`).  It holds on
both sides although they deliver different orders, and when the verifier has failed.

**`SumFacts`** has what these proofs need of `SumFunctionOnSet`.  The community modules
define it with a `CHOOSE` of a recursive function that takes the elements of a set in
some order, so that it is a sum has to be proved: that such a function exists
(`IterExists`), that any element may be taken first (`SumRemove`), and so that
the sums of equal functions are equal (`SumSame`), that a change at one place changes the
sum by as much (`SumChange`), that sums over disjoint sets add up (`SumUnion`), and what
bounds one (`SumBounds`).  Where one would use induction over the set, a minimal subset
for which the fact fails is refuted (`MinimalSubset`, from the well-foundedness of the
strict subsets of a finite set).

Model-checked only, for any of the runs that pass:

* liveness (both `LoadEnds`, `ExecutionEnds`, `SimulationEnds`, `WaitingEnds`,
  `CallsReturn`), which is out of the prover's reach.

## What is not modelled, and the plan

Left out of the modules above: times and latencies, the distributions of random
numbers, the text of rows, stock quantities of Postgres and TypeDB 3, the loading of
schema and seed data in the simulation, trace sampling, handlers missing from an
agent's configuration, the load of the MongoDB, SQLite and TypeDB 2 drivers (the last
makes the calls of the TypeDB 3 driver).

Not modelled at all:

* **Legacy drivers.**  They cannot run in this harness: cassandra, hbase, membase,
  redis, scalaris and tokyocabinet are Python 2, which Python 3 does not parse; no
  constructor takes the `worker_id` that `loaderFunc` and `executorFunc` pass; what the
  calls of couchdb return is not the pair `Executor.execute` unpacks; csv only writes
  the parameters down.
* **LDBC SNB drivers.**  One prepared query per operation; the state is the database's.
* **Other LDBC loaders** (`typedb-loader.py`, Postgres' `load.py`), **build files**:
  one statement after the other, with no state of their own.
* **IAM simulation.**  Its agents run on the framework that `Simulation` models.

What is next, in this order:

1. The IAM agents' pairings, and `ComparisonTest` over two databases.
2. Concurrent TypeDB 3 clients, on the snapshot of `Typedb2Clients`; stock quantities
   of `PostgresClients`; the load of the MongoDB driver.
3. The inserts of several statements of the LDBC drivers.
