---------------------------- MODULE TpccLoading ----------------------------
(***************************************************************************)
(* The parallel data load of the TPC-C harness: startLoading and           *)
(* loaderFunc of tpcc.py, Loader of runtime/loader.py, and what the        *)
(* drivers' loadTuples / loadFinishItem / loadFinish make of their calls.  *)
(*                                                                         *)
(* A client is one loaderFunc task of the multiprocessing pool.  Its work  *)
(* is a fixed series of loadTuples calls; a call stands for the batch of   *)
(* rows it inserts.  The only thing the clients share is the database and  *)
(* the manager's items_complete_event.                                     *)
(***************************************************************************)
EXTENDS TpccPool, FiniteSets

CONSTANTS
    NumWarehouses,    \* --warehouses: the warehouses are 1..NumWarehouses
    NumDistricts,     \* districtsPerWarehouse
    NumItemBatches    \* batches of batch_size rows of ITEM, and of STOCK

ASSUME WarehousesAssumption == NumWarehouses \in Nat \ {0}
ASSUME DistrictsAssumption  == NumDistricts \in Nat \ {0}
ASSUME BatchesAssumption    == NumItemBatches \in Nat \ {0}

Warehouses == 1 .. NumWarehouses
Districts  == 1 .. NumDistricts
Batches    == 1 .. NumItemBatches

\* Mutant: the last warehouse left out.
LastLeftOut(i) == {w \in Warehouses : w < NumWarehouses /\ w % NumClients = i}

\* w_ids[i]: startLoading deals the warehouses out by w_id % clients.
WIds(i) == {w \in Warehouses : w % NumClients = i}

\* Mutant: warehouses taken to be numbered from 0.
ZeroBased(i) == 0 \in WIds(i)

\* loadItems = (1 in w_ids): the client that owns warehouse 1 loads ITEM.
LoadsItems(i) == 1 \in WIds(i)

(***************************************************************************)
(* The loadTuples calls.  n numbers the batches of ITEM and STOCK; d is 0  *)
(* for the tables that are not loaded per district.                        *)
(***************************************************************************)
DistrictTables ==
    {"DISTRICT", "CUSTOMER", "ORDERS", "ORDER_LINE", "NEW_ORDER", "HISTORY"}

Call(table, w, d, n) == [table |-> table, w |-> w, d |-> d, n |-> n]

ItemCalls == {Call("ITEM", 0, 0, n) : n \in Batches}

WarehouseCalls(w) ==
    {Call("WAREHOUSE", w, 0, 0)}
        \cup {Call(t, w, d, 0) : t \in DistrictTables, d \in Districts}
        \cup {Call("STOCK", w, 0, n) : n \in Batches}

AllCalls == ItemCalls \cup UNION {WarehouseCalls(w) : w \in Warehouses}

\* Not a call of loadTuples: loadFinishItem, which follows the last ITEM batch,
\* and the point between two warehouses of Loader.execute.
FinishItem == Call("ITEM", 0, 0, NumItemBatches + 1)
Between    == Call("", 0, 0, 0)

CallsOf(i) ==
    (IF LoadsItems(i) THEN ItemCalls ELSE {})
        \cup UNION {WarehouseCalls(w) : w \in WIds(i)}

\* Mutant: NEW_ORDER before ORDERS.
NewOrderFirst(c) ==
    CASE c.table = "WAREHOUSE"  -> Call("DISTRICT", c.w, 1, 0)
      [] c.table = "DISTRICT"   -> Call("CUSTOMER", c.w, c.d, 0)
      [] c.table = "CUSTOMER"   -> Call("NEW_ORDER", c.w, c.d, 0)
      [] c.table = "NEW_ORDER"  -> Call("ORDERS", c.w, c.d, 0)
      [] c.table = "ORDERS"     -> Call("ORDER_LINE", c.w, c.d, 0)
      [] c.table = "ORDER_LINE" -> Call("HISTORY", c.w, c.d, 0)
      [] OTHER                  -> Between

\* The call Loader.loadItems / loadWarehouse makes after c.
After(c) ==
    CASE c.table = "ITEM"       -> Call("ITEM", 0, 0, c.n + 1)
      [] c.table = "WAREHOUSE"  -> Call("DISTRICT", c.w, 1, 0)
      [] c.table = "DISTRICT"   -> Call("CUSTOMER", c.w, c.d, 0)
      [] c.table = "CUSTOMER"   -> Call("ORDERS", c.w, c.d, 0)
      [] c.table = "ORDERS"     -> Call("ORDER_LINE", c.w, c.d, 0)
      [] c.table = "ORDER_LINE" -> Call("NEW_ORDER", c.w, c.d, 0)
      [] c.table = "NEW_ORDER"  -> Call("HISTORY", c.w, c.d, 0)
      [] c.table = "HISTORY"    -> IF c.d < NumDistricts
                                     THEN Call("DISTRICT", c.w, c.d + 1, 0)
                                     ELSE Call("STOCK", c.w, 0, 1)
      [] c.table = "STOCK"      -> IF c.n < NumItemBatches
                                     THEN Call("STOCK", c.w, 0, c.n + 1)
                                     ELSE Between

\* The calls whose rows a row of c is matched to before it is inserted.  STOCK
\* batch n holds the items of ITEM batch n; an ORDER_LINE may name any item.
Parents(c) ==
    CASE c.table \in {"ITEM", "WAREHOUSE"} -> {}
      [] c.table = "DISTRICT"   -> {Call("WAREHOUSE", c.w, 0, 0)}
      [] c.table = "CUSTOMER"   -> {Call("DISTRICT", c.w, c.d, 0)}
      [] c.table = "ORDERS"     -> {Call("DISTRICT", c.w, c.d, 0),
                                    Call("CUSTOMER", c.w, c.d, 0)}
      [] c.table = "ORDER_LINE" -> {Call("WAREHOUSE", c.w, 0, 0),
                                    Call("DISTRICT", c.w, c.d, 0),
                                    Call("ORDERS", c.w, c.d, 0)} \cup ItemCalls
      [] c.table = "NEW_ORDER"  -> {Call("DISTRICT", c.w, c.d, 0),
                                    Call("ORDERS", c.w, c.d, 0)}
      [] c.table = "HISTORY"    -> {Call("CUSTOMER", c.w, c.d, 0)}
      [] c.table = "STOCK"      -> {Call("WAREHOUSE", c.w, 0, 0),
                                    Call("ITEM", 0, 0, c.n)}

----------------------------------------------------------------------------
VARIABLES
    driver,      \* the driver main was asked for, whose loadTuples the calls reach
    status,      \* status[i]: where the task of client i is
    next,        \* next[i]: the call client i makes next
    todo,        \* todo[i]: the warehouses client i has not begun
    itemsEvent,  \* items_complete_event.is_set()
    pending,     \* pending[i]: calls executed in client i's open transaction
    stored,      \* calls whose rows were sent and committed
    lost,        \* stored calls some rows of which matched no parent
    main         \* the parent process, in or after startLoading's pool.join

vars == <<driver, status, next, todo, itemsEvent, pending, stored, lost, main>>

\* Mutants: no wait at all; a wait only where an order line needs its item.
NeverWaits(table)        == FALSE
WaitsOnOrderLine(table)  == driver = "typedb3" /\ table = "ORDER_LINE"

\* typedb3 (and typedb2) block in loadTuples until items_complete_event is set.
WaitsForItems(table) == driver = "typedb3" /\ table # "ITEM"

\* typedb3 and neo4j insert by MATCH ... INSERT/CREATE: a row whose parents are
\* absent inserts nothing and raises nothing.  Postgres loads with the foreign
\* key triggers off (session_replication_role = replica).
InsertsByMatch == driver \in {"typedb3", "neo4j"}

\* Mutant: a commit in every loadTuples.
CommitsEveryBatch == FALSE

\* Postgres commits once, in loadFinish; the others commit inside loadTuples.
CommitsAtFinish == driver = "postgres"

Drivers == {"typedb3", "neo4j", "postgres"}

Statuses == {"queued", "running", "done", "raised"}

TypeOK ==
    /\ driver \in Drivers
    /\ status \in [Clients -> Statuses]
    /\ next \in [Clients -> AllCalls \cup {FinishItem, Between}]
    /\ todo \in [Clients -> SUBSET Warehouses]
    /\ itemsEvent \in BOOLEAN
    /\ pending \in [Clients -> SUBSET AllCalls]
    /\ stored \subseteq AllCalls
    /\ lost \subseteq stored
    /\ main \in {"joining", "finished"}

Init ==
    /\ driver \in Drivers
    /\ status = [i \in Clients |-> "queued"]
    /\ next = [i \in Clients |->
                  IF LoadsItems(i) THEN Call("ITEM", 0, 0, 1) ELSE Between]
    /\ todo = [i \in Clients |-> WIds(i)]
    /\ itemsEvent = FALSE
    /\ pending = [i \in Clients |-> {}]
    /\ stored = {}
    /\ lost = {}
    /\ main = "joining"

\* A pool process takes the task: driver, loadConfig, Loader, loadStart.
Start(i) ==
    /\ status[i] = "queued"
    /\ status' = [status EXCEPT ![i] = "running"]
    /\ UNCHANGED <<driver, next, todo, itemsEvent, pending, stored, lost, main>>

\* Loader.execute goes on to the next of its warehouses, in ascending order.
NextWarehouse(i) ==
    /\ status[i] = "running"
    /\ next[i] = Between
    /\ \E w \in todo[i] :
          /\ \A v \in todo[i] : w <= v
          /\ next' = [next EXCEPT ![i] = Call("WAREHOUSE", w, 0, 0)]
          /\ todo' = [todo EXCEPT ![i] = @ \ {w}]
    /\ UNCHANGED <<driver, status, itemsEvent, pending, stored, lost, main>>

\* Client i is inside items_complete_event.wait().
Blocked(i) ==
    /\ status[i] = "running"
    /\ next[i] \in AllCalls
    /\ WaitsForItems(next[i].table)
    /\ ~ itemsEvent

\* One loadTuples call: wait for the items if the driver does, insert the
\* batch, commit it or leave it in the open transaction.
LoadTuples(i) ==
    LET c == next[i] IN
    /\ status[i] = "running"
    /\ c \in AllCalls
    /\ ~ Blocked(i)
    /\ IF CommitsAtFinish
         THEN /\ pending' = [pending EXCEPT ![i] = @ \cup {c}]
              /\ UNCHANGED <<stored, lost>>
         ELSE /\ stored' = stored \cup {c}
              /\ lost' = IF InsertsByMatch /\ ~ Parents(c) \subseteq stored \ lost
                           THEN lost \cup {c} ELSE lost
              /\ UNCHANGED pending
    /\ next' = [next EXCEPT ![i] = After(c)]
    /\ UNCHANGED <<driver, status, todo, itemsEvent, main>>

\* Mutant: the event is set by another driver's loadFinishItem only.
EventNotSet(i) ==
    /\ status[i] = "running"
    /\ next[i] = FinishItem
    /\ next' = [next EXCEPT ![i] = Between]
    /\ UNCHANGED <<driver, status, todo, itemsEvent, pending, stored, lost, main>>

\* driver.loadFinishItem(): the typedb and neo4j drivers set the event.
LoadFinishItem(i) ==
    /\ status[i] = "running"
    /\ next[i] = FinishItem
    /\ itemsEvent' = (itemsEvent \/ driver # "postgres")
    /\ next' = [next EXCEPT ![i] = Between]
    /\ UNCHANGED <<driver, status, todo, pending, stored, lost, main>>

\* driver.loadFinish(), after which loaderFunc returns.
LoadFinish(i) ==
    /\ status[i] = "running"
    /\ next[i] = Between
    /\ todo[i] = {}
    /\ status' = [status EXCEPT ![i] = "done"]
    /\ stored' = stored \cup pending[i]
    /\ pending' = [pending EXCEPT ![i] = {}]
    /\ UNCHANGED <<driver, next, todo, itemsEvent, lost, main>>

\* A driver call of client i raises: loaderFunc re-raises and the task ends
\* with an exception nobody reads.  A call that loads in several transactions
\* may have committed a part, which leaves it unfinished; an open transaction
\* is rolled back with its connection.
Raise(i) ==
    /\ status[i] \in {"queued", "running"}
    /\ ~ Blocked(i)
    /\ status' = [status EXCEPT ![i] = "raised"]
    /\ pending' = [pending EXCEPT ![i] = {}]
    /\ UNCHANGED <<driver, next, todo, itemsEvent, stored, lost, main>>

Ended(i) == status[i] \in {"done", "raised"}

\* startLoading's pool.join() returns when every task has ended, however it
\* ended: the AsyncResults are never read, and main reports "Finished loading".
Join ==
    /\ main = "joining"
    /\ \A i \in Clients : Ended(i)
    /\ main' = "finished"
    /\ UNCHANGED <<driver, status, next, todo, itemsEvent, pending, stored, lost>>

Step(i) ==
    \/ Start(i)
    \/ NextWarehouse(i)
    \/ LoadTuples(i)
    \/ LoadFinishItem(i)
    \/ LoadFinish(i)

Next ==
    \/ \E i \in Clients : Step(i) \/ Raise(i)
    \/ Join

Spec == Init /\ [][Next]_vars

\* A pool has a process per task, a running process keeps running until its
\* task ends, and pool.join returns once all have: every client, and main.
FairSpec ==
    /\ Spec
    /\ \A i \in Clients : WF_vars(Step(i))
    /\ WF_vars(Join)

----------------------------------------------------------------------------
(***************************************************************************)
(* Properties.                                                             *)
(***************************************************************************)

\* Whatever the clients' speeds, a driver that waits for the event has the
\* whole ITEM table in before the first row of anything else: what
\* items_complete_event is for (typedb3driver.py loadTuples, loadFinishItem).
ItemsFirst ==
    driver = "typedb3" /\ ~ stored \subseteq ItemCalls => ItemCalls \subseteq stored

\* With that driver no row is dropped by a MATCH that finds no parent: needs the event
\* across clients and the table order of loadWarehouse inside one.
NoRowsLost == driver = "typedb3" => lost = {}

\* Without the event, what a client alone controls is still in order: only
\* tables that refer to ITEM can drop rows.
LostRowsNeedItems == \A c \in lost : c.table \in {"ORDER_LINE", "STOCK"}

\* When main reports "Finished loading", every batch that is missing belongs to
\* a client whose exception was dropped; so with no failure nothing is missing.
MissingRowsHaveAFailedOwner ==
    main = "finished" =>
        \A c \in AllCalls \ stored :
            \E i \in Clients : c \in CallsOf(i) /\ status[i] = "raised"

\* If main waits for ever (every client ended or blocked in loadTuples, one
\* blocked) then the client that loads ITEM died before it could set the event.
StuckOnlyWithoutItems ==
    /\ \A i \in Clients : Ended(i) \/ Blocked(i)
    /\ \E i \in Clients : Blocked(i)
    => \E i \in Clients : LoadsItems(i) /\ status[i] = "raised"

\* Postgres loads a client's share in one transaction: all of it or nothing.
ShareIsAtomic ==
    driver = "postgres" => \A i \in Clients :
        \/ CallsOf(i) \subseteq stored
        \/ CallsOf(i) \cap stored = {}

\* Main always gets past the load when nothing fails.
LoadEnds == [](\A i \in Clients : status[i] # "raised") => <>(main = "finished")
============================================================================
