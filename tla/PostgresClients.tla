-------------------------- MODULE PostgresClients --------------------------
(***************************************************************************)
(* Several clients of drivers/postgresdriver.py at once, as startExecution *)
(* runs them: one connection each, at READ COMMITTED, one statement after  *)
(* another.  A statement sees what is committed and what its transaction   *)
(* has written; a written row is locked until the transaction ends, and a  *)
(* statement that wants to write a locked row waits.  When a statement     *)
(* raises, the server rolls the transaction back and refuses every later   *)
(* statement, because neither the driver nor the executor ends it: that    *)
(* client does nothing more.                                               *)
(*                                                                         *)
(* One warehouse.  An order's lines cost one unit, a payment is of one.    *)
(* Lines and stock quantities are left out; the locks on stock rows stay.  *)
(* Read-only and rolled-back transactions change nothing and lock nothing. *)
(***************************************************************************)
EXTENDS TpccRows

CONSTANTS
    NumClients,        \* --clients
    Types,             \* the transactions they execute
    MaxTransactions    \* bound: transactions of a client in --duration

ASSUME ClientsAssumption  == NumClients \in Nat \ {0}
ASSUME TypesAssumption    == Types \subseteq {"NEW_ORDER", "PAYMENT", "DELIVERY"}
ASSUME DurationAssumption == MaxTransactions \in Nat

Clients == 1 .. NumClients

VARIABLES
    db,       \* the committed rows
    pc,       \* pc[i]: the next statement of client i
    txn,      \* txn[i]: the parameters of its transaction, and what it has read
    todo,     \* todo[i]: the items (or districts) its loop has not reached, in order
    writes,   \* writes[i]: rows its open transaction has written, their values
    deletes,  \* deletes[i]: rows it has deleted
    ended     \* ended[i]: transactions it has committed

vars == <<db, pc, txn, todo, writes, deletes, ended>>

Touched(i) == DOMAIN writes[i] \cup deletes[i]

Locked(i, row) == \E j \in Clients \ {i} : row \in Touched(j)

Exists(i, row) == row \in (DOMAIN db \cup DOMAIN writes[i]) \ deletes[i]

Value(i, row) == IF row \in DOMAIN writes[i] THEN writes[i][row] ELSE db[row]

Numbers(i, table, d) == {row[3] : row \in {r \in DOMAIN db \cup DOMAIN writes[i] :
                                              Exists(i, r) /\ r[1] = table /\ r[2] = d}}

NoTxn == [d |-> 0, c |-> 0, o |-> 0, balance |-> 0, paid |-> 0]

Init ==
    /\ db = Loaded
    /\ pc = [i \in Clients |-> "idle"]
    /\ txn = [i \in Clients |-> NoTxn]
    /\ todo = [i \in Clients |-> <<>>]
    /\ writes = [i \in Clients |-> NoRows]
    /\ deletes = [i \in Clients |-> {}]
    /\ ended = [i \in Clients |-> 0]

Begins(i, type) ==
    /\ pc[i] = "idle"
    /\ type \in Types
    /\ ended[i] < MaxTransactions

\* An INSERT or UPDATE of client i, which goes on to another statement.
Writes(i, row, value, then) ==
    /\ ~ Locked(i, row)
    /\ writes' = [writes EXCEPT ![i] = Put(row, value, @)]
    /\ pc' = [pc EXCEPT ![i] = then]
    /\ UNCHANGED <<db, deletes, ended>>

\* A statement of client i raises.
Raises(i) ==
    /\ pc' = [pc EXCEPT ![i] = "aborted"]
    /\ txn' = [txn EXCEPT ![i] = NoTxn]
    /\ todo' = [todo EXCEPT ![i] = <<>>]
    /\ writes' = [writes EXCEPT ![i] = NoRows]
    /\ deletes' = [deletes EXCEPT ![i] = {}]
    /\ UNCHANGED <<db, ended>>

\* conn.commit().
Commits(i, written) ==
    /\ db' = Restrict(Overlay(written, db), (DOMAIN db \cup DOMAIN written) \ deletes[i])
    /\ pc' = [pc EXCEPT ![i] = "idle"]
    /\ txn' = [txn EXCEPT ![i] = NoTxn]
    /\ todo' = [todo EXCEPT ![i] = <<>>]
    /\ writes' = [writes EXCEPT ![i] = NoRows]
    /\ deletes' = [deletes EXCEPT ![i] = {}]
    /\ ended' = [ended EXCEPT ![i] = @ + 1]

----------------------------------------------------------------------------
(***************************************************************************)
(* doNewOrder.                                                             *)
(***************************************************************************)

\* getItemInfo, getWarehouseTaxRate, getDistrict, getCustomer.  The items of an
\* order are different, and in no particular order.
BeginNewOrder(i) ==
    /\ Begins(i, "NEW_ORDER")
    /\ \E d \in DIds, c \in CIds, items \in SetToAllKPermutations(Items) :
          /\ txn' = [txn EXCEPT ![i] =
                        [NoTxn EXCEPT !.d = d, !.c = c, !.o = db[DistrictRow(d)].next]]
          /\ todo' = [todo EXCEPT ![i] = items]
    /\ pc' = [pc EXCEPT ![i] = "incrementNextOrderId"]
    /\ UNCHANGED <<db, writes, deletes, ended>>

\* D_NEXT_O_ID is set to one more than the number read.
IncrementNextOrderId(i) ==
    LET row == DistrictRow(txn[i].d) IN
    /\ pc[i] = "incrementNextOrderId"
    /\ Writes(i, row, [db[row] EXCEPT !.next = txn[i].o + 1], "createOrder")
    /\ UNCHANGED <<txn, todo>>

\* createOrder and createNewOrder, under the number read.  The primary key of
\* ORDERS refuses a second order of that number.
CreateOrder(i) ==
    LET row   == OrderRow(txn[i].d, txn[i].o)
        order == [c |-> txn[i].c, amount |-> 1, delivered |-> FALSE]
    IN
    /\ pc[i] = "createOrder"
    /\ ~ Locked(i, row)
    /\ IF row \in DOMAIN db
         THEN Raises(i)
         ELSE /\ writes' = [writes EXCEPT ![i] =
                    Put(NewRow(txn[i].d, txn[i].o), [new |-> TRUE], Put(row, order, @))]
              /\ pc' = [pc EXCEPT ![i] = "updateStock"]
              /\ UNCHANGED <<db, txn, todo, deletes, ended>>

\* getStockInfo, updateStock and createOrderLine for the next item.
UpdateStock(i) ==
    /\ pc[i] = "updateStock"
    /\ todo[i] # <<>>
    /\ Writes(i, StockRow(Head(todo[i])), db[StockRow(Head(todo[i]))], "updateStock")
    /\ todo' = [todo EXCEPT ![i] = Tail(@)]
    /\ UNCHANGED txn

CommitNewOrder(i) ==
    /\ pc[i] = "updateStock"
    /\ todo[i] = <<>>
    /\ Commits(i, writes[i])

----------------------------------------------------------------------------
(***************************************************************************)
(* doPayment.                                                              *)
(***************************************************************************)

\* getCustomer..., getWarehouse, getDistrict.
BeginPayment(i) ==
    /\ Begins(i, "PAYMENT")
    /\ \E d \in DIds, c \in CIds :
          LET customer == db[CustomerRow(d, c)] IN
          txn' = [txn EXCEPT ![i] =
                     [NoTxn EXCEPT !.d = d, !.c = c, !.balance = customer.balance - 1,
                                   !.paid = customer.paid + 1]]
    /\ pc' = [pc EXCEPT ![i] = "updateWarehouseBalance"]
    /\ UNCHANGED <<db, todo, writes, deletes, ended>>

\* W_YTD = W_YTD + h_amount, then the district's.
UpdateWarehouseBalance(i) ==
    /\ pc[i] = "updateWarehouseBalance"
    /\ Writes(i, WarehouseRow, [db[WarehouseRow] EXCEPT !.ytd = @ + 1],
              "updateDistrictBalance")
    /\ UNCHANGED <<txn, todo>>

UpdateDistrictBalance(i) ==
    LET row == DistrictRow(txn[i].d) IN
    /\ pc[i] = "updateDistrictBalance"
    /\ Writes(i, row, [db[row] EXCEPT !.ytd = @ + 1], "updateCustomer")
    /\ UNCHANGED <<txn, todo>>

\* update..Customer sets what was computed from the row read at the beginning.
UpdatePayingCustomer(i) ==
    /\ pc[i] = "updateCustomer"
    /\ Writes(i, CustomerRow(txn[i].d, txn[i].c),
              [balance |-> txn[i].balance, paid |-> txn[i].paid], "insertHistory")
    /\ UNCHANGED <<txn, todo>>

\* insertHistory, and the commit.
CommitPayment(i) ==
    /\ pc[i] = "insertHistory"
    /\ Commits(i, Put(HistoryRow(i, ended[i]), [d |-> txn[i].d, c |-> txn[i].c], writes[i]))

----------------------------------------------------------------------------
(***************************************************************************)
(* doDelivery: district after district.                                    *)
(***************************************************************************)
BeginDelivery(i) ==
    /\ Begins(i, "DELIVERY")
    /\ todo' = [todo EXCEPT ![i] = [d \in DIds |-> d]]
    /\ pc' = [pc EXCEPT ![i] = "getNewOrder"]
    /\ UNCHANGED <<db, txn, writes, deletes, ended>>

\* Mutant: the districts in any order.
GetAnyNewOrder(i) ==
    /\ pc[i] = "getNewOrder"
    /\ \E d \in ToSet(todo[i]) :
          /\ todo' = [todo EXCEPT ![i] = Remove(@, d)]
          /\ \E o \in Numbers(i, "new_order", d) :
                txn' = [txn EXCEPT ![i] =
                           [NoTxn EXCEPT !.d = d, !.o = o, !.c = db[OrderRow(d, o)].c]]
    /\ pc' = [pc EXCEPT ![i] = "deleteNewOrder"]
    /\ UNCHANGED <<db, writes, deletes, ended>>

\* getNewOrder, getCId, sumOLAmount; a district without new orders is skipped.
GetNewOrder(i) ==
    /\ pc[i] = "getNewOrder"
    /\ todo[i] # <<>>
    /\ todo' = [todo EXCEPT ![i] = Tail(@)]
    /\ LET d == Head(todo[i]) IN
       IF Numbers(i, "new_order", d) = {}
         THEN UNCHANGED <<txn, pc>>
         ELSE /\ \E o \in Numbers(i, "new_order", d) :
                    txn' = [txn EXCEPT ![i] =
                               [NoTxn EXCEPT !.d = d, !.o = o, !.c = db[OrderRow(d, o)].c]]
              /\ pc' = [pc EXCEPT ![i] = "deleteNewOrder"]
    /\ UNCHANGED <<db, writes, deletes, ended>>

\* Mutant: the row of NEW_ORDER stays.
KeepNewOrder(i) ==
    /\ pc[i] = "deleteNewOrder"
    /\ pc' = [pc EXCEPT ![i] = "updateOrders"]
    /\ UNCHANGED <<db, txn, todo, writes, deletes, ended>>

\* Mutant: a DELETE without NO_O_ID.
DeleteNewOrders(i) ==
    LET rows == {NewRow(txn[i].d, o) : o \in Numbers(i, "new_order", txn[i].d)} IN
    /\ pc[i] = "deleteNewOrder"
    /\ \A row \in rows : ~ Locked(i, row)
    /\ deletes' = [deletes EXCEPT ![i] = @ \cup rows]
    /\ pc' = [pc EXCEPT ![i] = "updateOrders"]
    /\ UNCHANGED <<db, txn, todo, writes, ended>>

\* deleteNewOrder deletes one row or, if another delivery was first, none.
DeleteNewOrder(i) ==
    LET row == NewRow(txn[i].d, txn[i].o) IN
    /\ pc[i] = "deleteNewOrder"
    /\ ~ Locked(i, row)
    /\ deletes' = [deletes EXCEPT ![i] = @ \cup ({row} \cap DOMAIN db)]
    /\ pc' = [pc EXCEPT ![i] = "updateOrders"]
    /\ UNCHANGED <<db, txn, todo, writes, ended>>

\* updateOrders and updateOrderLine: the carrier and the delivery date.
UpdateOrders(i) ==
    LET row == OrderRow(txn[i].d, txn[i].o) IN
    /\ pc[i] = "updateOrders"
    /\ Writes(i, row, [db[row] EXCEPT !.delivered = TRUE], "creditCustomer")
    /\ UNCHANGED <<txn, todo>>

\* updateCustomer: C_BALANCE = C_BALANCE + ol_total.
CreditCustomer(i) ==
    LET row == CustomerRow(txn[i].d, txn[i].c) IN
    /\ pc[i] = "creditCustomer"
    /\ Writes(i, row, [Value(i, row) EXCEPT !.balance = @ + 1], "getNewOrder")
    /\ UNCHANGED <<txn, todo>>

CommitDelivery(i) ==
    /\ pc[i] = "getNewOrder"
    /\ todo[i] = <<>>
    /\ Commits(i, writes[i])

----------------------------------------------------------------------------
(***************************************************************************)
(* Waiting, and the server's deadlock detection.                           *)
(***************************************************************************)

\* The row that client i's next statement wants to write, if any.
Wanted(i) ==
    CASE pc[i] \in {"incrementNextOrderId", "updateDistrictBalance"} -> {DistrictRow(txn[i].d)}
      [] pc[i] \in {"createOrder", "updateOrders"} -> {OrderRow(txn[i].d, txn[i].o)}
      [] pc[i] = "updateStock" /\ todo[i] # <<>> -> {StockRow(Head(todo[i]))}
      [] pc[i] = "updateWarehouseBalance" -> {WarehouseRow}
      [] pc[i] \in {"updateCustomer", "creditCustomer"} -> {CustomerRow(txn[i].d, txn[i].c)}
      [] pc[i] = "deleteNewOrder" -> {NewRow(txn[i].d, txn[i].o)}
      [] OTHER -> {}

Waiting(i) == \E row \in Wanted(i) : Locked(i, row)

WaitsFor(i, j) == j # i /\ Wanted(i) \cap Touched(j) # {}

\* Client i is on a cycle of clients that wait for one another.
Deadlocked(i) ==
    \E S \in SUBSET Clients :
        /\ i \in S
        /\ \A j \in S : (\E k \in S : WaitsFor(j, k)) /\ (\E k \in S : WaitsFor(k, j))

\* Mutant: no deadlock detection.
NoDetection(i) == FALSE /\ Raises(i)

\* The server cancels the statement of one of them.
DeadlockDetected(i) ==
    /\ Deadlocked(i)
    /\ Raises(i)

NewOrderStep(i) ==
    \/ BeginNewOrder(i)
    \/ IncrementNextOrderId(i)
    \/ CreateOrder(i)
    \/ UpdateStock(i)
    \/ CommitNewOrder(i)

PaymentStep(i) ==
    \/ BeginPayment(i)
    \/ UpdateWarehouseBalance(i)
    \/ UpdateDistrictBalance(i)
    \/ UpdatePayingCustomer(i)
    \/ CommitPayment(i)

DeliveryStep(i) ==
    \/ BeginDelivery(i)
    \/ GetNewOrder(i)
    \/ DeleteNewOrder(i)
    \/ UpdateOrders(i)
    \/ CreditCustomer(i)
    \/ CommitDelivery(i)

Step(i) == NewOrderStep(i) \/ PaymentStep(i) \/ DeliveryStep(i) \/ DeadlockDetected(i)

Next == \E i \in Clients : Step(i)

Spec == Init /\ [][Next]_vars

\* Every client is a process of its own, the server answers a statement that
\* does not wait, and deadlock_timeout passes.
FairSpec == Spec /\ \A i \in Clients : WF_vars(Step(i))

----------------------------------------------------------------------------
(***************************************************************************)
(* Properties.                                                             *)
(***************************************************************************)
TypeOK ==
    /\ \A d \in DIds : db[DistrictRow(d)].next \in Nat /\ db[DistrictRow(d)].ytd \in Nat
    /\ \A d \in DIds, c \in CIds :
          db[CustomerRow(d, c)].balance \in Int /\ db[CustomerRow(d, c)].paid \in Nat
    /\ txn \in [Clients -> [d : DIds \cup {0}, c : CIds \cup {0}, o : Nat,
                            balance : Int, paid : Nat]]
    /\ todo \in [Clients -> Seq(Items \cup DIds)]
    /\ \A i, j \in Clients : i # j => Touched(i) \cap Touched(j) = {}
    /\ \A i \in Clients : pc[i] \in {"idle", "aborted"} => Touched(i) = {}
    /\ ended \in [Clients -> 0 .. MaxTransactions]

Numbering == INSTANCE OrderNumbering WITH
    Districts   <- DIds,
    next        <- [d \in DIds |-> db[DistrictRow(d)].next],
    orders      <- [d \in DIds |-> Numbered(db, "orders", d)],
    undelivered <- [d \in DIds |-> Numbered(db, "new_order", d)]

\* Two clients may read the same D_NEXT_O_ID, and the UPDATE sets it to what
\* one of them computed; still the committed orders of a district are numbered
\* without gap or duplicate, D_NEXT_O_ID never falls behind, and no delivery
\* brings back or skips an order.
NumbersOrders == Numbering!Spec

\* verify.js, consistency checks 1, 8 and 9: what the warehouse and its districts
\* have taken in is what HISTORY says, whichever payments were rolled back; and
\* check 5: deliveries that wait for one another, or are cancelled, leave no order
\* with a carrier among the new ones, or without one among the others.  Balances
\* are set from unlocked reads, and checks 10 and 12 do not hold.
Consistent == TypeOK /\ Check1(db) /\ Check5(db) /\ Check9(db)

\* Payments and deliveries take their locks in the same order, so the server
\* only ever has to cancel a doNewOrder, at a stock row.
OnlyStockDeadlocks == \A i \in Clients : Deadlocked(i) => pc[i] = "updateStock"

\* No client waits for a lock for ever, even if others have been cancelled.
WaitingEnds == \A i \in Clients : Waiting(i) ~> ~ Waiting(i)
============================================================================
