--------------------------- MODULE MongodbClients ---------------------------
(***************************************************************************)
(* Several clients of drivers/mongodbdriver.py at once, with the defaults  *)
(* of loadConfig: multi-document transactions, a find before each update,  *)
(* one transaction for all the districts of a delivery.                    *)
(*                                                                         *)
(* A transaction reads from the snapshot of its start.  A write to a       *)
(* document that another open transaction has written, or that has changed *)
(* since the snapshot, is a write conflict: it does not wait, the server   *)
(* aborts the transaction, and run_transaction_with_retries runs the same  *)
(* callback again.  It does so too when the connection fails, even at the  *)
(* commit, whose outcome is then unknown.                                  *)
(*                                                                         *)
(* What a callback writes follows from its parameters and its snapshot, so *)
(* a transaction starts with the list of its writes and does them in turn. *)
(* One warehouse; the price of item n is n, and a payment is of one unit.  *)
(* Lines are kept with their order: nothing else writes to them but the    *)
(* delivery of the order, which writes the order before.                   *)
(***************************************************************************)
EXTENDS TpccRows

CONSTANTS
    NumClients,        \* --clients
    Types,             \* the transactions they execute
    MaxLines,          \* MAX_OL_CNT: the most lines of an order
    MaxQuantity,       \* MAX_OL_QUANTITY
    MaxTransactions,   \* bound: transactions of a client in --duration
    MaxFailures        \* bound: failures of a client's connection

ASSUME ClientsAssumption  == NumClients \in Nat \ {0}
ASSUME TypesAssumption    == Types \subseteq {"NEW_ORDER", "PAYMENT", "DELIVERY"}
ASSUME LinesAssumption    == MaxLines \in Nat \ {0}
ASSUME QuantityAssumption == MaxQuantity \in Nat \ {0}
ASSUME BoundsAssumption   == MaxTransactions \in Nat /\ MaxFailures \in Nat

Clients == 1 .. NumClients

Price(item) == item

VARIABLES
    db,        \* the committed documents
    pc,        \* "idle"; "waiting" to run the callback; "running" it
    request,   \* request[i]: the parameters of client i's transaction
    todo,      \* todo[i]: the writes it has still to do, <<row, value>> each
    done,      \* done[i]: the documents it has written, their values
    stale,     \* stale[i]: documents others have changed since its snapshot
    ended,     \* ended[i]: transactions that have returned to the executor
    failures   \* failures[i]: times its connection has failed

vars == <<db, pc, request, todo, done, stale, ended, failures>>

\* The value of a document that is deleted.
Gone == [gone |-> TRUE]

NoRequest == [type |-> "NONE"]

Init ==
    /\ db = Loaded
    /\ pc = [i \in Clients |-> "idle"]
    /\ request = [i \in Clients |-> NoRequest]
    /\ todo = [i \in Clients |-> <<>>]
    /\ done = [i \in Clients |-> NoRows]
    /\ stale = [i \in Clients |-> {}]
    /\ ended = [i \in Clients |-> 0]
    /\ failures = [i \in Clients |-> 0]

----------------------------------------------------------------------------
(***************************************************************************)
(* The callbacks: what they write to the database they find.               *)
(***************************************************************************)

\* The order is found to have an item that does not exist, once the district
\* has been written.
Invalid(r) == r.type = "NEW_ORDER" /\ ~ r.valid

\* Mutant: the items in the order of the request.
AsRequested(items) == items

Sorted(S) == CHOOSE s \in SetToSeqs(S) : \A j, k \in DOMAIN s : j < k => s[j] < s[k]

\* What find({"I_ID": {"$in": i_ids}}) and the find on STOCK return: by I_ID,
\* whatever the order of i_ids.
Found(items) == Sorted(ToSet(items))

\* Line k is for item k of the request, at the price of the k-th one found.
Line(r, k) ==
    [item |-> r.items[k], quantity |-> r.quantities[k],
     amount |-> r.quantities[k] * Price(Found(r.items)[k])]

\* updateStock, likewise: the k-th quantity is taken from the k-th stock found.
StockWrite(rows, r, k) ==
    LET row == StockRow(Found(r.items)[k]) IN
    <<row, [ytd |-> rows[row].ytd + r.quantities[k], count |-> rows[row].count + 1]>>

\* What is inserted in ORDERS, with the lines in it.
NewOrder(r) ==
    LET lines == [k \in DOMAIN r.items |-> Line(r, k)] IN
    [c |-> r.c, delivered |-> FALSE, lines |-> lines,
     amount |-> SumFunction([k \in DOMAIN lines |-> lines[k].amount])]

\* _doNewOrderTxn: D_NEXT_O_ID, NEW_ORDER, the lines, STOCK and ORDERS.
NewOrderWrites(rows, r) ==
    LET district == rows[DistrictRow(r.d)]
        o        == district.next
        first    == <<DistrictRow(r.d), [district EXCEPT !.next = o + 1]>>
    IN
    IF Invalid(r)
      THEN <<first>>
      ELSE <<first, <<NewRow(r.d, o), [new |-> TRUE]>>>>
               \o [k \in 1 .. Len(r.items) |-> StockWrite(rows, r, k)]
               \o <<<<OrderRow(r.d, o), NewOrder(r)>>>>

\* _doPaymentTxn, with $inc throughout.  The customer is one of the district
\* paid through, and HISTORY does not say who paid.
PaymentWrites(rows, i, r) ==
    LET district == rows[DistrictRow(r.d)]
        customer == rows[CustomerRow(r.d, r.c)]
    IN
    <<<<DistrictRow(r.d), [district EXCEPT !.ytd = @ + 1]>>,
      <<WarehouseRow, [rows[WarehouseRow] EXCEPT !.ytd = @ + 1]>>,
      <<CustomerRow(r.d, r.c), [balance |-> customer.balance - 1, paid |-> customer.paid + 1]>>,
      <<HistoryRow(i, ended[i] + failures[i]), [d |-> r.d]>>>>

\* getNewOrder: sorted by NO_O_ID, limit 1.
Oldest(rows, d) == Min(Numbered(rows, "new_order", d))

\* _doDeliveryTxn: the carrier, the customer's credit, and the row of NEW_ORDER.
DistrictDelivery(rows, d) ==
    LET o     == Oldest(rows, d)
        order == rows[OrderRow(d, o)]
        payer == CustomerRow(d, order.c)
    IN <<<<OrderRow(d, o), [order EXCEPT !.delivered = TRUE]>>,
         <<payer, [rows[payer] EXCEPT !.balance = @ + order.amount]>>,
         <<NewRow(d, o), Gone>>>>

\* _doDelivery10Txn: a district without new orders is skipped, and each of the
\* others has three writes.
DeliveryWrites(rows) ==
    LET ds == Sorted({d \in DIds : Numbered(rows, "new_order", d) # {}}) IN
    [k \in 1 .. 3 * Len(ds) |-> DistrictDelivery(rows, ds[(k + 2) \div 3])[((k - 1) % 3) + 1]]

WritesOf(rows, i) ==
    CASE request[i].type = "NEW_ORDER" -> NewOrderWrites(rows, request[i])
      [] request[i].type = "PAYMENT"   -> PaymentWrites(rows, i, request[i])
      [] request[i].type = "DELIVERY"  -> DeliveryWrites(rows)

----------------------------------------------------------------------------
(***************************************************************************)
(* run_transaction_with_retries.                                           *)
(***************************************************************************)

\* The items of an order are different.  Of an order that has one which does not
\* exist nothing but the district is written, and its items are left out.
Orders ==
    UNION {[type : {"NEW_ORDER"}, d : DIds, c : CIds, items : {items},
            quantities : [DOMAIN items -> 1 .. MaxQuantity], valid : {items # <<>>}] :
               items \in {s \in SetToAllKPermutations(Items) : Len(s) <= MaxLines}}

Requests == Orders \cup [type : {"PAYMENT"}, d : DIds, c : CIds] \cup [type : {"DELIVERY"}]

\* The executor calls doNewOrder, doPayment or doDelivery.
Call(i) ==
    /\ pc[i] = "idle"
    /\ ended[i] < MaxTransactions
    /\ \E r \in Requests :
          /\ r.type \in Types
          /\ request' = [request EXCEPT ![i] = r]
    /\ pc' = [pc EXCEPT ![i] = "waiting"]
    /\ UNCHANGED <<db, todo, done, stale, ended, failures>>

\* session.start_transaction(): the callback is run on a new snapshot.
Start(i) ==
    /\ pc[i] = "waiting"
    /\ todo' = [todo EXCEPT ![i] = WritesOf(db, i)]
    /\ stale' = [stale EXCEPT ![i] = {}]
    /\ pc' = [pc EXCEPT ![i] = "running"]
    /\ UNCHANGED <<db, request, done, ended, failures>>

\* Mutant: a change since the snapshot is no conflict.
OnlyOpenConflicts(i, row) == \E j \in Clients \ {i} : row \in DOMAIN done[j]

Conflicting(i, row) ==
    row \in stale[i] \/ \E j \in Clients \ {i} : row \in DOMAIN done[j]

Write(i) ==
    /\ pc[i] = "running"
    /\ todo[i] # <<>>
    /\ ~ Conflicting(i, Head(todo[i])[1])
    /\ done' = [done EXCEPT ![i] = Put(Head(todo[i])[1], Head(todo[i])[2], @)]
    /\ todo' = [todo EXCEPT ![i] = Tail(@)]
    /\ UNCHANGED <<db, pc, request, stale, ended, failures>>

\* The transaction of client i is over, and what it has written is
\* discarded or has been stored.
Closes(i, then) ==
    /\ pc' = [pc EXCEPT ![i] = then]
    /\ request' = [request EXCEPT ![i] = IF then = "idle" THEN NoRequest ELSE @]
    /\ todo' = [todo EXCEPT ![i] = <<>>]
    /\ done' = [done EXCEPT ![i] = NoRows]

\* Its writes are stored, behind the snapshots of the others.
Stores(i) ==
    LET rows == Overlay(done[i], db) IN
    /\ db' = Restrict(rows, {row \in DOMAIN rows : rows[row] # Gone})
    /\ stale' = [j \in Clients |->
                    IF pc[j] = "running" /\ j # i THEN stale[j] \cup DOMAIN done[i] ELSE {}]

\* Stale documents of a transaction are forgotten with it.
Discards(i) ==
    /\ stale' = [stale EXCEPT ![i] = {}]
    /\ UNCHANGED db

\* TransientTransactionError: (False, None), and another round of the loop.
Conflict(i) ==
    /\ pc[i] = "running"
    /\ todo[i] # <<>>
    /\ Conflicting(i, Head(todo[i])[1])
    /\ Closes(i, "waiting")
    /\ Discards(i)
    /\ UNCHANGED <<ended, failures>>

\* The callback returns, and the with statement commits.
Commit(i) ==
    /\ pc[i] = "running"
    /\ todo[i] = <<>>
    /\ ~ Invalid(request[i])
    /\ Closes(i, "idle")
    /\ Stores(i)
    /\ ended' = [ended EXCEPT ![i] = @ + 1]
    /\ UNCHANGED failures

\* Mutant: None is returned without abort_transaction.
AbandonCommits(i) ==
    /\ pc[i] = "running"
    /\ todo[i] = <<>>
    /\ Invalid(request[i])
    /\ Closes(i, "idle")
    /\ Stores(i)
    /\ ended' = [ended EXCEPT ![i] = @ + 1]
    /\ UNCHANGED failures

\* An unknown item: abort_transaction, after which the with statement has
\* nothing to commit, and None for the executor.
Abandon(i) ==
    /\ pc[i] = "running"
    /\ todo[i] = <<>>
    /\ Invalid(request[i])
    /\ Closes(i, "idle")
    /\ Discards(i)
    /\ ended' = [ended EXCEPT ![i] = @ + 1]
    /\ UNCHANGED failures

\* Mutant: the writes that have been done stay.
ConnectionFailsMidway(i) ==
    /\ pc[i] = "running"
    /\ failures[i] < MaxFailures
    /\ Closes(i, "waiting")
    /\ Stores(i)
    /\ failures' = [failures EXCEPT ![i] = @ + 1]
    /\ UNCHANGED ended

\* ConnectionFailure: (False, None), and another round.
ConnectionFails(i) ==
    /\ pc[i] = "running"
    /\ failures[i] < MaxFailures
    /\ Closes(i, "waiting")
    /\ Discards(i)
    /\ failures' = [failures EXCEPT ![i] = @ + 1]
    /\ UNCHANGED ended

\* The same when the commit has gone through and its answer is lost.
AnswerLost(i) ==
    /\ pc[i] = "running"
    /\ todo[i] = <<>>
    /\ ~ Invalid(request[i])
    /\ failures[i] < MaxFailures
    /\ Closes(i, "waiting")
    /\ Stores(i)
    /\ failures' = [failures EXCEPT ![i] = @ + 1]
    /\ UNCHANGED ended

Step(i) == Start(i) \/ Write(i) \/ Conflict(i) \/ Commit(i) \/ Abandon(i)

Next == \E i \in Clients : Call(i) \/ Step(i) \/ ConnectionFails(i) \/ AnswerLost(i)

Spec == Init /\ [][Next]_vars

\* Every client is a process of its own, whose back-off ends and whose statements
\* are answered.  Nothing makes a connection fail.
FairSpec == Spec /\ \A i \in Clients : WF_vars(Step(i))

----------------------------------------------------------------------------
(***************************************************************************)
(* Properties.                                                             *)
(***************************************************************************)
TypeOK ==
    /\ pc \in [Clients -> {"idle", "waiting", "running"}]
    /\ \A i \in Clients :
          /\ request[i] \in Requests \cup {NoRequest}
          /\ pc[i] = "idle" <=> request[i] = NoRequest
          /\ pc[i] # "running" => todo[i] = <<>> /\ done[i] = NoRows /\ stale[i] = {}
          /\ DOMAIN done[i] \cap stale[i] = {}
    /\ \A i, j \in Clients : i # j => DOMAIN done[i] \cap DOMAIN done[j] = {}
    /\ ended \in [Clients -> 0 .. MaxTransactions]
    /\ failures \in [Clients -> 0 .. MaxFailures]

Numbering == INSTANCE OrderNumbering WITH
    Districts   <- DIds,
    next        <- [d \in DIds |-> db[DistrictRow(d)].next],
    orders      <- [d \in DIds |-> Numbered(db, "orders", d)],
    undelivered <- [d \in DIds |-> Numbered(db, "new_order", d)]

\* The district is read before it is written, an order with an unknown item
\* takes its number back, and a transaction may run more than once: orders are
\* numbered without gap or duplicate all the same.
NumbersOrders == Numbering!Spec

\* verify.js, consistency checks 1, 8 and 9: a payment that is repeated after
\* a lost answer is counted twice, but everywhere; 3 and 5: deliveries that compete
\* for the oldest order of a district, or run twice, leave no hole among the new
\* ones; 12: payments and deliveries of one customer at once lose nothing.
Consistent ==
    TypeOK /\ Check1(db) /\ Check3(db) /\ Check5(db) /\ Check9(db) /\ Check12(db)

\* The lines of the orders placed in district d.
PlacedLines(d) ==
    UNION {{<<d, o, k>> : k \in DOMAIN db[OrderRow(d, o)].lines} :
              o \in Numbered(db, "orders", d) \ CIds}

AllLines == UNION {PlacedLines(d) : d \in DIds}

LineAt(x) == db[OrderRow(x[1], x[2])].lines[x[3]]

\* S_ORDER_CNT is set to an absolute value computed from what was read; it still
\* is the number of lines of the item, whichever districts the orders are from.
StockCountsLines ==
    \A n \in Items :
        db[StockRow(n)].count = Cardinality({x \in AllLines : LineAt(x).item = n})

\* A comment of doNewOrder: "Transaction profile states to use "ol_quantity *
\* i_price"", that is, the price of the item of the line.
LinesArePriced ==
    \A x \in AllLines : LineAt(x).amount = LineAt(x).quantity * Price(LineAt(x).item)

\* Clients that abort one another do not do so for ever: every transaction the
\* executor calls returns.
CallsReturn == \A i \in Clients : pc[i] # "idle" ~> pc[i] = "idle"
============================================================================
