--------------------------- MODULE SqliteClients ---------------------------
(***************************************************************************)
(* drivers/sqlitedriver.py on one database file, in SQLite's rollback      *)
(* journal mode.  Python's sqlite3 begins a (deferred) transaction at the  *)
(* first statement that writes, so that what a call has read before is     *)
(* read outside of it.  The first write takes the RESERVED lock, which one *)
(* connection has at a time, and a commit waits for the readers to be      *)
(* gone; after five seconds either raises "database is locked".  Nothing   *)
(* in the driver or the executor rolls back: what a call that has raised   *)
(* leaves open, the client's next commit stores.                           *)
(*                                                                         *)
(* open: "no"; "begun" without a lock, by a first write that has raised;   *)
(* "shared", which such a transaction has once it reads; "reserved".       *)
(* A writer that waits for readers keeps new ones out; that they may come  *)
(* in here only adds behaviours.                                           *)
(***************************************************************************)
EXTENDS DriverClients

Reserved(i) == \E j \in Clients \ {i} : open[j] = "reserved"

Shared(i) == \E j \in Clients \ {i} : open[j] = "shared"

\* A call's first statements read; in a transaction left open that takes a lock.
OpenAfterReads(i) == IF open[i] = "begun" THEN "shared" ELSE open[i]

----------------------------------------------------------------------------
(***************************************************************************)
(* What the calls read before their first write, and write.                *)
(***************************************************************************)

\* getNewOrder: LIMIT 1, along the primary key.
Oldest(rows, d) == Min(Numbered(rows, "new_order", d))

WithNew(rows) == {d \in DIds : Numbered(rows, "new_order", d) # {}}

\* The row of NEW_ORDER that doDelivery reads for the first district that has one.
FirstNew(rows) ==
    {NewRow(d, Oldest(rows, d)) : d \in {e \in WithNew(rows) : e = Min(WithNew(rows))}}

Reads(r, rows) ==
    CASE r.type = "NEW_ORDER" -> {DistrictRow(r.d)}
      [] r.type = "PAYMENT"   -> {CustomerRow(r.d, r.c)}
      [] r.type = "DELIVERY"  -> FirstNew(rows)

Duplicate(r, read, rows) ==
    r.type = "NEW_ORDER" /\ OrderRow(r.d, read[DistrictRow(r.d)].next) \in DOMAIN rows

\* Mutant: D_NEXT_O_ID as it is now, plus one.
RelativeNext(r, read, rows) == [rows[DistrictRow(r.d)] EXCEPT !.next = @ + 1]

\* incrementNextOrderId: what was read, plus one.
NextOrderId(r, read, rows) ==
    [rows[DistrictRow(r.d)] EXCEPT !.next = read[DistrictRow(r.d)].next + 1]

\* getStockInfo and updateStock, which the transaction has begun for.
Stock(r, rows) ==
    [row \in {StockRow(n) : n \in ToSet(r.items)} |->
        [ytd |-> rows[row].ytd + 1, count |-> rows[row].count + 1]]

\* createOrder, createNewOrder and the lines, under the number read.
NewOrder(r, read, rows) ==
    LET o == read[DistrictRow(r.d)].next IN
    Put(DistrictRow(r.d), NextOrderId(r, read, rows),
        Put(NewRow(r.d, o), [new |-> TRUE],
            Put(OrderRow(r.d, o), PlacedOrder(r), Stock(r, rows))))

\* The customer's balance is set from what was read; the payment goes to HISTORY.
PaidBy(i, r, read) ==
    LET customer == read[CustomerRow(r.d, r.c)] IN
    Put(CustomerRow(r.d, r.c), [balance |-> customer.balance - 1, paid |-> customer.paid + 1],
        Put(HistoryRow(i, ended[i]), [d |-> r.d, c |-> r.c], NoRows))

\* Mutant: W_YTD is not updated.
SkipsWarehouse(i, r, read, rows) ==
    Put(DistrictRow(r.d), [rows[DistrictRow(r.d)] EXCEPT !.ytd = @ + 1], PaidBy(i, r, read))

\* W_YTD and D_YTD are increased.
Payment(i, r, read, rows) ==
    Put(WarehouseRow, [rows[WarehouseRow] EXCEPT !.ytd = @ + 1],
        Put(DistrictRow(r.d), [rows[DistrictRow(r.d)] EXCEPT !.ytd = @ + 1], PaidBy(i, r, read)))

\* The row of NEW_ORDER that doDelivery reads for each district: that of the first
\* one has been read, the others' are read now.
Taken(read, rows) ==
    LET later == {d \in WithNew(rows) : \A row \in DOMAIN read : d > row[2]}
    IN DOMAIN read \cup {NewRow(d, Oldest(rows, d)) : d \in later}

OrderOf(row) == OrderRow(row[2], row[3])

Payer(row, rows) == CustomerRow(row[2], rows[OrderOf(row)].c)

\* deleteNewOrder, which may find nothing any more, updateOrders, updateCustomer.
Delivery(taken, rows) ==
    Overlay([row \in taken |-> Gone],
            Overlay([order \in {OrderOf(row) : row \in taken} |->
                        [rows[order] EXCEPT !.delivered = TRUE]],
                    [payer \in {Payer(row, rows) : row \in taken} |->
                        LET row == CHOOSE n \in taken : Payer(n, rows) = payer
                        IN [rows[payer] EXCEPT !.balance = @ + rows[OrderOf(row)].amount]]))

Changes(i, rows) ==
    CASE request[i].type = "NEW_ORDER" -> NewOrder(request[i], seen[i], rows)
      [] request[i].type = "PAYMENT"   -> Payment(i, request[i], seen[i], rows)
      [] request[i].type = "DELIVERY"  -> Delivery(Taken(seen[i], rows), rows)

----------------------------------------------------------------------------
(***************************************************************************)
(* The calls.                                                              *)
(***************************************************************************)

\* A commit of what has been written waits for the readers.
Blocked(i) == open[i] = "reserved" /\ Shared(i)

\* conn.commit(): what is open is stored.
Commits(i) ==
    /\ ~ Blocked(i)
    /\ db' = Visible(i)
    /\ Closes(i)

\* Up to the first statement that writes.
Read(i) ==
    /\ \E r \in Requests :
          /\ Called(i, r, "write")
          /\ r.type # "READ" /\ ~ UnknownItem(r)
          /\ r.type = "DELIVERY" => WithNew(Visible(i)) # {}
          /\ seen' = [seen EXCEPT ![i] = Restrict(Visible(i), Reads(r, Visible(i)))]
    /\ open' = [open EXCEPT ![i] = OpenAfterReads(i)]
    /\ UNCHANGED <<db, todo, written, ended>>

\* doOrderStatus, doStockLevel, and doDelivery when nothing is new: they only
\* read, and commit.
CallsReadOnly(i) ==
    /\ pc[i] = "idle"
    /\ ended[i] < MaxTransactions
    /\ "READ" \in Types \/ ("DELIVERY" \in Types /\ WithNew(Visible(i)) = {})
    /\ Returns(i)

ReadOnly(i) == CallsReadOnly(i) /\ Commits(i)

ReadOnlyLocked(i) == CallsReadOnly(i) /\ Blocked(i) /\ UNCHANGED <<db, written, open>>

\* An item that does not exist: (None, 0), without a commit.
GiveUp(i) ==
    /\ pc[i] = "idle"
    /\ ended[i] < MaxTransactions
    /\ "NEW_ORDER" \in Types
    /\ open' = [open EXCEPT ![i] = OpenAfterReads(i)]
    /\ Returns(i)
    /\ UNCHANGED <<db, written>>

\* Mutant: two connections write at once.
WriteAnyhow(i) ==
    /\ pc[i] = "write"
    /\ ~ Duplicate(request[i], seen[i], Visible(i))
    /\ written' = [written EXCEPT ![i] = Overlay(Changes(i, Visible(i)), @)]
    /\ open' = [open EXCEPT ![i] = "reserved"]
    /\ pc' = [pc EXCEPT ![i] = "commit"]
    /\ UNCHANGED <<db, request, todo, seen, ended>>

\* The statements that write, under the RESERVED lock.
Write(i) ==
    /\ pc[i] = "write"
    /\ ~ Reserved(i)
    /\ ~ Duplicate(request[i], seen[i], Visible(i))
    /\ written' = [written EXCEPT ![i] = Overlay(Changes(i, Visible(i)), @)]
    /\ open' = [open EXCEPT ![i] = "reserved"]
    /\ pc' = [pc EXCEPT ![i] = "commit"]
    /\ UNCHANGED <<db, request, todo, seen, ended>>

\* createOrder raises IntegrityError: an order has the number already.  The
\* increment before it stays in the transaction, which stays open.
WriteRaises(i) ==
    /\ pc[i] = "write"
    /\ ~ Reserved(i)
    /\ Duplicate(request[i], seen[i], Visible(i))
    /\ written' = [written EXCEPT ![i] =
                      Put(DistrictRow(request[i].d),
                          NextOrderId(request[i], seen[i], Visible(i)), @)]
    /\ open' = [open EXCEPT ![i] = "reserved"]
    /\ Returns(i)
    /\ UNCHANGED db

\* "database is locked", at the first statement that writes.
WriteLocked(i) ==
    /\ pc[i] = "write"
    /\ Reserved(i)
    /\ open' = [open EXCEPT ![i] = IF @ = "no" THEN "begun" ELSE @]
    /\ Returns(i)
    /\ UNCHANGED <<db, written>>

Commit(i) ==
    /\ pc[i] = "commit"
    /\ Commits(i)
    /\ Returns(i)

\* "database is locked", at the commit: all it has written stays in the open
\* transaction.
CommitLocked(i) ==
    /\ pc[i] = "commit"
    /\ Blocked(i)
    /\ Returns(i)
    /\ UNCHANGED <<db, written, open>>

Init == InitOn(Loaded)

Next == \E i \in Clients :
    \/ Read(i) \/ ReadOnly(i) \/ ReadOnlyLocked(i) \/ GiveUp(i)
    \/ Write(i) \/ WriteRaises(i) \/ WriteLocked(i)
    \/ Commit(i) \/ CommitLocked(i)
============================================================================
