---------------------------- MODULE Neo4jClients ----------------------------
(***************************************************************************)
(* drivers/neo4jdriver.py: a call is one explicit transaction of several   *)
(* queries.  A query sees what is committed and what its transaction has   *)
(* written; nodes that are set, or that a relationship is created on, stay *)
(* locked for other writers until the transaction ends, and a query waits  *)
(* for them.  When two wait for each other one raises, and the with        *)
(* statement rolls its transaction back: the call is counted as an abort.  *)
(*                                                                         *)
(* O_ID is no key: an order is found by its number, and there may be more  *)
(* than one of a number.  O_NEW_ORDER is a property of the order.          *)
(* Payments make no HISTORY (see doPayment).  The lines of an order are    *)
(* its amount; their delivery dates are left out.                          *)
(***************************************************************************)
EXTENDS DriverClients

Locked(i, row) == \E j \in Clients \ {i} : row \in DOMAIN written[j]

\* The orders of number o in district d that client i sees.
Matching(i, d, o) == {row \in OrdersOf(Visible(i), d) : row[3] = o}

\* The new order with the lowest number in district d.
Oldest(i, d) == Min({row[3] : row \in Flagged(Visible(i), d)})

\* The number doNewOrder has read, or doDelivery.
NumberRead(i) == seen[i][DistrictRow(request[i].d)].next

DeliveryRead(i) == seen[i]["order"]

Payers(i, orders) == {CustomerRow(row[2], Visible(i)[row].c) : row \in orders}

\* The nodes the next query of client i writes.
Wants(i) ==
    CASE pc[i] = "placeOrder" ->
            {DistrictRow(request[i].d), CustomerRow(request[i].d, request[i].c)}
      [] pc[i] = "updateStock" -> {StockRow(Head(todo[i]))}
      [] pc[i] = "createLine" -> Matching(i, request[i].d, NumberRead(i))
      [] pc[i] = "updateOrder" ->
            LET orders == Matching(i, Head(todo[i]), DeliveryRead(i).o)
            IN orders \cup Payers(i, orders)
      [] pc[i] = "updateWarehouse" -> {WarehouseRow}
      [] pc[i] = "updateDistrict" -> {DistrictRow(request[i].d)}
      [] pc[i] = "updateCustomer" -> {CustomerRow(request[i].d, request[i].c)}
      [] OTHER -> {}

Waits(i) == \E row \in Wants(i) : Locked(i, row)

WaitsFor(i, j) == Wants(i) \cap DOMAIN written[j] # {}

\* A query of client i that writes, after which it goes on.
Writes(i, changes, then) ==
    /\ ~ Waits(i)
    /\ written' = [written EXCEPT ![i] = Overlay(changes, @)]
    /\ pc' = [pc EXCEPT ![i] = then]
    /\ UNCHANGED <<db, request, open, ended>>

\* A query that reads a row.
Reads(i, row, value, then) ==
    /\ seen' = [seen EXCEPT ![i] = Put(row, value, @)]
    /\ pc' = [pc EXCEPT ![i] = then]
    /\ UNCHANGED <<db, request, todo, written, open, ended>>

----------------------------------------------------------------------------
(***************************************************************************)
(* doNewOrder.                                                             *)
(***************************************************************************)

\* The items, which exist, and D_NEXT_O_ID.
BeginNewOrder(i) ==
    /\ \E r \in Orders :
          /\ ~ UnknownItem(r)
          /\ Called(i, r, "placeOrder")
          /\ todo' = [todo EXCEPT ![i] = r.items]
          /\ seen' = [seen EXCEPT ![i] = Restrict(db, {DistrictRow(r.d)})]
    /\ open' = [open EXCEPT ![i] = "yes"]
    /\ UNCHANGED <<db, written, ended>>

\* An item that does not exist: (None, 0), and nothing written.
GiveUp(i) ==
    /\ pc[i] = "idle"
    /\ ended[i] < MaxTransactions
    /\ "NEW_ORDER" \in Types
    /\ Returns(i)
    /\ UNCHANGED <<db, written, open>>

\* D_NEXT_O_ID is increased, whatever it is now; the order has the number read.
PlaceOrder(i) ==
    LET r        == request[i]
        district == DistrictRow(r.d)
        customer == CustomerRow(r.d, r.c)
    IN
    /\ pc[i] = "placeOrder"
    /\ Writes(i, Put(district, [Visible(i)[district] EXCEPT !.next = @ + 1],
                      Put(customer, Visible(i)[customer],
                          Put(OrderNode(i, r.d, NumberRead(i)),
                              [PlacedOrder(r) EXCEPT !.amount = 0], NoRows))),
              "getStock")
    /\ UNCHANGED <<todo, seen>>

GetStock(i) ==
    /\ pc[i] = "getStock"
    /\ todo[i] # <<>>
    /\ Reads(i, StockRow(Head(todo[i])), Visible(i)[StockRow(Head(todo[i]))], "updateStock")

\* The stock is set from what was read.
UpdateStock(i) ==
    LET row == StockRow(Head(todo[i])) IN
    /\ pc[i] = "updateStock"
    /\ Writes(i, Put(row, [ytd |-> seen[i][row].ytd + 1, count |-> seen[i][row].count + 1],
                      NoRows),
              "createLine")
    /\ UNCHANGED <<todo, seen>>

\* The query creates a line for each order of the number.
CreateLine(i) ==
    LET orders == Matching(i, request[i].d, NumberRead(i)) IN
    /\ pc[i] = "createLine"
    /\ Writes(i, [row \in orders |-> [Visible(i)[row] EXCEPT !.amount = @ + 1]], "getStock")
    /\ todo' = [todo EXCEPT ![i] = Tail(@)]
    /\ UNCHANGED seen

----------------------------------------------------------------------------
(***************************************************************************)
(* doPayment.  The query that is to create HISTORY asks for a district     *)
(* that the warehouse belongs to.  There is none, so it matches and        *)
(* creates nothing.                                                        *)
(***************************************************************************)
BeginPayment(i) ==
    /\ \E r \in [type : {"PAYMENT"}, d : DIds, c : CIds] :
          /\ Called(i, r, "updateWarehouse")
          /\ seen' = [seen EXCEPT ![i] = Restrict(db, {CustomerRow(r.d, r.c)})]
    /\ open' = [open EXCEPT ![i] = "yes"]
    /\ UNCHANGED <<db, todo, written, ended>>

UpdateWarehouse(i) ==
    /\ pc[i] = "updateWarehouse"
    /\ Writes(i, Put(WarehouseRow, [Visible(i)[WarehouseRow] EXCEPT !.ytd = @ + 1], NoRows),
              "updateDistrict")
    /\ UNCHANGED <<todo, seen>>

UpdateDistrict(i) ==
    LET row == DistrictRow(request[i].d) IN
    /\ pc[i] = "updateDistrict"
    /\ Writes(i, Put(row, [Visible(i)[row] EXCEPT !.ytd = @ + 1], NoRows), "updateCustomer")
    /\ UNCHANGED <<todo, seen>>

\* Balance and payments are set from what was read.
UpdateCustomer(i) ==
    LET row == CustomerRow(request[i].d, request[i].c) IN
    /\ pc[i] = "updateCustomer"
    /\ Writes(i, Put(row, [balance |-> seen[i][row].balance - 1, paid |-> seen[i][row].paid + 1],
                      NoRows),
              "commit")
    /\ UNCHANGED <<todo, seen>>

----------------------------------------------------------------------------
(***************************************************************************)
(* doDelivery.                                                             *)
(***************************************************************************)
BeginDelivery(i) ==
    /\ Called(i, [type |-> "DELIVERY"], "getNewOrder")
    /\ todo' = [todo EXCEPT ![i] = SetToSortSeq(DIds, LAMBDA d, e : d < e)]
    /\ open' = [open EXCEPT ![i] = "yes"]
    /\ UNCHANGED <<db, seen, written, ended>>

\* The oldest new order of the district, and the sum of the lines of the orders
\* that have its number.
GetNewOrder(i) ==
    /\ pc[i] = "getNewOrder"
    /\ todo[i] # <<>>
    /\ Flagged(Visible(i), Head(todo[i])) # {}
    /\ LET o == Oldest(i, Head(todo[i])) IN
       Reads(i, "order",
             [o |-> o, total |-> MapThenSumSet(LAMBDA row : Visible(i)[row].amount,
                                               Matching(i, Head(todo[i]), o))],
             "updateOrder")

SkipDistrict(i) ==
    /\ pc[i] = "getNewOrder"
    /\ todo[i] # <<>>
    /\ Flagged(Visible(i), Head(todo[i])) = {}
    /\ todo' = [todo EXCEPT ![i] = Tail(@)]
    /\ UNCHANGED <<db, pc, request, seen, written, open, ended>>

\* The orders of the number have a carrier and are no longer new; the total is
\* added to the balance of the customer of each of them.
UpdateOrder(i) ==
    LET d      == Head(todo[i])
        orders == Matching(i, d, DeliveryRead(i).o)
        Of(payer) == {row \in orders : CustomerRow(d, Visible(i)[row].c) = payer}
    IN
    /\ pc[i] = "updateOrder"
    /\ Writes(i, Overlay([row \in orders |-> [Visible(i)[row] EXCEPT !.delivered = TRUE]],
                          [payer \in Payers(i, orders) |->
                              [Visible(i)[payer] EXCEPT
                                  !.balance = @ + Cardinality(Of(payer)) * DeliveryRead(i).total]]),
              "getNewOrder")
    /\ todo' = [todo EXCEPT ![i] = Tail(@)]
    /\ seen' = [seen EXCEPT ![i] = NoRows]

----------------------------------------------------------------------------
\* doOrderStatus and doStockLevel.
ReadOnly(i) ==
    /\ pc[i] = "idle"
    /\ ended[i] < MaxTransactions
    /\ "READ" \in Types
    /\ Returns(i)
    /\ UNCHANGED <<db, written, open>>

Commit(i) ==
    /\ pc[i] \in {"getStock", "getNewOrder", "commit"}
    /\ pc[i] # "commit" => todo[i] = <<>>
    /\ db' = Visible(i)
    /\ Closes(i)
    /\ Returns(i)

\* A query raises, and the transaction is rolled back.
Deadlock(i) ==
    /\ \E j \in Clients \ {i} : WaitsFor(i, j) /\ WaitsFor(j, i)
    /\ Closes(i)
    /\ Returns(i)
    /\ UNCHANGED db

Init == InitOn(FlaggedRows)

Next == \E i \in Clients :
    \/ BeginNewOrder(i) \/ GiveUp(i) \/ PlaceOrder(i) \/ GetStock(i) \/ UpdateStock(i)
    \/ CreateLine(i)
    \/ BeginPayment(i) \/ UpdateWarehouse(i) \/ UpdateDistrict(i) \/ UpdateCustomer(i)
    \/ BeginDelivery(i) \/ GetNewOrder(i) \/ SkipDistrict(i) \/ UpdateOrder(i)
    \/ ReadOnly(i) \/ Commit(i) \/ Deadlock(i)
============================================================================
