-------------------------- MODULE Typedb2Clients ---------------------------
(***************************************************************************)
(* drivers/typedb2driver.py: every call is one WRITE transaction of a      *)
(* session of its own.  TypeDB gives it the snapshot of the moment it is   *)
(* opened and checks at the commit that no transaction committed since has *)
(* changed what it changes; if one has, commit raises, nothing is stored,  *)
(* and the call is counted as an abort.                                    *)
(*                                                                         *)
(* What a call writes follows from its parameters and its snapshot, so it  *)
(* is written at once.  A customer's key keeps the customer's number here, *)
(* as it does when there are fewer than CUSTOMERS_PER_DISTRICT.            *)
(***************************************************************************)
EXTENDS DriverClients

\* doNewOrder: D_NEXT_O_ID and the ORDER, which is new; STOCKING and ORDER_LINE.
NewOrder(i, r, rows) ==
    LET o == rows[DistrictRow(r.d)].next IN
    Put(DistrictRow(r.d), [rows[DistrictRow(r.d)] EXCEPT !.next = o + 1],
        Put(OrderNode(i, r.d, o), PlacedOrder(r),
            [row \in {StockRow(n) : n \in ToSet(r.items)} |->
                [ytd |-> rows[row].ytd + 1, count |-> rows[row].count + 1]]))

\* doPayment.  CUSTOMER_HISTORY has the customer, and so the district.
Payment(i, r, rows) ==
    LET district == DistrictRow(r.d)
        payer    == CustomerRow(r.d, r.c)
    IN Put(WarehouseRow, [rows[WarehouseRow] EXCEPT !.ytd = @ + 1],
           Put(district, [rows[district] EXCEPT !.ytd = @ + 1],
               Put(payer, [balance |-> rows[payer].balance - 1, paid |-> rows[payer].paid + 1],
                   Put(HistoryRow(i, ended[i]), [d |-> r.d, c |-> r.c], NoRows))))

\* Mutant: without "limit 1".
PicksAll(rows) == {UNION {Flagged(rows, d) : d \in DIds}}

\* One new order of every district that has any: "limit 1", without an order.
Picks(rows) ==
    {pick \in SUBSET UNION {Flagged(rows, d) : d \in DIds} :
        \A d \in DIds : Flagged(rows, d) # {} =>
                            \E row \in pick : pick \cap Flagged(rows, d) = {row}}

Payer(row, rows) == CustomerRow(row[2], rows[row].c)

\* The orders have a carrier and are no longer new; their customers are credited.
Delivery(pick, rows) ==
    Overlay([row \in pick |-> [rows[row] EXCEPT !.delivered = TRUE]],
            [payer \in {Payer(row, rows) : row \in pick} |->
                LET order == CHOOSE row \in pick : Payer(row, rows) = payer
                IN [rows[payer] EXCEPT !.balance = @ + rows[order].amount]])

\* What call r may write.  Read-only calls use a WRITE transaction too.
Outcomes(i, r, rows) ==
    CASE r.type = "NEW_ORDER" -> {IF UnknownItem(r) THEN NoRows ELSE NewOrder(i, r, rows)}
      [] r.type = "PAYMENT"   -> {Payment(i, r, rows)}
      [] r.type = "DELIVERY"  -> {Delivery(pick, rows) : pick \in Picks(rows)}
      [] r.type = "READ"      -> {NoRows}

\* The transaction is opened, queried and written.
Run(i) ==
    /\ \E r \in Requests :
          /\ Called(i, r, "commit")
          /\ \E changes \in Outcomes(i, r, db) :
                /\ written' = [written EXCEPT ![i] = changes]
                /\ seen' = [seen EXCEPT ![i] =
                               Restrict(db, DOMAIN changes \cap DOMAIN db)]
    /\ open' = [open EXCEPT ![i] = "yes"]
    /\ UNCHANGED <<db, todo, ended>>

\* Something it has changed is no longer what its snapshot says.
Conflict(i) == \E row \in DOMAIN seen[i] : db[row] # seen[i][row]

\* tx.commit(); for an unknown item the with statement closes the transaction.
Commit(i) ==
    /\ pc[i] = "commit"
    /\ ~ Conflict(i)
    /\ db' = Visible(i)
    /\ Closes(i)
    /\ Returns(i)

\* tx.commit() raises, and the with statement closes the transaction.
CommitRaises(i) ==
    /\ pc[i] = "commit"
    /\ Conflict(i)
    /\ Closes(i)
    /\ Returns(i)
    /\ UNCHANGED db

Init == InitOn(FlaggedRows)

Next == \E i \in Clients : Run(i) \/ Commit(i) \/ CommitRaises(i)
============================================================================
