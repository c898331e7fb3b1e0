--------------------------- MODULE PostgresStore ---------------------------
(***************************************************************************)
(* The transactions of drivers/postgresdriver.py on its one connection,    *)
(* with a single client (the verifier of tpcc.py --verify).  The driver    *)
(* commits at the end of a transaction and never rolls back.               *)
(***************************************************************************)
EXTENDS TpccWorkload

VARIABLES
    pConn,      \* the connection: "idle", "open" in a transaction, "aborted"
    pNext,      \* D_NEXT_O_ID of each district
    pOrders,    \* rows of ORDERS
    pNew,       \* those with a row of NEW_ORDER
    pLines,     \* number of rows of ORDER_LINE
    pBalance,   \* C_BALANCE of each customer, less what the load gave it
    pPaid,      \* C_YTD_PAYMENT of each customer, likewise
    pHistory    \* number of rows of HISTORY

pData == <<pNext, pOrders, pNew, pLines, pBalance, pPaid, pHistory>>

PostgresInit(orders, lines) ==
    /\ pConn = "idle"
    /\ pNext = [k \in Districts |-> CustomersPerDistrict + 1]
    /\ pOrders = orders
    /\ pNew = {x \in orders : LoadedNew(x.o)}
    /\ pLines = lines
    /\ pBalance = [k \in Customers |-> 0]
    /\ pPaid = [k \in Customers |-> 0]
    /\ pHistory = Cardinality(Customers)

\* A statement fails on a connection whose transaction is aborted.
Usable == pConn # "aborted"

\* doNewOrder: an unknown item returns without commit or rollback.
PostgresNewOrder(p) ==
    LET order == Order(p.w, p.d, pNext[<<p.w, p.d>>], p.c, p.lines)
    IN
    /\ Usable
    /\ IF p.rollback
         THEN /\ pConn' = "open"
              /\ UNCHANGED pData
         ELSE /\ pConn' = "idle"
              /\ pNext' = [pNext EXCEPT ![<<p.w, p.d>>] = @ + 1]
              /\ pOrders' = pOrders \cup {order}
              /\ pNew' = pNew \cup {order}
              /\ pLines' = pLines + p.lines
              /\ UNCHANGED <<pBalance, pPaid, pHistory>>

\* One row of NEW_ORDER for every district of w that has any: LIMIT 1, unsorted.
PostgresPicks(w) ==
    {pick \in SUBSET pNew :
        /\ \A x \in pick : x.w = w
        /\ \A d \in DIds :
              (\E x \in pNew : x.w = w /\ x.d = d) => \E x \in pick : x.d = d
        /\ \A x, y \in pick : x.d = y.d => x = y}

\* doDelivery: the picked rows are deleted, their customers credited.
PostgresDelivery(w) ==
    /\ Usable
    /\ \E pick \in PostgresPicks(w) :
          /\ pNew' = pNew \ pick
          /\ pBalance' = [k \in Customers |->
                              pBalance[k] + TotalAmount({x \in pick : <<x.w, x.d, x.c>> = k})]
    /\ pConn' = "idle"
    /\ UNCHANGED <<pNext, pOrders, pLines, pPaid, pHistory>>

\* Mutant: no history for a customer found by name.
HistoryById(p) ==
    /\ Usable
    /\ \E c \in PayingIds(p) :
          LET from == <<p.w, p.d, c>>
              to   == <<p.cw, p.cd, c>>
          IN /\ pBalance' = [pBalance EXCEPT ![to] = pBalance[from] - 1]
             /\ pPaid' = [pPaid EXCEPT ![to] = pPaid[from] + 1]
    /\ pHistory' = IF p.byName THEN pHistory ELSE pHistory + 1
    /\ pConn' = "idle"
    /\ UNCHANGED <<pNext, pOrders, pNew, pLines>>

\* doPayment: read in the district paid through, written in c_w_id, c_d_id.
PostgresPayment(p) ==
    /\ Usable
    /\ \E c \in PayingIds(p) :
          LET from == <<p.w, p.d, c>>
              to   == <<p.cw, p.cd, c>>
          IN /\ pBalance' = [pBalance EXCEPT ![to] = pBalance[from] - 1]
             /\ pPaid' = [pPaid EXCEPT ![to] = pPaid[from] + 1]
    /\ pHistory' = pHistory + 1
    /\ pConn' = "idle"
    /\ UNCHANGED <<pNext, pOrders, pNew, pLines>>

\* doOrderStatus and doStockLevel.
PostgresRead ==
    /\ Usable
    /\ pConn' = "idle"
    /\ UNCHANGED pData

\* A statement raises: the server aborts the transaction, and nothing in the
\* driver or the executor ends it.  Every later statement raises too.
PostgresRaises ==
    /\ pConn' = "aborted"
    /\ UNCHANGED pData
============================================================================
