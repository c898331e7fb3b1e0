--------------------------- MODULE DriverClients ---------------------------
(***************************************************************************)
(* The clients of one execution, as startExecution runs them: processes of *)
(* their own, with a connection each, that call doNewOrder, doPayment,     *)
(* doDelivery and the two read-only transactions until the duration is     *)
(* over.  What a call does to the database is the driver's: SqliteClients, *)
(* Neo4jClients and Typedb2Clients say it for theirs, on these variables.  *)
(*                                                                         *)
(* One warehouse, so that payments are all local; a line costs one unit    *)
(* and a payment is of one.                                                *)
(***************************************************************************)
EXTENDS TpccRows

CONSTANTS
    NumClients,        \* --clients
    Types,             \* the transactions they execute
    MaxTransactions    \* bound: calls of a client in --duration

ASSUME ClientsAssumption  == NumClients \in Nat \ {0}
ASSUME TypesAssumption    == Types \subseteq {"NEW_ORDER", "PAYMENT", "DELIVERY", "READ"}
ASSUME DurationAssumption == MaxTransactions \in Nat

Clients == 1 .. NumClients

VARIABLES
    db,         \* the committed rows
    pc,         \* pc[i]: what client i does next; "idle" between its calls
    request,    \* request[i]: the parameters of its call
    todo,       \* todo[i]: the items (or districts) its loop has not reached, in order
    seen,       \* seen[i]: rows it has read, their values
    written,    \* written[i]: rows its open transaction has written, their values
    open,       \* open[i]: the state of the connection's transaction
    ended       \* ended[i]: calls that have returned or raised

vars == <<db, pc, request, todo, seen, written, open, ended>>

NoRequest == [type |-> "NONE"]

\* The value of a row that is deleted.
Gone == [gone |-> TRUE]

\* An order is for all the items, in any order; no items stands for a list with
\* one that does not exist, as in 1 % of the orders.
Orders ==
    [type : {"NEW_ORDER"}, d : DIds, c : CIds,
     items : {<<>>} \cup Injection(Items, Items)]

Requests ==
    Orders \cup [type : {"PAYMENT"}, d : DIds, c : CIds] \cup [type : {"DELIVERY", "READ"}]

\* An order as it is placed, of one unit a line.
PlacedOrder(r) == [c |-> r.c, amount |-> Len(r.items), delivered |-> FALSE, items |-> r.items]

UnknownItem(r) == r.type = "NEW_ORDER" /\ r.items = <<>>

\* What a transaction of client i sees: what is committed, and its own writes.
Without(rows) == Restrict(rows, {row \in DOMAIN rows : rows[row] # Gone})

Visible(i) == Without(Overlay(written[i], db))

\* The executor calls the driver, which goes on at pc.
Called(i, r, then) ==
    /\ pc[i] = "idle"
    /\ ended[i] < MaxTransactions
    /\ r.type \in Types
    /\ request' = [request EXCEPT ![i] = r]
    /\ pc' = [pc EXCEPT ![i] = then]

\* The call of client i returns, or raises and is counted as an abort.
Returns(i) ==
    /\ pc' = [pc EXCEPT ![i] = "idle"]
    /\ request' = [request EXCEPT ![i] = NoRequest]
    /\ todo' = [todo EXCEPT ![i] = <<>>]
    /\ seen' = [seen EXCEPT ![i] = NoRows]
    /\ ended' = [ended EXCEPT ![i] = @ + 1]

\* The transaction of client i is over.
Closes(i) ==
    /\ written' = [written EXCEPT ![i] = NoRows]
    /\ open' = [open EXCEPT ![i] = "no"]

InitOn(rows) ==
    /\ db = rows
    /\ pc = [i \in Clients |-> "idle"]
    /\ request = [i \in Clients |-> NoRequest]
    /\ todo = [i \in Clients |-> <<>>]
    /\ seen = [i \in Clients |-> NoRows]
    /\ written = [i \in Clients |-> NoRows]
    /\ open = [i \in Clients |-> "no"]
    /\ ended = [i \in Clients |-> 0]

----------------------------------------------------------------------------
(***************************************************************************)
(* Drivers whose NEW_ORDER is not a table but a flag of the order.         *)
(***************************************************************************)
FlaggedRows == Restrict(Loaded, {row \in LoadedRows : row[1] # "new_order"})

\* The new orders of district d: the keys of their rows.
Flagged(rows, d) ==
    {row \in DOMAIN rows : row[1] = "orders" /\ row[2] = d /\ ~ rows[row].delivered}

\* An order has no key but itself: the n-th call of client i creates one.
OrderNode(i, d, o) == <<"orders", d, o, i, ended[i]>>

OrdersOf(rows, d) == {row \in DOMAIN rows : row[1] = "orders" /\ row[2] = d}
============================================================================
