---------------------------- MODULE Typedb3Store ----------------------------
(***************************************************************************)
(* The transactions of drivers/typedb3driver.py on a TypeDB database with  *)
(* a single client.  Districts and customers are found by one integer made *)
(* of their composite key, and the customer's own number is recovered from *)
(* it with a remainder.  A transaction writes all it writes at its commit. *)
(***************************************************************************)
EXTENDS TpccWorkload

CONSTANT CPD   \* CUSTOMERS_PER_DISTRICT, whatever the scale factor

ASSUME CpdAssumption == CPD \in Nat /\ CustomersPerDistrict <= CPD

DKey(w, d)    == w * DPW + d
CKey(w, d, c) == (w * DPW + d) * CPD + c

\* The c_id that doDelivery and doPayment recover from a customer's key.
CIdOf(key) == key % CPD

DKeys == {DKey(w, d) : w \in WIds, d \in DIds}
CKeys == {CKey(w, d, c) : w \in WIds, d \in DIds, c \in CIds}

VARIABLES
    tNext,      \* D_NEXT_O_ID of each district
    tOrders,    \* the ORDER relations
    tNew,       \* those that have O_NEW_ORDER true
    tLines,     \* number of ORDER_LINE relations
    tBalance,   \* C_BALANCE of each customer, less what the load gave it
    tPaid,      \* C_YTD_PAYMENT of each customer, likewise
    tHistory,   \* number of CUSTOMER_HISTORY relations
    tReported   \* orders some doDelivery has returned

tVars == <<tNext, tOrders, tNew, tLines, tBalance, tPaid, tHistory, tReported>>

TOrder(x) ==
    [d |-> DKey(x.w, x.d), o |-> x.o, c |-> CKey(x.w, x.d, x.c), amount |-> x.amount]

Typedb3Init(orders, lines) ==
    /\ tNext = [k \in DKeys |-> CustomersPerDistrict + 1]
    /\ tOrders = {TOrder(x) : x \in orders}
    /\ tNew = {TOrder(x) : x \in {y \in orders : LoadedNew(y.o)}}
    /\ tLines = lines
    /\ tBalance = [k \in CKeys |-> 0]
    /\ tPaid = [k \in CKeys |-> 0]
    /\ tHistory = Cardinality(CKeys)
    /\ tReported = {}

\* doNewOrder: one query increments D_NEXT_O_ID and inserts the ORDER under the
\* old number, then each line is inserted.
Typedb3NewOrder(p) ==
    LET dkey  == DKey(p.w, p.d)
        order == [d |-> dkey, o |-> tNext[dkey], c |-> CKey(p.w, p.d, p.c),
                  amount |-> p.lines]
    IN
    IF p.rollback
      THEN UNCHANGED tVars
      ELSE /\ tNext' = [tNext EXCEPT ![dkey] = @ + 1]
           /\ tOrders' = tOrders \cup {order}
           /\ tNew' = tNew \cup {order}
           /\ tLines' = tLines + p.lines
           /\ UNCHANGED <<tBalance, tPaid, tHistory, tReported>>

\* One new order for every district of w that has any: "limit 1", unsorted.
Typedb3Picks(w) ==
    {pick \in SUBSET tNew :
        /\ \A x \in pick : \E d \in DIds : x.d = DKey(w, d)
        /\ \A d \in DIds :
              (\E x \in tNew : x.d = DKey(w, d)) => \E x \in pick : x.d = DKey(w, d)
        /\ \A x, y \in pick : x.d = y.d => x = y}

\* The key the last query of doDelivery asks for: the district's own key and
\* the recovered c_id.
DeliveryKey(x) == x.d * CPD + CIdOf(x.c)

\* The orders that query finds: by customer and order number.
Delivered(x) == {y \in tOrders : y.o = x.o /\ y.c = DeliveryKey(x)}

\* Mutant: the flag O_NEW_ORDER is left.
FlagKept(w) ==
    \E pick \in Typedb3Picks(w) :
        /\ tBalance' = [k \in CKeys |-> tBalance[k] + TotalAmount(
                            {x \in pick : DeliveryKey(x) = k /\ Delivered(x) # {}})]
        /\ tReported' = tReported \cup pick
        /\ UNCHANGED <<tNew, tNext, tOrders, tLines, tPaid, tHistory>>

\* doDelivery: what it returns lists every picked order.
Typedb3Delivery(w) ==
    \E pick \in Typedb3Picks(w) :
        /\ tNew' = tNew \ UNION {Delivered(x) : x \in pick}
        /\ tBalance' = [k \in CKeys |-> tBalance[k] + TotalAmount(
                            {x \in pick : DeliveryKey(x) = k /\ Delivered(x) # {}})]
        /\ tReported' = tReported \cup pick
        /\ UNCHANGED <<tNext, tOrders, tLines, tPaid, tHistory>>

\* Mutant: the balance is increased.
BalanceGrows(p) ==
    \E c \in PayingIds(p) :
        LET from == CKey(p.w, p.d, c)
            id   == IF p.byName THEN CIdOf(from) ELSE c
            to   == CKey(p.cw, p.cd, id)
        IN /\ IF to \in CKeys
                THEN /\ tBalance' = [tBalance EXCEPT ![to] = tBalance[from] + 1]
                     /\ tPaid' = [tPaid EXCEPT ![to] = tPaid[from] + 1]
                     /\ tHistory' = tHistory + 1
                ELSE UNCHANGED <<tBalance, tPaid, tHistory>>
           /\ UNCHANGED <<tNext, tOrders, tNew, tLines, tReported>>

\* doPayment: the customer is read in the district paid through; the new
\* balance is written, with a history, to the customer of that number in the
\* district c_w_id, c_d_id.  A key that no customer has matches nothing.
Typedb3Payment(p) ==
    \E c \in PayingIds(p) :
        LET from == CKey(p.w, p.d, c)
            id   == IF p.byName THEN CIdOf(from) ELSE c
            to   == CKey(p.cw, p.cd, id)
        IN /\ IF to \in CKeys
                THEN /\ tBalance' = [tBalance EXCEPT ![to] = tBalance[from] - 1]
                     /\ tPaid' = [tPaid EXCEPT ![to] = tPaid[from] + 1]
                     /\ tHistory' = tHistory + 1
                ELSE UNCHANGED <<tBalance, tPaid, tHistory>>
           /\ UNCHANGED <<tNext, tOrders, tNew, tLines, tReported>>

\* doOrderStatus and doStockLevel.
Typedb3Read == UNCHANGED tVars
============================================================================
