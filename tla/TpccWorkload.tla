---------------------------- MODULE TpccWorkload ----------------------------
(***************************************************************************)
(* The TPC-C data and transaction parameters every driver is given: the    *)
(* scale of the benchmark, what Loader.loadWarehouse generates for a       *)
(* district, and what Executor.generate...Params draws for a transaction.  *)
(* Amounts of money are counted in units: an order line costs one unit, a  *)
(* payment is of one unit.                                                 *)
(***************************************************************************)
EXTENDS Integers, FiniteSets, Functions

CONSTANTS
    NumWarehouses,          \* --warehouses
    DPW,                    \* DISTRICTS_PER_WAREHOUSE
    CustomersPerDistrict,   \* CUSTOMERS_PER_DISTRICT / --scalefactor
    NewOrdersPerDistrict,   \* INITIAL_NEW_ORDERS_PER_DISTRICT / --scalefactor
    MaxLines                \* MAX_OL_CNT: the most lines of an order

ASSUME WarehousesAssumption == NumWarehouses \in Nat \ {0}
ASSUME DistrictsAssumption  == DPW \in Nat \ {0}
ASSUME CustomersAssumption  == CustomersPerDistrict \in Nat \ {0}
ASSUME NewOrdersAssumption  == NewOrdersPerDistrict \in 0 .. CustomersPerDistrict
ASSUME LinesAssumption      == MaxLines \in Nat \ {0}

WIds == 1 .. NumWarehouses
DIds == 1 .. DPW
CIds == 1 .. CustomersPerDistrict

Districts == WIds \X DIds
Customers == WIds \X DIds \X CIds

(***************************************************************************)
(* The load: order o of a district is placed by customer perm[o]; the last *)
(* NewOrdersPerDistrict are new.  A delivered order has lines of amount 0, *)
(* which is why the balances the load writes do not depend on it.          *)
(***************************************************************************)
Permutations == {f \in [CIds -> CIds] : \A i, j \in CIds : i # j => f[i] # f[j]}

LoadedNew(o) == o > CustomersPerDistrict - NewOrdersPerDistrict

Order(w, d, o, c, amount) == [w |-> w, d |-> d, o |-> o, c |-> c, amount |-> amount]

Orders == [w : WIds, d : DIds, o : Nat, c : CIds, amount : Nat]

\* What the lines of orders cost together.
TotalAmount(orders) == SumFunction([x \in orders |-> x.amount])

LoadedOrders(perm) ==
    {Order(w, d, o, perm[<<w, d>>][o], IF LoadedNew(o) THEN 1 ELSE 0) :
        w \in WIds, d \in DIds, o \in CIds}

(***************************************************************************)
(* The transactions.                                                       *)
(***************************************************************************)

\* rollback: the last item number does not exist.
NewOrderParams ==
    [type : {"NEW_ORDER"}, w : WIds, d : DIds, c : CIds, lines : 1 .. MaxLines,
     rollback : BOOLEAN]

\* A payment through w, d by a customer of cw, cd: the same district, or any
\* district of another warehouse.  A customer looked up by name is whichever
\* the database finds in the middle; c is then not used.
PaymentParams ==
    {p \in [type : {"PAYMENT"}, w : WIds, d : DIds, cw : WIds, cd : DIds,
            byName : BOOLEAN, c : CIds] :
        p.cw = p.w => p.cd = p.d}

DeliveryParams == [type : {"DELIVERY"}, w : WIds]

\* The customer a payment's c_id comes from, which both drivers look up in the
\* district paid through, by the given id or by name.
PayingIds(p) == IF p.byName THEN CIds ELSE {p.c}
============================================================================
