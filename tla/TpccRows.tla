------------------------------ MODULE TpccRows ------------------------------
(***************************************************************************)
(* The rows of one TPC-C warehouse, by table and primary key, as they are  *)
(* loaded, and the consistency checks of verify.js on them.                *)
(*                                                                         *)
(* Sums are counted in units, and from what the load left.                 *)
(***************************************************************************)
EXTENDS Integers, SequencesExt

CONSTANTS
    NumDistricts,
    NumCustomers,      \* per district; the load gives each one order
    NumNewOrders,      \* of these, the last are new
    NumItems

ASSUME DistrictsAssumption == NumDistricts \in Nat \ {0}
ASSUME CustomersAssumption == NumCustomers \in Nat \ {0}
ASSUME NewOrdersAssumption == NumNewOrders \in 0 .. NumCustomers
ASSUME ItemsAssumption     == NumItems \in Nat

DIds      == 1 .. NumDistricts
CIds      == 1 .. NumCustomers
Items     == 1 .. NumItems

WarehouseRow   == <<"warehouse", 0, 0>>
DistrictRow(d) == <<"district", d, 0>>
OrderRow(d, o) == <<"orders", d, o>>
NewRow(d, o)   == <<"new_order", d, o>>
CustomerRow(d, c) == <<"customer", d, c>>
StockRow(i)    == <<"stock", 0, i>>

\* HISTORY has no key: a client's n-th payment makes a row of its own.
HistoryRow(i, n) == <<"history", i, n>>

LoadedNew(o) == o > NumCustomers - NumNewOrders

\* The load, one order of every customer.
LoadedRows ==
    {WarehouseRow} \cup {DistrictRow(d) : d \in DIds} \cup {StockRow(i) : i \in Items}
        \cup {CustomerRow(d, c) : d \in DIds, c \in CIds}
        \cup {OrderRow(d, o) : d \in DIds, o \in CIds}
        \cup {NewRow(d, o) : d \in DIds, o \in {n \in CIds : LoadedNew(n)}}

LoadedValue(row) ==
    CASE row[1] = "warehouse" -> [ytd |-> 0]
      [] row[1] = "district"  -> [next |-> NumCustomers + 1, ytd |-> 0]
      [] row[1] = "customer"  -> [balance |-> 0, paid |-> 0]
      [] row[1] = "orders"    -> [c |-> row[3], amount |-> IF LoadedNew(row[3]) THEN 1 ELSE 0,
                                  delivered |-> ~ LoadedNew(row[3])]
      [] row[1] = "stock"     -> [ytd |-> 0, count |-> 0]
      [] OTHER                -> [new |-> TRUE]

NoRows == [row \in {} |-> 0]

Loaded == [row \in LoadedRows |-> LoadedValue(row)]

\* rows after an INSERT or UPDATE of one, and after all the changes.
Put(row, value, rows) ==
    [r \in DOMAIN rows \cup {row} |-> IF r = row THEN value ELSE rows[r]]

Overlay(changes, rows) ==
    [r \in DOMAIN rows \cup DOMAIN changes |-> IF r \in DOMAIN changes THEN changes[r] ELSE rows[r]]

Numbered(rows, table, d) ==
    {row[3] : row \in {r \in DOMAIN rows : r[1] = table /\ r[2] = d}}

History(rows, d) == {row \in DOMAIN rows : row[1] = "history" /\ rows[row].d = d}

Delivered(rows, d, c) ==
    {o \in Numbered(rows, "orders", d) :
        rows[OrderRow(d, o)].delivered /\ rows[OrderRow(d, o)].c = c}

DeliveredAmount(rows, d, c) ==
    SumFunction([o \in Delivered(rows, d, c) |-> rows[OrderRow(d, o)].amount])

----------------------------------------------------------------------------
(***************************************************************************)
(* verify.js: what each check reports is a state where it does not hold.   *)
(***************************************************************************)

\* 1: W_YTD is the sum of the D_YTD.
Check1(rows) ==
    rows[WarehouseRow].ytd = SumFunction([d \in DIds |-> rows[DistrictRow(d)].ytd])

\* 3: the new orders of a district are numbered without gap.
Check3(rows) ==
    \A d \in DIds : \A o, p \in Numbered(rows, "new_order", d) :
        o .. p \subseteq Numbered(rows, "new_order", d)

\* 5: an order has no carrier as long as it is new, and one when it is not.
Check5(rows) ==
    \A d \in DIds : \A o \in Numbered(rows, "orders", d) :
        rows[OrderRow(d, o)].delivered <=> o \notin Numbered(rows, "new_order", d)

\* 9, and with 1 also 8: what a district has taken in is what HISTORY says.
Check9(rows) ==
    \A d \in DIds : rows[DistrictRow(d)].ytd = Cardinality(History(rows, d))

\* 12: the same from C_YTD_PAYMENT.
Check12(rows) ==
    \A d \in DIds, c \in CIds :
        rows[CustomerRow(d, c)].balance + rows[CustomerRow(d, c)].paid =
            DeliveredAmount(rows, d, c)
============================================================================
