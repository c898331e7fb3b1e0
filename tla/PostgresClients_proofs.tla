------------------------- MODULE PostgresClients_proofs -------------------------
(***************************************************************************)
(* Any number of Postgres clients, districts, customers and items: what    *)
(* they keep of TPC-C's consistency, that they number orders as            *)
(* OrderNumbering says, and where the server has to cancel a statement.    *)
(***************************************************************************)
EXTENDS PostgresClients, SumFacts, SequenceTheorems

-----------------------------------------------------------------------------
(***************************************************************************)
(* The rows there may be, and their values.                                *)
(***************************************************************************)
OrderRows    == {"orders"} \X DIds \X Nat
NewRows      == {"new_order"} \X DIds \X Nat
CustomerRows == {"customer"} \X DIds \X CIds
StockRows    == {"stock"} \X {0} \X Items
HistoryRows  == {"history"} \X Clients \X Nat

Rows ==
    {WarehouseRow} \cup {DistrictRow(d) : d \in DIds}
        \cup OrderRows \cup NewRows \cup CustomerRows \cup StockRows \cup HistoryRows

Fits(row, value) ==
    /\ row[1] = "warehouse" => value \in [ytd : Nat]
    /\ row[1] = "district" => value \in [next : Nat \ {0}, ytd : Nat]
    /\ row[1] = "customer" => value \in [balance : Int, paid : Nat]
    /\ row[1] = "orders" => value \in [c : CIds, amount : Nat, delivered : BOOLEAN]

\* What is committed: rows of the tables, the orders of a district under the
\* numbers before D_NEXT_O_ID, the new ones among them.
StoreOK ==
    /\ DOMAIN db \subseteq Rows
    /\ WarehouseRow \in DOMAIN db
    /\ \A d \in DIds : DistrictRow(d) \in DOMAIN db
    /\ CustomerRows \subseteq DOMAIN db
    /\ \A row \in DOMAIN db : Fits(row, db[row])
    /\ \A d \in DIds, o \in Nat :
          /\ OrderRow(d, o) \in DOMAIN db <=> o \in 1 .. db[DistrictRow(d)].next - 1
          /\ NewRow(d, o) \in DOMAIN db => OrderRow(d, o) \in DOMAIN db
    /\ \A row \in DOMAIN db : row[1] = "history" => row[3] < ended[row[2]]
    /\ \A d \in DIds : IsFiniteSet(History(db, d))

-----------------------------------------------------------------------------
(***************************************************************************)
(* What a client's open transaction has written.  Nobody else writes these *)
(* rows before it ends, so what they were made from is still committed.    *)
(***************************************************************************)
NewOrderAt == {"incrementNextOrderId", "createOrder", "updateStock"}
PaymentAt  == {"updateWarehouseBalance", "updateDistrictBalance", "updateCustomer",
               "insertHistory"}
DeliveryAt == {"getNewOrder", "deleteNewOrder", "updateOrders", "creditCustomer"}

Statements == {"idle", "aborted"} \cup NewOrderAt \cup PaymentAt \cup DeliveryAt

Incremented(i) == [db[DistrictRow(txn[i].d)] EXCEPT !.next = txn[i].o + 1]

\* D_NEXT_O_ID may be behind what was read by the others, never ahead; once the
\* order is made, it is the number read.
NewOrderOK(i) ==
    LET district == DistrictRow(txn[i].d)
        order    == OrderRow(txn[i].d, txn[i].o)
        new      == NewRow(txn[i].d, txn[i].o)
    IN
    /\ txn[i].d \in DIds /\ txn[i].c \in CIds
    /\ txn[i].o \in 1 .. db[district].next
    /\ todo[i] \in Seq(Items)
    /\ deletes[i] = {}
    /\ pc[i] = "incrementNextOrderId" => DOMAIN writes[i] = {}
    /\ pc[i] = "createOrder" => DOMAIN writes[i] = {district}
    /\ pc[i] # "incrementNextOrderId" => writes[i][district] = Incremented(i)
    /\ pc[i] = "updateStock" =>
          /\ txn[i].o = db[district].next
          /\ {district, order, new} \subseteq DOMAIN writes[i]
          /\ DOMAIN writes[i] \subseteq {district, order, new} \cup StockRows
          /\ writes[i][order] = [c |-> txn[i].c, amount |-> 1, delivered |-> FALSE]

PaymentOK(i) ==
    LET district == DistrictRow(txn[i].d)
        customer == CustomerRow(txn[i].d, txn[i].c)
    IN
    /\ txn[i].d \in DIds /\ txn[i].c \in CIds
    /\ deletes[i] = {}
    /\ DOMAIN writes[i] =
          CASE pc[i] = "updateWarehouseBalance" -> {}
            [] pc[i] = "updateDistrictBalance"  -> {WarehouseRow}
            [] pc[i] = "updateCustomer"         -> {WarehouseRow, district}
            [] pc[i] = "insertHistory"          -> {WarehouseRow, district, customer}
    /\ WarehouseRow \in DOMAIN writes[i] =>
          writes[i][WarehouseRow] = [db[WarehouseRow] EXCEPT !.ytd = @ + 1]
    /\ district \in DOMAIN writes[i] =>
          writes[i][district] = [db[district] EXCEPT !.ytd = @ + 1]
    /\ customer \in DOMAIN writes[i] => Fits(customer, writes[i][customer])

\* The district a delivery has come to.
Reached(i) == NumDistricts - Len(todo[i])

\* It goes through the districts in order, and writes rows of those it has reached.
InOrder(i) ==
    /\ todo[i] \in Seq(DIds)
    /\ \A k \in 1 .. Len(todo[i]) : todo[i][k] = Reached(i) + k
    /\ DOMAIN writes[i] \subseteq OrderRows \cup CustomerRows
    /\ deletes[i] \subseteq NewRows
    /\ \A row \in Touched(i) : row[2] <= Reached(i)

\* In the district it is in, it has found an order, and gone so far with it.
AtOrder(i) ==
    LET order == OrderRow(txn[i].d, txn[i].o)
        new   == NewRow(txn[i].d, txn[i].o)
    IN
    /\ txn[i].d = Reached(i) /\ txn[i].d \in DIds /\ txn[i].c \in CIds /\ txn[i].o \in Nat
    /\ order \in DOMAIN db
    /\ \A row \in Touched(i) : row[2] = txn[i].d =>
          /\ pc[i] # "deleteNewOrder"
          /\ pc[i] = "updateOrders" => row = new
          /\ pc[i] = "creditCustomer" => row \in {new, order}
    /\ pc[i] = "updateOrders" => new \in deletes[i] \/ new \notin DOMAIN db

\* An order it has written has its carrier, and is no longer new.
WrittenOK(i) ==
    \A row \in DOMAIN writes[i] :
        /\ row[1] = "customer" => Fits(row, writes[i][row])
        /\ row[1] = "orders" =>
              /\ row \in DOMAIN db
              /\ writes[i][row] = [db[row] EXCEPT !.delivered = TRUE]
              /\ NewRow(row[2], row[3]) \in deletes[i] \/ NewRow(row[2], row[3]) \notin DOMAIN db

\* It has deleted the new orders it has written, or is about to write, and one
\* in a district at most.
DeletedOK(i) ==
    \A row \in deletes[i] :
        /\ row \in DOMAIN db
        /\ \/ OrderRow(row[2], row[3]) \in DOMAIN writes[i]
           \/ pc[i] = "updateOrders" /\ row = NewRow(txn[i].d, txn[i].o)
        /\ \A other \in deletes[i] : other[2] = row[2] => other = row

DeliveryOK(i) ==
    /\ InOrder(i)
    /\ pc[i] # "getNewOrder" => AtOrder(i)
    /\ WrittenOK(i)
    /\ DeletedOK(i)

ClientOK(i) ==
    /\ pc[i] \in {"idle", "aborted"} => Touched(i) = {} /\ todo[i] = <<>>
    /\ pc[i] \in NewOrderAt => NewOrderOK(i)
    /\ pc[i] \in PaymentAt => PaymentOK(i) /\ todo[i] = <<>>
    /\ pc[i] \in DeliveryAt => DeliveryOK(i)

Txns == [d : DIds \cup {0}, c : CIds \cup {0}, o : Nat, balance : Int, paid : Nat]

StateOK ==
    /\ pc \in [Clients -> Statements]
    /\ txn \in [Clients -> Txns]
    /\ todo \in [Clients -> Seq(Items \cup DIds)]
    /\ DOMAIN writes = Clients /\ DOMAIN deletes = Clients
    /\ ended \in [Clients -> Nat]

LocksOK == \A i, j \in Clients : i # j => Touched(i) \cap Touched(j) = {}

ChecksOK == Check1(db) /\ Check5(db) /\ Check9(db)

IInv ==
    /\ StateOK
    /\ StoreOK
    /\ LocksOK
    /\ \A i \in Clients : ClientOK(i)
    /\ ChecksOK

-----------------------------------------------------------------------------
(***************************************************************************)
(* Rows.                                                                   *)
(***************************************************************************)

\* The orders, and the new orders, of a district are those that have a row.
LEMMA NumberedRows ==
    ASSUME NEW rows, DOMAIN rows \subseteq Rows, NEW d \in DIds
    PROVE  /\ \A o : o \in Numbered(rows, "orders", d) <=> OrderRow(d, o) \in DOMAIN rows
           /\ \A o : o \in Numbered(rows, "new_order", d) <=> NewRow(d, o) \in DOMAIN rows
           /\ Numbered(rows, "orders", d) \subseteq Nat
           /\ Numbered(rows, "new_order", d) \subseteq Nat
PROOF
  <1>1. \A row \in Rows : row[1] = "orders" => row[3] \in Nat /\ row = OrderRow(row[2], row[3])
    BY DEF Rows, OrderRows, NewRows, CustomerRows, StockRows, HistoryRows,
           WarehouseRow, DistrictRow, OrderRow
  <1>2. \A row \in Rows : row[1] = "new_order" => row[3] \in Nat /\ row = NewRow(row[2], row[3])
    BY DEF Rows, OrderRows, NewRows, CustomerRows, StockRows, HistoryRows,
           WarehouseRow, DistrictRow, NewRow
  <1>3. \A o : OrderRow(d, o)[1] = "orders" /\ OrderRow(d, o)[2] = d /\ OrderRow(d, o)[3] = o
    BY DEF OrderRow
  <1>4. \A o : NewRow(d, o)[1] = "new_order" /\ NewRow(d, o)[2] = d /\ NewRow(d, o)[3] = o
    BY DEF NewRow
  <1> HIDE DEF Rows
  <1> QED  BY <1>1, <1>2, <1>3, <1>4 DEF Numbered

\* What a commit leaves.
LEMMA CommittedRows ==
    ASSUME NEW i \in Clients, NEW written, Commits(i, written)
    PROVE  /\ DOMAIN db' = (DOMAIN db \cup DOMAIN written) \ deletes[i]
           /\ \A r \in DOMAIN db' : db'[r] = IF r \in DOMAIN written THEN written[r] ELSE db[r]
PROOF BY DEF Commits, Restrict, Overlay

\* The tables are different, and so are the rows of a table with different keys.
LEMMA RowKinds ==
    /\ WarehouseRow[1] = "warehouse"
    /\ \A d : DistrictRow(d)[1] = "district" /\ DistrictRow(d)[2] = d
    /\ \A d, o : OrderRow(d, o)[1] = "orders" /\ OrderRow(d, o)[2] = d /\ OrderRow(d, o)[3] = o
    /\ \A d, o : NewRow(d, o)[1] = "new_order" /\ NewRow(d, o)[2] = d /\ NewRow(d, o)[3] = o
    /\ \A d, c : CustomerRow(d, c)[1] = "customer" /\ CustomerRow(d, c)[2] = d
    /\ \A i, n : HistoryRow(i, n)[1] = "history" /\ HistoryRow(i, n)[2] = i /\ HistoryRow(i, n)[3] = n
    /\ \A i : StockRow(i)[1] = "stock"
    /\ \A row \in OrderRows : row[1] = "orders" /\ row[2] \in DIds /\ row[3] \in Nat
                              /\ row = OrderRow(row[2], row[3])
    /\ \A row \in NewRows : row[1] = "new_order" /\ row[2] \in DIds /\ row[3] \in Nat
                              /\ row = NewRow(row[2], row[3])
    /\ \A row \in CustomerRows : row[1] = "customer" /\ row[2] \in DIds
                              /\ row[3] \in CIds /\ row = CustomerRow(row[2], row[3])
    /\ \A row \in StockRows : row[1] = "stock"
    /\ \A row \in HistoryRows : row[1] = "history" /\ row[2] \in Clients /\ row[3] \in Nat
PROOF
  BY DEF WarehouseRow, DistrictRow, OrderRow, NewRow, CustomerRow, HistoryRow, StockRow,
         OrderRows, NewRows, CustomerRows, StockRows, HistoryRows

\* And they are all rows there may be.
LEMMA RowsThereMayBe ==
    /\ WarehouseRow \in Rows
    /\ \A d \in DIds : DistrictRow(d) \in Rows
    /\ \A d \in DIds, o \in Nat : OrderRow(d, o) \in OrderRows /\ NewRow(d, o) \in NewRows
    /\ \A d \in DIds, c \in CIds : CustomerRow(d, c) \in CustomerRows
    /\ \A k \in Items : StockRow(k) \in StockRows
    /\ \A i \in Clients, n \in Nat : HistoryRow(i, n) \in HistoryRows
    /\ OrderRows \cup NewRows \cup CustomerRows \cup StockRows \cup HistoryRows \subseteq Rows
PROOF
  BY DEF WarehouseRow, DistrictRow, OrderRow, NewRow, CustomerRow, HistoryRow, StockRow,
         OrderRows, NewRows, CustomerRows, StockRows, HistoryRows, Rows

\* A loop goes over items, or over districts, and has one fewer left after each.
LEMMA Loops ==
    /\ <<>> \in Seq(Items \cup DIds)
    /\ Seq(Items) \subseteq Seq(Items \cup DIds)
    /\ Seq(DIds) \subseteq Seq(Items \cup DIds)
    /\ \A s \in Seq(Items \cup DIds) : s # <<>> => Tail(s) \in Seq(Items \cup DIds)
PROOF
  <1>1. \A S, T : S \subseteq T => Seq(S) \subseteq Seq(T)
    OBVIOUS
  <1>2. <<>> \in Seq(Items \cup DIds)
    OBVIOUS
  <1> QED  BY <1>1, <1>2, HeadTailProperties

-----------------------------------------------------------------------------
(***************************************************************************)
(* The invariant holds at first.                                           *)
(***************************************************************************)
LEMMA LoadedYtd ==
    /\ WarehouseRow \in LoadedRows /\ LoadedValue(WarehouseRow).ytd = 0
    /\ \A d \in DIds : /\ DistrictRow(d) \in LoadedRows
                      /\ LoadedValue(DistrictRow(d)).ytd = 0
                      /\ LoadedValue(DistrictRow(d)).next = NumCustomers + 1
PROOF
  <1>1. WarehouseRow[1] = "warehouse" /\ \A d : DistrictRow(d)[1] = "district"
    BY RowKinds
  <1>2. LoadedValue(WarehouseRow) = [ytd |-> 0]
    BY <1>1 DEF LoadedValue
  <1>3. \A d : LoadedValue(DistrictRow(d)) = [next |-> NumCustomers + 1, ytd |-> 0]
    BY <1>1 DEF LoadedValue
  <1> QED  BY <1>2, <1>3 DEF LoadedRows

\* The load leaves the rows StoreOK asks for.
LEMMA InitStore ==
    ASSUME Init
    PROVE  StoreOK
PROOF
  <1>1. DOMAIN db = LoadedRows /\ \A row \in DOMAIN db : db[row] = LoadedValue(row)
    BY DEF Init, Loaded
  <1>2. CIds \subseteq Nat
    BY DEF CIds
  <1>3. LoadedRows \subseteq Rows
    BY RowsThereMayBe, <1>2 DEF LoadedRows
  <1>4. \A row \in LoadedRows : row[1] # "history"
    BY RowKinds DEF LoadedRows
  <1>5. \A d \in DIds : DistrictRow(d) \in LoadedRows /\ db[DistrictRow(d)].next = NumCustomers + 1
    BY <1>1, LoadedYtd
  <1>6. \A row \in LoadedRows : Fits(row, LoadedValue(row))
    <2>1. \A row \in LoadedRows : row[1] = "orders" => row[3] \in CIds
      BY RowKinds DEF LoadedRows
    <2> QED  BY <2>1, CustomersAssumption DEF Fits, LoadedValue
  <1>7. WarehouseRow \in LoadedRows /\ CustomerRows \subseteq LoadedRows
    BY RowKinds DEF LoadedRows
  <1>8. ASSUME NEW d \in DIds, NEW o \in Nat
        PROVE  /\ OrderRow(d, o) \in LoadedRows <=> o \in CIds
               /\ NewRow(d, o) \in LoadedRows => o \in CIds
    <2>1. OrderRow(d, o) \in LoadedRows => o \in CIds
      BY RowKinds DEF LoadedRows
    <2>2. NewRow(d, o) \in LoadedRows => o \in CIds
      BY RowKinds DEF LoadedRows
    <2> QED  BY <2>1, <2>2 DEF LoadedRows
  <1>9. \A d \in DIds : IsFiniteSet(History(db, d))
    BY <1>1, <1>4, FS_EmptySet DEF History
  <1>10. CIds = 1 .. (NumCustomers + 1) - 1
    BY CustomersAssumption DEF CIds
  <1> QED  BY <1>1, <1>3, <1>4, <1>5, <1>6, <1>7, <1>8, <1>9, <1>10 DEF StoreOK

\* Before the first transaction, the checks hold.
LEMMA InitChecks ==
    ASSUME Init
    PROVE  ChecksOK
PROOF
  <1>1. DOMAIN db = LoadedRows /\ \A row \in DOMAIN db : db[row] = LoadedValue(row)
    BY DEF Init, Loaded
  <1>2. Check1(db)
    <2> DEFINE taken == [d \in DIds |-> db[DistrictRow(d)].ytd]
    <2>1. \A d \in DIds : taken[d] = 0
      BY <1>1, LoadedYtd
    <2>2. IsFiniteSet(DIds)
      BY DistrictsAssumption, FS_Interval DEF DIds
    <2> HIDE DEF taken
    <2>3. SumFunctionOnSet(taken, DIds) = 0
      BY <2>1, <2>2, SumZero
    <2>4. db[WarehouseRow].ytd = 0
      BY <1>1, LoadedYtd
    <2> QED  BY <2>3, <2>4 DEF Check1, SumFunction, taken
  <1>3. Check5(db)
    <2> SUFFICES ASSUME NEW d \in DIds, NEW o \in Numbered(db, "orders", d)
                 PROVE  db[OrderRow(d, o)].delivered <=> o \notin Numbered(db, "new_order", d)
      BY DEF Check5
    <2>1. /\ OrderRow(d, o) \in DOMAIN db
          /\ o \in Numbered(db, "new_order", d) <=> NewRow(d, o) \in DOMAIN db
      BY InitStore, NumberedRows DEF StoreOK
    <2>2. o \in CIds
      BY <1>1, <2>1, RowKinds DEF LoadedRows
    <2>3. NewRow(d, o) \in LoadedRows <=> LoadedNew(o)
      <3>1. NewRow(d, o) \in LoadedRows => LoadedNew(o)
        BY RowKinds DEF LoadedRows
      <3> QED  BY <2>2, <3>1 DEF LoadedRows
    <2>4. db[OrderRow(d, o)].delivered = ~ LoadedNew(o)
      BY <1>1, <2>1, RowKinds DEF LoadedValue
    <2> QED  BY <1>1, <2>1, <2>3, <2>4
  <1>4. Check9(db)
    <2>1. \A row \in LoadedRows : row[1] # "history"
      BY RowKinds DEF LoadedRows
    <2>2. \A d \in DIds : History(db, d) = {}
      BY <1>1, <2>1 DEF History
    <2>3. \A d \in DIds : db[DistrictRow(d)].ytd = 0
      BY <1>1, LoadedYtd
    <2> QED  BY <2>2, <2>3, FS_EmptySet DEF Check9
  <1> QED  BY <1>2, <1>3, <1>4 DEF ChecksOK

\* The invariant holds when the clients start.
LEMMA InitIInv ==
    ASSUME Init
    PROVE  IInv
PROOF
  <1>1. DIds \subseteq Nat /\ CIds \subseteq Nat
    BY DEF DIds, CIds
  <1>2. StateOK
    BY <1>1, Loops DEF Init, StateOK, Statements, NoTxn, Txns
  <1>3. \A i \in Clients : Touched(i) = {}
    BY DEF Init, Touched, NoRows
  <1>4. LocksOK
    BY <1>3 DEF LocksOK
  <1>5. \A i \in Clients : ClientOK(i)
    BY <1>3 DEF Init, ClientOK, NewOrderAt, PaymentAt, DeliveryAt
  <1> QED  BY <1>2, <1>4, <1>5, InitStore, InitChecks DEF IInv

-----------------------------------------------------------------------------
(***************************************************************************)
(* What a step of one client leaves of the others.                         *)
(***************************************************************************)
Kept(j) ==
    /\ pc'[j] = pc[j] /\ txn'[j] = txn[j] /\ todo'[j] = todo[j]
    /\ writes'[j] = writes[j] /\ deletes'[j] = deletes[j]

\* A commit changes no row that client j has written, removes no row but new
\* orders, and makes no order that is there new again.
Spares(j) ==
    /\ \A row \in DOMAIN db : row \in DOMAIN db' \/ row \in NewRows
    /\ \A row \in Touched(j) : row \in DOMAIN db => row \in DOMAIN db' /\ db'[row] = db[row]
    /\ \A d \in DIds : /\ db'[DistrictRow(d)].next \in Nat
                      /\ db[DistrictRow(d)].next <= db'[DistrictRow(d)].next
    /\ \A d \in DIds, o \in Nat :
          NewRow(d, o) \in DOMAIN db' /\ OrderRow(d, o) \in DOMAIN db => NewRow(d, o) \in DOMAIN db

\* A step that leaves a client's own variables, and the rows it depends on, alone
\* keeps what is known of its order,
LEMMA KeptNewOrder ==
    ASSUME StoreOK, NEW j \in Clients, pc[j] \in NewOrderAt, NewOrderOK(j), Kept(j), Spares(j)
    PROVE  NewOrderOK(j)'
PROOF
  <1> DEFINE district == DistrictRow(txn[j].d)
  <1>1. txn[j].d \in DIds
    BY DEF NewOrderOK
  <1>2. district \in DOMAIN db /\ db[district].next \in Nat /\ db'[district].next \in Nat
        /\ db[district].next <= db'[district].next
    BY <1>1, RowKinds DEF StoreOK, Fits, Spares
  <1>3. txn[j].o \in 1 .. db'[district].next
    BY <1>2 DEF NewOrderOK
  <1>4. pc[j] # "incrementNextOrderId" => district \in DOMAIN writes[j]
    BY DEF NewOrderOK, NewOrderAt
  <1>5. pc[j] # "incrementNextOrderId" => db'[district] = db[district]
    BY <1>2, <1>4 DEF Spares, Touched
  <1> QED  BY <1>1, <1>3, <1>5 DEF NewOrderOK, Kept, Incremented

\* of its payment,
LEMMA KeptPayment ==
    ASSUME StoreOK, NEW j \in Clients, PaymentOK(j), Kept(j), Spares(j)
    PROVE  PaymentOK(j)'
PROOF
  <1> DEFINE district == DistrictRow(txn[j].d)
  <1>1. txn[j].d \in DIds
    BY DEF PaymentOK
  <1>2. WarehouseRow \in DOMAIN db /\ district \in DOMAIN db
    BY <1>1 DEF StoreOK
  <1>3. /\ WarehouseRow \in DOMAIN writes[j] => db'[WarehouseRow] = db[WarehouseRow]
        /\ district \in DOMAIN writes[j] => db'[district] = db[district]
    BY <1>2 DEF Spares, Touched
  <1> QED  BY <1>3 DEF PaymentOK, Kept, Fits

\* of its delivery,
LEMMA KeptDelivery ==
    ASSUME StoreOK, NEW j \in Clients, DeliveryOK(j), Kept(j), Spares(j)
    PROVE  DeliveryOK(j)'
PROOF
  <1>1. Touched(j)' = Touched(j) /\ Reached(j)' = Reached(j)
    BY DEF Kept, Touched, Reached
  <1>2. InOrder(j)'
    BY <1>1 DEF DeliveryOK, InOrder, Kept
  <1>3. AtOrder(j) => AtOrder(j)'
    <2> SUFFICES ASSUME AtOrder(j) PROVE AtOrder(j)'
      OBVIOUS
    <2> DEFINE order == OrderRow(txn[j].d, txn[j].o)
               new   == NewRow(txn[j].d, txn[j].o)
    <2>1. order \in DOMAIN db'
      BY RowKinds DEF AtOrder, Spares
    <2>2. new \in DOMAIN db' => new \in DOMAIN db
      BY DEF AtOrder, Spares
    <2> QED  BY <1>1, <2>1, <2>2 DEF AtOrder, Kept
  <1>4. WrittenOK(j)'
    <2> SUFFICES ASSUME NEW row \in DOMAIN writes[j]
                 PROVE  /\ row[1] = "customer" => Fits(row, writes[j][row])
                        /\ row[1] = "orders" =>
                              /\ row \in DOMAIN db'
                              /\ writes[j][row] = [db'[row] EXCEPT !.delivered = TRUE]
                              /\ \/ NewRow(row[2], row[3]) \in deletes[j]
                                 \/ NewRow(row[2], row[3]) \notin DOMAIN db'
      BY DEF WrittenOK, Kept, Fits
    <2>1. CASE row[1] = "orders"
      <3>1. /\ row \in DOMAIN db
            /\ writes[j][row] = [db[row] EXCEPT !.delivered = TRUE]
            /\ NewRow(row[2], row[3]) \in deletes[j] \/ NewRow(row[2], row[3]) \notin DOMAIN db
        BY <2>1 DEF DeliveryOK, WrittenOK
      <3>2. row \in DOMAIN db' /\ db'[row] = db[row]
        BY <3>1 DEF Spares, Touched
      <3>3. row \in OrderRows
        BY <2>1, RowKinds DEF DeliveryOK, InOrder
      <3>4. row[2] \in DIds /\ row[3] \in Nat /\ row = OrderRow(row[2], row[3])
        BY <3>3, RowKinds
      <3> QED  BY <2>1, <3>1, <3>2, <3>4 DEF Spares
    <2>2. CASE row[1] # "orders"
      BY <2>2 DEF DeliveryOK, WrittenOK
    <2> QED  BY <2>1, <2>2
  <1>5. DeletedOK(j)'
    <2>1. \A row \in deletes[j] : row \in DOMAIN db'
      BY DEF DeliveryOK, DeletedOK, Spares, Touched
    <2> QED  BY <2>1 DEF DeliveryOK, DeletedOK, Kept
  <1>6. pc'[j] = pc[j]
    BY DEF Kept
  <1> QED  BY <1>2, <1>3, <1>4, <1>5, <1>6 DEF DeliveryOK

\* and so of whatever it is in.
LEMMA KeptClient ==
    ASSUME StoreOK, NEW j \in Clients, ClientOK(j), Kept(j), Spares(j)
    PROVE  ClientOK(j)'
PROOF
  <1>1. pc'[j] = pc[j] /\ Touched(j)' = Touched(j) /\ todo'[j] = todo[j]
    BY DEF Kept, Touched
  <1> QED  BY <1>1, KeptNewOrder, KeptPayment, KeptDelivery DEF ClientOK

\* A step that commits nothing needs only be right for the client itself.
LEMMA NothingCommitted ==
    ASSUME IInv, NEW i \in Clients, UNCHANGED <<db, ended>>,
           \A j \in Clients \ {i} : Kept(j),
           StateOK', ClientOK(i)',
           \A row \in Touched(i)' : row \in Touched(i) \/ ~ Locked(i, row)
    PROVE  IInv'
PROOF
  <1>1. StoreOK'
    BY DEF IInv, StoreOK, History
  <1>2. ChecksOK'
    BY DEF IInv, ChecksOK, Check1, Check5, Check9, Numbered, History
  <1>3. ASSUME NEW j \in Clients \ {i}
        PROVE  Touched(j)' = Touched(j)
    BY DEF Kept, Touched
  <1>4. LocksOK'
    <2>1. \A j \in Clients \ {i} : Touched(i) \cap Touched(j) = {}
      BY DEF IInv, LocksOK
    <2>2. \A j \in Clients \ {i} : \A row \in Touched(i)' : row \notin Touched(j)
      BY <2>1 DEF Locked
    <2> QED  BY <1>3, <2>2 DEF IInv, LocksOK
  <1>5. ASSUME NEW j \in Clients \ {i}
        PROVE  ClientOK(j)'
    <2>1. Spares(j)
      BY RowKinds DEF Spares, IInv, StoreOK, Fits
    <2> QED  BY <2>1, KeptClient DEF IInv
  <1> QED  BY <1>1, <1>2, <1>4, <1>5 DEF IInv

-----------------------------------------------------------------------------
(***************************************************************************)
(* A transaction begins.                                                   *)
(***************************************************************************)

\* The items of an order are a sequence of items.
LEMMA ItemsAreSequence == SetToAllKPermutations(Items) \subseteq Seq(Items)
PROOF
  <1>1. ASSUME NEW S \in SUBSET Items, NEW f \in SetToSeqs(S)
        PROVE  f \in Seq(Items)
    <2>1. IsFiniteSet(Items)
      BY ItemsAssumption, FS_Interval DEF Items
    <2>2. Cardinality(S) \in Nat
      BY <2>1, FS_Subset, FS_CardinalityType
    <2>3. f \in [1 .. Cardinality(S) -> Items]
      BY DEF SetToSeqs
    <2> QED  BY <2>2, <2>3, SeqDef
  <1> QED  BY <1>1 DEF SetToAllKPermutations

\* No transaction is a transaction record too.
LEMMA NoTxnIn == NoTxn \in Txns
PROOF BY DEF NoTxn, Txns

\* A client begins an order: it has read D_NEXT_O_ID and written nothing.
LEMMA StepBeginNewOrder ==
    ASSUME IInv, NEW i \in Clients, BeginNewOrder(i)
    PROVE  IInv'
PROOF
  <1>1. PICK d \in DIds, c \in CIds, items \in SetToAllKPermutations(Items) :
           /\ txn' = [txn EXCEPT ![i] =
                         [NoTxn EXCEPT !.d = d, !.c = c, !.o = db[DistrictRow(d)].next]]
           /\ todo' = [todo EXCEPT ![i] = items]
    BY DEF BeginNewOrder
  <1>2. /\ pc' = [pc EXCEPT ![i] = "incrementNextOrderId"]
        /\ UNCHANGED <<db, writes, deletes, ended>>
        /\ pc[i] = "idle"
    BY DEF BeginNewOrder, Begins
  <1>3. db[DistrictRow(d)].next \in Nat \ {0}
    BY RowKinds DEF IInv, StoreOK, Fits
  <1>4. items \in Seq(Items)
    BY ItemsAreSequence
  <1>5. Touched(i) = {}
    BY <1>2 DEF IInv, ClientOK
  <1>6. /\ pc'[i] = "incrementNextOrderId" /\ todo'[i] = items
        /\ txn'[i].d = d /\ txn'[i].c = c /\ txn'[i].o = db[DistrictRow(d)].next
    BY <1>1, <1>2 DEF IInv, StateOK, NoTxn
  <1>7. ClientOK(i)'
    <2>1. NewOrderOK(i)'
      BY <1>2, <1>3, <1>4, <1>5, <1>6 DEF NewOrderOK, Touched
    <2> QED  BY <1>6, <2>1 DEF ClientOK, PaymentAt, DeliveryAt
  <1>8. StateOK'
    <2>1. ASSUME NEW t \in Txns
          PROVE  [t EXCEPT !.d = d, !.c = c, !.o = db[DistrictRow(d)].next] \in Txns
      BY <1>3 DEF Txns
    <2>2. [NoTxn EXCEPT !.d = d, !.c = c, !.o = db[DistrictRow(d)].next] \in Txns
      BY <2>1, NoTxnIn
    <2>3. items \in Seq(Items \cup DIds)
      BY <1>4, Loops
    <2> QED  BY <1>1, <1>2, <2>2, <2>3 DEF IInv, StateOK, Statements, NewOrderAt
  <1>9. \A j \in Clients \ {i} : Kept(j)
    BY <1>1, <1>2 DEF IInv, StateOK, Kept
  <1>10. Touched(i)' = {}
    BY <1>2, <1>5 DEF Touched
  <1> QED  BY <1>2, <1>7, <1>8, <1>9, <1>10, NothingCommitted

\* A client begins a payment: it has written nothing.
LEMMA StepBeginPayment ==
    ASSUME IInv, NEW i \in Clients, BeginPayment(i)
    PROVE  IInv'
PROOF
  <1> DEFINE Row(d, c) == db[CustomerRow(d, c)]
  <1>1. PICK d \in DIds, c \in CIds :
           txn' = [txn EXCEPT ![i] =
                      [NoTxn EXCEPT !.d = d, !.c = c, !.balance = Row(d, c).balance - 1,
                                    !.paid = Row(d, c).paid + 1]]
    BY DEF BeginPayment
  <1>2. /\ pc' = [pc EXCEPT ![i] = "updateWarehouseBalance"]
        /\ UNCHANGED <<db, todo, writes, deletes, ended>>
        /\ pc[i] = "idle"
    BY DEF BeginPayment, Begins
  <1>3. Row(d, c) \in [balance : Int, paid : Nat]
    BY RowKinds, RowsThereMayBe DEF IInv, StoreOK, Fits
  <1>4. Touched(i) = {} /\ todo[i] = <<>>
    BY <1>2 DEF IInv, ClientOK
  <1>5. pc'[i] = "updateWarehouseBalance" /\ txn'[i].d = d /\ txn'[i].c = c
    BY <1>1, <1>2 DEF IInv, StateOK, NoTxn
  <1>6. ClientOK(i)'
    <2>1. PaymentOK(i)'
      BY <1>2, <1>4, <1>5 DEF PaymentOK, Touched
    <2> QED  BY <1>2, <1>4, <1>5, <2>1 DEF ClientOK, NewOrderAt, DeliveryAt
  <1>7. StateOK'
    <2>1. ASSUME NEW t \in Txns, NEW b \in Int, NEW p \in Nat
          PROVE  [t EXCEPT !.d = d, !.c = c, !.balance = b, !.paid = p] \in Txns
      BY DEF Txns
    <2>2. Row(d, c).balance - 1 \in Int /\ Row(d, c).paid + 1 \in Nat
      BY <1>3
    <2> HIDE DEF Row
    <2>3. [NoTxn EXCEPT !.d = d, !.c = c, !.balance = Row(d, c).balance - 1,
                        !.paid = Row(d, c).paid + 1] \in Txns
      BY <2>1, <2>2, NoTxnIn
    <2> QED  BY <1>1, <1>2, <2>3 DEF IInv, StateOK, Statements, PaymentAt
  <1>8. \A j \in Clients \ {i} : Kept(j)
    BY <1>1, <1>2 DEF IInv, StateOK, Kept
  <1>9. Touched(i)' = {}
    BY <1>2, <1>4 DEF Touched
  <1> QED  BY <1>2, <1>6, <1>7, <1>8, <1>9, NothingCommitted

\* A client begins a delivery: it is at a district that has a new order, or at the end.
LEMMA StepBeginDelivery ==
    ASSUME IInv, NEW i \in Clients, BeginDelivery(i)
    PROVE  IInv'
PROOF
  <1>1. /\ todo' = [todo EXCEPT ![i] = [d \in DIds |-> d]]
        /\ pc' = [pc EXCEPT ![i] = "getNewOrder"]
        /\ UNCHANGED <<db, txn, writes, deletes, ended>>
        /\ pc[i] = "idle"
    BY DEF BeginDelivery, Begins
  <1>2. Touched(i) = {}
    BY <1>1 DEF IInv, ClientOK
  <1>3. pc'[i] = "getNewOrder" /\ todo'[i] = [d \in DIds |-> d]
    BY <1>1 DEF IInv, StateOK
  <1>4. /\ [d \in DIds |-> d] \in Seq(DIds)
        /\ Len([d \in DIds |-> d]) = NumDistricts
    BY DistrictsAssumption, SeqDef, LenProperties DEF DIds
  <1>5. ClientOK(i)'
    <2>1. InOrder(i)'
      <3>1. Reached(i)' = 0
        BY <1>3, <1>4, DistrictsAssumption DEF Reached
      <3>2. Touched(i)' = {}
        BY <1>1, <1>2 DEF Touched
      <3>3. \A k \in 1 .. Len(todo'[i]) : todo'[i][k] = k
        BY <1>3, <1>4 DEF DIds
      <3> QED  BY <1>3, <1>4, <3>1, <3>2, <3>3 DEF InOrder, Touched
    <2>2. WrittenOK(i)' /\ DeletedOK(i)'
      BY <1>1, <1>2 DEF WrittenOK, DeletedOK, Touched
    <2> QED  BY <1>3, <2>1, <2>2 DEF ClientOK, DeliveryOK, NewOrderAt, PaymentAt
  <1>6. StateOK'
    BY <1>1, <1>4, Loops DEF IInv, StateOK, Statements, DeliveryAt
  <1>7. \A j \in Clients \ {i} : Kept(j)
    BY <1>1 DEF IInv, StateOK, Kept
  <1>8. Touched(i)' = {}
    BY <1>1, <1>2 DEF Touched
  <1> QED  BY <1>1, <1>5, <1>6, <1>7, <1>8, NothingCommitted

-----------------------------------------------------------------------------
(***************************************************************************)
(* A statement of a transaction.                                           *)
(***************************************************************************)

\* What an INSERT or UPDATE of client i does.
LEMMA WrittenRows ==
    ASSUME IInv, NEW i \in Clients, NEW row, NEW value, NEW then \in Statements,
           Writes(i, row, value, then)
    PROVE  /\ pc[i] # then => pc'[i] = then
           /\ pc'[i] = then /\ deletes'[i] = deletes[i]
           /\ DOMAIN writes'[i] = DOMAIN writes[i] \cup {row}
           /\ writes'[i][row] = value
           /\ \A r \in DOMAIN writes[i] : r # row => writes'[i][r] = writes[i][r]
           /\ Touched(i)' = Touched(i) \cup {row}
           /\ \A r \in Touched(i)' : r \in Touched(i) \/ ~ Locked(i, r)
           /\ UNCHANGED <<txn, todo>> => /\ \A j \in Clients \ {i} : Kept(j)
                                        /\ StateOK'
PROOF
  <1>1. /\ ~ Locked(i, row)
        /\ writes' = [writes EXCEPT ![i] = Put(row, value, @)]
        /\ pc' = [pc EXCEPT ![i] = then]
        /\ UNCHANGED <<db, deletes, ended>>
    BY DEF Writes
  <1>2. writes'[i] = Put(row, value, writes[i]) /\ pc'[i] = then /\ deletes'[i] = deletes[i]
    BY <1>1 DEF IInv, StateOK
  <1>3. /\ DOMAIN writes'[i] = DOMAIN writes[i] \cup {row}
        /\ writes'[i][row] = value
        /\ \A r \in DOMAIN writes[i] : r # row => writes'[i][r] = writes[i][r]
    BY <1>2 DEF Put
  <1>4. Touched(i)' = Touched(i) \cup {row}
    BY <1>2, <1>3 DEF Touched
  <1>5. UNCHANGED <<txn, todo>> => StateOK' /\ \A j \in Clients \ {i} : Kept(j)
    BY <1>1 DEF IInv, StateOK, Kept
  <1> QED  BY <1>1, <1>2, <1>3, <1>4, <1>5

\* The district's row is locked with the number that was read, which others may have
\* read too, and used since.
LEMMA StepIncrementNextOrderId ==
    ASSUME IInv, NEW i \in Clients, IncrementNextOrderId(i)
    PROVE  IInv'
PROOF
  <1> DEFINE row == DistrictRow(txn[i].d)
             value == [db[row] EXCEPT !.next = txn[i].o + 1]
  <1>1. pc[i] = "incrementNextOrderId" /\ Writes(i, row, value, "createOrder")
        /\ UNCHANGED <<txn, todo>>
    BY DEF IncrementNextOrderId
  <1>2. UNCHANGED <<db, ended>>
    BY <1>1 DEF Writes
  <1>3. "createOrder" \in Statements
    BY DEF Statements, NewOrderAt
  <1>4. NewOrderOK(i)
    BY <1>1 DEF IInv, ClientOK, NewOrderAt
  <1>5. /\ pc'[i] = "createOrder" /\ deletes'[i] = {}
        /\ DOMAIN writes'[i] = {row} /\ writes'[i][row] = value
    <2> HIDE DEF row, value
    <2>1. DOMAIN writes[i] = {} /\ deletes[i] = {}
      BY <1>1, <1>4 DEF NewOrderOK
    <2> QED  BY <1>1, <1>3, <2>1, WrittenRows
  <1>6. ClientOK(i)'
    <2>1. NewOrderOK(i)'
      BY <1>1, <1>2, <1>4, <1>5 DEF NewOrderOK, Incremented
    <2> QED  BY <1>5, <2>1 DEF ClientOK, PaymentAt, DeliveryAt
  <1> HIDE DEF row, value
  <1>7. /\ StateOK' /\ \A j \in Clients \ {i} : Kept(j)
        /\ \A r \in Touched(i)' : r \in Touched(i) \/ ~ Locked(i, r)
    BY <1>1, <1>3, WrittenRows
  <1> QED  BY <1>2, <1>6, <1>7, NothingCommitted

\* A client whose statement raised has written nothing.
LEMMA StepRaises ==
    ASSUME IInv, NEW i \in Clients, Raises(i)
    PROVE  IInv'
PROOF
  <1>1. /\ pc'[i] = "aborted" /\ todo'[i] = <<>>
        /\ writes'[i] = NoRows /\ deletes'[i] = {}
    BY DEF Raises, IInv, StateOK
  <1>2. Touched(i)' = {}
    BY <1>1 DEF Touched, NoRows
  <1>3. ClientOK(i)'
    BY <1>1, <1>2 DEF ClientOK, NewOrderAt, PaymentAt, DeliveryAt
  <1>4. StateOK'
    BY NoTxnIn, Loops DEF Raises, IInv, StateOK, Statements
  <1>5. \A j \in Clients \ {i} : Kept(j)
    BY DEF Raises, IInv, StateOK, Kept
  <1>6. UNCHANGED <<db, ended>>
    BY DEF Raises
  <1> QED  BY <1>2, <1>3, <1>4, <1>5, <1>6, NothingCommitted

\* The order is made only if its number is free, and then it is D_NEXT_O_ID; the
\* rows of nobody else are that order or its row of NEW_ORDER.
LEMMA StepCreateOrder ==
    ASSUME IInv, NEW i \in Clients, CreateOrder(i)
    PROVE  IInv'
PROOF
  <1> DEFINE district == DistrictRow(txn[i].d)
             row   == OrderRow(txn[i].d, txn[i].o)
             new   == NewRow(txn[i].d, txn[i].o)
             order == [c |-> txn[i].c, amount |-> 1, delivered |-> FALSE]
  <1>1. CASE row \in DOMAIN db
    BY <1>1, StepRaises DEF CreateOrder
  <1>2. CASE row \notin DOMAIN db
    <2>1. /\ pc[i] = "createOrder" /\ ~ Locked(i, row)
          /\ writes' = [writes EXCEPT ![i] = Put(new, [new |-> TRUE], Put(row, order, @))]
          /\ pc' = [pc EXCEPT ![i] = "updateStock"]
          /\ UNCHANGED <<db, txn, todo, deletes, ended>>
      BY <1>2 DEF CreateOrder
    <2>2. NewOrderOK(i)
      BY <2>1 DEF IInv, ClientOK, NewOrderAt
    <2>3. /\ txn[i].d \in DIds /\ txn[i].c \in CIds /\ txn[i].o \in Nat
          /\ txn[i].o \in 1 .. db[district].next /\ todo[i] \in Seq(Items)
          /\ deletes[i] = {} /\ DOMAIN writes[i] = {district}
          /\ writes[i][district] = Incremented(i)
      BY <2>1, <2>2 DEF NewOrderOK
    <2>4. txn[i].o = db[district].next
      <3>1. db[district].next \in Nat
        BY <2>3, RowKinds DEF IInv, StoreOK, Fits
      <3>2. txn[i].o \notin 1 .. db[district].next - 1
        BY <1>2, <2>3 DEF IInv, StoreOK
      <3> QED  BY <2>3, <3>1, <3>2
    <2>5. row # new /\ district # row /\ district # new
      BY RowKinds
    <2>6. /\ pc'[i] = "updateStock"
          /\ writes'[i] = Put(new, [new |-> TRUE], Put(row, order, writes[i]))
      BY <2>1 DEF IInv, StateOK
    <2>7. /\ DOMAIN writes'[i] = {district, row, new}
          /\ writes'[i][district] = writes[i][district]
          /\ writes'[i][row] = order
      <3> DEFINE first == Put(row, order, writes[i])
      <3> HIDE DEF first, district, row, new, order
      <3>1. /\ DOMAIN first = {district, row}
            /\ first[district] = writes[i][district]
            /\ first[row] = order
        BY <2>3, <2>5 DEF first, Put
      <3>2. writes'[i] = Put(new, [new |-> TRUE], first)
        BY <2>6 DEF first
      <3> QED  BY <2>5, <3>1, <3>2 DEF Put
    <2>8. ClientOK(i)'
      <3>1. NewOrderOK(i)'
        <4>1. Incremented(i)' = Incremented(i)
          BY <2>1 DEF Incremented
        <4> QED  BY <2>1, <2>3, <2>4, <2>6, <2>7, <4>1 DEF NewOrderOK
      <3> QED  BY <2>6, <3>1 DEF ClientOK, PaymentAt, DeliveryAt
    <2>9. StateOK'
      BY <2>1 DEF IInv, StateOK, Statements, NewOrderAt
    <2>10. \A j \in Clients \ {i} : Kept(j)
      BY <2>1 DEF IInv, StateOK, Kept
    <2>11. ~ Locked(i, new)
      <3> SUFFICES ASSUME NEW j \in Clients \ {i}, new \in Touched(j) PROVE FALSE
        BY DEF Locked
      <3>1. new \notin DOMAIN db
        BY <1>2, <2>3 DEF IInv, StoreOK
      <3>2. pc[j] \in DeliveryAt => FALSE
        <4> SUFFICES ASSUME pc[j] \in DeliveryAt PROVE FALSE
          OBVIOUS
        <4>1. DeliveryOK(j)
          BY DEF IInv, ClientOK
        <4>2. new \notin DOMAIN writes[j]
          BY <4>1, RowKinds DEF DeliveryOK, InOrder
        <4> QED  BY <3>1, <4>1, <4>2 DEF DeliveryOK, DeletedOK, Touched
      <3>3. pc[j] \in PaymentAt => FALSE
        <4> SUFFICES ASSUME pc[j] \in PaymentAt PROVE FALSE
          OBVIOUS
        <4>1. PaymentOK(j)
          BY DEF IInv, ClientOK
        <4> QED  BY <4>1, RowKinds DEF PaymentOK, Touched, PaymentAt
      <3>4. pc[j] \in NewOrderAt => FALSE
        <4> SUFFICES ASSUME pc[j] \in NewOrderAt PROVE FALSE
          OBVIOUS
        <4>1. NewOrderOK(j) /\ new \in DOMAIN writes[j]
          BY DEF IInv, ClientOK, NewOrderOK, Touched
        <4>2. pc[j] = "updateStock"
          BY <4>1, RowKinds DEF NewOrderOK, NewOrderAt
        <4>3. new = NewRow(txn[j].d, txn[j].o) /\ OrderRow(txn[j].d, txn[j].o) \in Touched(j)
          BY <4>1, <4>2, RowKinds DEF NewOrderOK, Touched
        <4>4. txn[i].d = txn[j].d /\ txn[i].o = txn[j].o
          BY <4>3 DEF NewRow
        <4> QED  BY <2>1, <4>3, <4>4 DEF Locked
      <3>5. pc[j] \in Statements /\ (pc[j] \in {"idle", "aborted"} => FALSE)
        BY DEF IInv, StateOK, ClientOK
      <3> QED  BY <3>2, <3>3, <3>4, <3>5 DEF Statements
    <2>12. \A r \in Touched(i)' : r \in Touched(i) \/ ~ Locked(i, r)
      BY <2>1, <2>3, <2>7, <2>11 DEF Touched
    <2> QED  BY <2>1, <2>8, <2>9, <2>10, <2>12, NothingCommitted
  <1> QED  BY <1>1, <1>2

\* One line of an order: a stock row is added to what is locked.
LEMMA StepUpdateStock ==
    ASSUME IInv, NEW i \in Clients, UpdateStock(i)
    PROVE  IInv'
PROOF
  <1> DEFINE row == StockRow(Head(todo[i]))
             value == db[row]
  <1>1. /\ pc[i] = "updateStock" /\ todo[i] # <<>>
        /\ Writes(i, row, value, "updateStock")
        /\ todo' = [todo EXCEPT ![i] = Tail(@)] /\ UNCHANGED txn
    BY DEF UpdateStock
  <1>2. UNCHANGED <<db, ended>> /\ pc' = [pc EXCEPT ![i] = "updateStock"]
        /\ writes' = [writes EXCEPT ![i] = Put(row, value, @)] /\ deletes' = deletes
    BY <1>1 DEF Writes
  <1>3. "updateStock" \in Statements
    BY DEF Statements, NewOrderAt
  <1>4. NewOrderOK(i)
    BY <1>1 DEF IInv, ClientOK, NewOrderAt
  <1>5. Head(todo[i]) \in Items /\ Tail(todo[i]) \in Seq(Items)
    BY <1>1, <1>4, HeadTailProperties DEF NewOrderOK
  <1>6. row \in StockRows
    BY <1>5, RowsThereMayBe
  <1>7. todo'[i] = Tail(todo[i]) /\ DOMAIN todo' = Clients
    BY <1>1 DEF IInv, StateOK
  <1> HIDE DEF row, value
  <1>8. /\ pc'[i] = "updateStock" /\ deletes'[i] = deletes[i]
        /\ DOMAIN writes'[i] = DOMAIN writes[i] \cup {row}
        /\ \A r \in DOMAIN writes[i] : r # row => writes'[i][r] = writes[i][r]
        /\ \A r \in Touched(i)' : r \in Touched(i) \/ ~ Locked(i, r)
    BY <1>1, <1>3, WrittenRows
  <1>9. ClientOK(i)'
    <2>1. DistrictRow(txn[i].d) # row /\ OrderRow(txn[i].d, txn[i].o) # row
      BY <1>6, RowKinds
    <2>2. Incremented(i)' = Incremented(i)
      BY <1>1, <1>2 DEF Incremented
    <2>3. NewOrderOK(i)'
      BY <1>1, <1>2, <1>4, <1>5, <1>6, <1>7, <1>8, <2>1, <2>2 DEF NewOrderOK
    <2> QED  BY <1>8, <2>3 DEF ClientOK, PaymentAt, DeliveryAt
  <1>10. StateOK'
    BY <1>1, <1>2, <1>3, Loops DEF IInv, StateOK
  <1>11. \A j \in Clients \ {i} : Kept(j)
    BY <1>1, <1>2 DEF IInv, StateOK, Kept
  <1> QED  BY <1>2, <1>8, <1>9, <1>10, <1>11, NothingCommitted

\* The warehouse's row is locked with what was committed, plus the payment.
LEMMA StepUpdateWarehouseBalance ==
    ASSUME IInv, NEW i \in Clients, UpdateWarehouseBalance(i)
    PROVE  IInv'
PROOF
  <1> DEFINE value == [db[WarehouseRow] EXCEPT !.ytd = @ + 1]
  <1>1. pc[i] = "updateWarehouseBalance" /\ UNCHANGED <<txn, todo>>
        /\ Writes(i, WarehouseRow, value, "updateDistrictBalance")
    BY DEF UpdateWarehouseBalance
  <1>2. UNCHANGED <<db, ended>>
    BY <1>1 DEF Writes
  <1>3. "updateDistrictBalance" \in Statements
    BY DEF Statements, PaymentAt
  <1>4. PaymentOK(i) /\ todo[i] = <<>> /\ DOMAIN writes[i] = {} /\ deletes[i] = {}
    BY <1>1 DEF IInv, ClientOK, PaymentAt, PaymentOK
  <1>5. /\ pc'[i] = "updateDistrictBalance" /\ deletes'[i] = {}
        /\ DOMAIN writes'[i] = {WarehouseRow} /\ writes'[i][WarehouseRow] = value
        /\ StateOK' /\ \A j \in Clients \ {i} : Kept(j)
        /\ \A r \in Touched(i)' : r \in Touched(i) \/ ~ Locked(i, r)
    <2> HIDE DEF value
    <2> QED  BY <1>1, <1>3, <1>4, WrittenRows
  <1>6. ClientOK(i)'
    <2>1. PaymentOK(i)'
      BY <1>1, <1>2, <1>4, <1>5, RowKinds DEF PaymentOK
    <2> QED  BY <1>1, <1>4, <1>5, <2>1 DEF ClientOK, NewOrderAt, DeliveryAt
  <1> QED  BY <1>2, <1>5, <1>6, NothingCommitted

\* The same for the district's row.
LEMMA StepUpdateDistrictBalance ==
    ASSUME IInv, NEW i \in Clients, UpdateDistrictBalance(i)
    PROVE  IInv'
PROOF
  <1> DEFINE row == DistrictRow(txn[i].d)
             value == [db[row] EXCEPT !.ytd = @ + 1]
  <1>1. pc[i] = "updateDistrictBalance" /\ UNCHANGED <<txn, todo>>
        /\ Writes(i, row, value, "updateCustomer")
    BY DEF UpdateDistrictBalance
  <1>2. UNCHANGED <<db, ended>>
    BY <1>1 DEF Writes
  <1>3. "updateCustomer" \in Statements
    BY DEF Statements, PaymentAt
  <1>4. PaymentOK(i) /\ todo[i] = <<>> /\ DOMAIN writes[i] = {WarehouseRow} /\ deletes[i] = {}
    BY <1>1 DEF IInv, ClientOK, PaymentAt, PaymentOK
  <1>5. row # WarehouseRow
    BY RowKinds
  <1>6. /\ pc'[i] = "updateCustomer" /\ deletes'[i] = {}
        /\ DOMAIN writes'[i] = {WarehouseRow, row} /\ writes'[i][row] = value
        /\ writes'[i][WarehouseRow] = writes[i][WarehouseRow]
        /\ StateOK' /\ \A j \in Clients \ {i} : Kept(j)
        /\ \A r \in Touched(i)' : r \in Touched(i) \/ ~ Locked(i, r)
    <2> HIDE DEF value, row
    <2> QED  BY <1>1, <1>3, <1>4, <1>5, WrittenRows
  <1>7. ClientOK(i)'
    <2>1. PaymentOK(i)'
      BY <1>1, <1>2, <1>4, <1>6, RowKinds DEF PaymentOK
    <2> QED  BY <1>1, <1>4, <1>6, <2>1 DEF ClientOK, NewOrderAt, DeliveryAt
  <1> QED  BY <1>2, <1>6, <1>7, NothingCommitted

\* The customer's row is set to what was read, whatever has been committed since.
LEMMA StepUpdatePayingCustomer ==
    ASSUME IInv, NEW i \in Clients, UpdatePayingCustomer(i)
    PROVE  IInv'
PROOF
  <1> DEFINE district == DistrictRow(txn[i].d)
             row == CustomerRow(txn[i].d, txn[i].c)
             value == [balance |-> txn[i].balance, paid |-> txn[i].paid]
  <1>1. pc[i] = "updateCustomer" /\ UNCHANGED <<txn, todo>>
        /\ Writes(i, row, value, "insertHistory")
    BY DEF UpdatePayingCustomer
  <1>2. UNCHANGED <<db, ended>>
    BY <1>1 DEF Writes
  <1>3. "insertHistory" \in Statements
    BY DEF Statements, PaymentAt
  <1>4. /\ PaymentOK(i) /\ todo[i] = <<>> /\ deletes[i] = {}
        /\ DOMAIN writes[i] = {WarehouseRow, district}
    BY <1>1 DEF IInv, ClientOK, PaymentAt, PaymentOK
  <1>5. row # WarehouseRow /\ row # district /\ district # WarehouseRow
    BY RowKinds
  <1>6. /\ pc'[i] = "insertHistory" /\ deletes'[i] = {}
        /\ DOMAIN writes'[i] = {WarehouseRow, district, row} /\ writes'[i][row] = value
        /\ writes'[i][WarehouseRow] = writes[i][WarehouseRow]
        /\ writes'[i][district] = writes[i][district]
        /\ StateOK' /\ \A j \in Clients \ {i} : Kept(j)
        /\ \A r \in Touched(i)' : r \in Touched(i) \/ ~ Locked(i, r)
    <2> HIDE DEF value, row, district
    <2> QED  BY <1>1, <1>3, <1>4, <1>5, WrittenRows
  <1>7. Fits(row, value)
    <2>1. txn[i] \in Txns
      BY DEF IInv, StateOK
    <2>2. value \in [balance : Int, paid : Nat]
      BY <2>1 DEF Txns
    <2> QED  BY <2>2, RowKinds DEF Fits
  <1>8. ClientOK(i)'
    <2>1. PaymentOK(i)'
      BY <1>1, <1>2, <1>4, <1>6, <1>7, RowKinds DEF PaymentOK, Fits
    <2> QED  BY <1>1, <1>4, <1>6, <2>1 DEF ClientOK, NewOrderAt, DeliveryAt
  <1> QED  BY <1>2, <1>6, <1>8, NothingCommitted

\* The district that a delivery comes to is the next; it has written nothing there.
LEMMA StepGetNewOrder ==
    ASSUME IInv, NEW i \in Clients, GetNewOrder(i)
    PROVE  IInv'
PROOF
  <1> DEFINE d == Head(todo[i])
             found == Numbers(i, "new_order", d)
  <1>1. /\ pc[i] = "getNewOrder" /\ todo[i] # <<>>
        /\ todo' = [todo EXCEPT ![i] = Tail(@)]
        /\ UNCHANGED <<db, writes, deletes, ended>>
    BY DEF GetNewOrder
  <1>2. DeliveryOK(i)
    BY <1>1 DEF IInv, ClientOK, DeliveryAt
  <1>3. todo'[i] = Tail(todo[i]) /\ writes'[i] = writes[i] /\ deletes'[i] = deletes[i]
    BY <1>1 DEF IInv, StateOK
  <1>4. /\ todo[i] \in Seq(DIds) /\ Len(todo[i]) \in Nat /\ Len(todo[i]) >= 1
        /\ d \in DIds /\ todo[i][1] = d
        /\ Tail(todo[i]) \in Seq(DIds) /\ Len(Tail(todo[i])) = Len(todo[i]) - 1
        /\ \A k \in 1 .. Len(Tail(todo[i])) : Tail(todo[i])[k] = todo[i][k + 1]
    <2>1. todo[i] \in Seq(DIds)
      BY <1>2 DEF DeliveryOK, InOrder
    <2>2. Len(todo[i]) \in Nat /\ Len(todo[i]) >= 1 /\ todo[i][1] = d
      BY <1>1, <2>1, EmptySeq, LenProperties
    <2> QED  BY <1>1, <2>1, <2>2, HeadTailProperties
  <1> HIDE DEF d
  <1>5. d = Reached(i) + 1 /\ Reached(i)' = d /\ Reached(i) \in Int
    <2>1. d = Reached(i) + 1
      BY <1>2, <1>4 DEF DeliveryOK, InOrder
    <2>2. Reached(i) \in Int
      BY <1>4, DistrictsAssumption DEF Reached
    <2>3. Reached(i)' = Reached(i) + 1
      <3>1. Len(todo'[i]) = Len(todo[i]) - 1
        BY <1>3, <1>4
      <3>2. Len(todo[i]) \in Nat /\ NumDistricts \in Nat
        BY <1>4, DistrictsAssumption
      <3> QED  BY <3>1, <3>2 DEF Reached
    <2> QED  BY <2>1, <2>2, <2>3
  <1>6. Touched(i)' = Touched(i)
    BY <1>3 DEF Touched
  <1>7. \A row \in Touched(i) : row[2] \in DIds /\ row[2] <= Reached(i)
    <2>1. \A row \in Touched(i) : row \in OrderRows \cup NewRows \cup CustomerRows
      BY <1>2 DEF DeliveryOK, InOrder, Touched
    <2> QED  BY <1>2, <2>1, RowKinds DEF DeliveryOK, InOrder
  <1>8. \A row \in Touched(i) : row[2] # d /\ row[2] <= d
    BY <1>5, <1>7 DEF DIds
  <1>9. InOrder(i)'
    <2>1. \A k \in 1 .. Len(todo'[i]) : todo'[i][k] = Reached(i)' + k
      <3> SUFFICES ASSUME NEW k \in 1 .. Len(todo'[i]) PROVE todo'[i][k] = d + k
        BY <1>5
      <3>1. k + 1 \in 1 .. Len(todo[i]) /\ todo'[i][k] = todo[i][k + 1]
        BY <1>3, <1>4
      <3>2. todo[i][k + 1] = Reached(i) + (k + 1)
        BY <1>2, <3>1 DEF DeliveryOK, InOrder
      <3> QED  BY <1>5, <3>1, <3>2
    <2> QED  BY <1>2, <1>3, <1>4, <1>5, <1>6, <1>8, <2>1 DEF DeliveryOK, InOrder
  <1>10. WrittenOK(i)'
    BY <1>1, <1>2 DEF DeliveryOK, WrittenOK, Fits
  <1>11. \A row \in deletes[i] :
            /\ row \in DOMAIN db
            /\ OrderRow(row[2], row[3]) \in DOMAIN writes[i]
            /\ \A other \in deletes[i] : other[2] = row[2] => other = row
    BY <1>1, <1>2 DEF DeliveryOK, DeletedOK
  <1>12. DeletedOK(i)'
    BY <1>1, <1>11 DEF DeletedOK
  <1>13. CASE found = {}
    <2>1. UNCHANGED <<txn, pc>>
      BY <1>13 DEF GetNewOrder, d
    <2>2. ClientOK(i)'
      <3>1. DeliveryOK(i)'
        BY <1>1, <1>9, <1>10, <1>12, <2>1 DEF DeliveryOK
      <3> QED  BY <1>1, <2>1, <3>1 DEF ClientOK, NewOrderAt, PaymentAt
    <2>3. StateOK'
      BY <1>1, <2>1, Loops DEF IInv, StateOK
    <2>4. \A j \in Clients \ {i} : Kept(j)
      BY <1>1, <2>1 DEF IInv, StateOK, Kept
    <2> QED  BY <1>1, <1>6, <2>2, <2>3, <2>4, NothingCommitted
  <1>14. CASE found # {}
    <2>1. /\ pc' = [pc EXCEPT ![i] = "deleteNewOrder"]
          /\ \E o \in found :
                txn' = [txn EXCEPT ![i] =
                           [NoTxn EXCEPT !.d = d, !.o = o, !.c = db[OrderRow(d, o)].c]]
      BY <1>14 DEF GetNewOrder, d
    <2>2. PICK o \in found :
             txn' = [txn EXCEPT ![i] =
                        [NoTxn EXCEPT !.d = d, !.o = o, !.c = db[OrderRow(d, o)].c]]
      BY <2>1
    <2>3. NewRow(d, o) \in DOMAIN db /\ o \in Nat
      <3>1. PICK r \in DOMAIN db \cup DOMAIN writes[i] : r[1] = "new_order" /\ r[2] = d /\ r[3] = o
        BY DEF Numbers
      <3>2. r \in DOMAIN db
        BY <1>2, <3>1, RowKinds DEF DeliveryOK, InOrder
      <3>3. r \in NewRows
        BY <3>1, <3>2, RowKinds DEF IInv, StoreOK, Rows
      <3> QED  BY <3>1, <3>2, <3>3, RowKinds
    <2>4. OrderRow(d, o) \in DOMAIN db
      BY <1>4, <2>3 DEF IInv, StoreOK
    <2>5. db[OrderRow(d, o)].c \in CIds
      BY <2>4, RowKinds DEF IInv, StoreOK, Fits
    <2>6. [NoTxn EXCEPT !.d = d, !.o = o, !.c = db[OrderRow(d, o)].c] \in Txns
      <3>1. ASSUME NEW t \in Txns, NEW c \in CIds
            PROVE  [t EXCEPT !.d = d, !.o = o, !.c = c] \in Txns
        BY <1>4, <2>3 DEF Txns
      <3> QED  BY <2>5, <3>1, NoTxnIn
    <2>7. /\ pc'[i] = "deleteNewOrder" /\ txn'[i].d = d /\ txn'[i].o = o
          /\ txn'[i].c = db[OrderRow(d, o)].c
      BY <2>1, <2>2 DEF IInv, StateOK, NoTxn
    <2>8. AtOrder(i)'
      BY <1>1, <1>4, <1>5, <1>6, <1>8, <2>3, <2>4, <2>5, <2>7 DEF AtOrder
    <2>9. ClientOK(i)'
      BY <1>9, <1>10, <1>12, <2>7, <2>8 DEF ClientOK, DeliveryOK, NewOrderAt, PaymentAt
    <2>10. StateOK'
      BY <1>1, <2>1, <2>2, <2>6, Loops DEF IInv, StateOK, Statements, DeliveryAt
    <2>11. \A j \in Clients \ {i} : Kept(j)
      BY <1>1, <2>1, <2>2 DEF IInv, StateOK, Kept
    <2> QED  BY <1>1, <1>6, <2>9, <2>10, <2>11, NothingCommitted
  <1> QED  BY <1>13, <1>14

\* A delivery deletes the row of the order it has found, if it is still there.
LEMMA StepDeleteNewOrder ==
    ASSUME IInv, NEW i \in Clients, DeleteNewOrder(i)
    PROVE  IInv'
PROOF
  <1> DEFINE new == NewRow(txn[i].d, txn[i].o)
             row == OrderRow(txn[i].d, txn[i].o)
  <1>1. /\ pc[i] = "deleteNewOrder" /\ ~ Locked(i, new)
        /\ deletes' = [deletes EXCEPT ![i] = @ \cup ({new} \cap DOMAIN db)]
        /\ pc' = [pc EXCEPT ![i] = "updateOrders"]
        /\ UNCHANGED <<db, txn, todo, writes, ended>>
    BY DEF DeleteNewOrder
  <1>2. DeliveryOK(i) /\ AtOrder(i)
    BY <1>1 DEF IInv, ClientOK, DeliveryAt, DeliveryOK
  <1>3. /\ deletes'[i] = deletes[i] \cup ({new} \cap DOMAIN db)
        /\ pc'[i] = "updateOrders" /\ writes'[i] = writes[i]
        /\ txn'[i] = txn[i] /\ todo'[i] = todo[i]
    BY <1>1 DEF IInv, StateOK
  <1>4. /\ txn[i].d = Reached(i) /\ txn[i].d \in DIds /\ txn[i].c \in CIds /\ txn[i].o \in Nat
        /\ row \in DOMAIN db
        /\ \A r \in Touched(i) : r[2] # txn[i].d
    BY <1>1, <1>2 DEF AtOrder
  <1>5. Touched(i)' \subseteq Touched(i) \cup {new} /\ Reached(i)' = Reached(i)
    BY <1>3 DEF Touched, Reached
  <1>6. new \in NewRows /\ new[2] = txn[i].d /\ new[3] = txn[i].o
    BY <1>4, RowKinds, RowsThereMayBe
  <1>7. InOrder(i)'
    <2>1. \A r \in Touched(i)' : r[2] <= Reached(i)'
      BY <1>2, <1>4, <1>5, <1>6 DEF DeliveryOK, InOrder, DIds
    <2> HIDE DEF new
    <2> QED  BY <1>2, <1>3, <1>5, <1>6, <2>1 DEF DeliveryOK, InOrder
  <1>8. AtOrder(i)'
    BY <1>1, <1>3, <1>4, <1>5 DEF AtOrder
  <1>9. WrittenOK(i)'
    BY <1>1, <1>2, <1>3 DEF DeliveryOK, WrittenOK, Fits
  <1>10. DeletedOK(i)'
    <2>1. \A r \in deletes[i] : r \in DOMAIN db /\ OrderRow(r[2], r[3]) \in DOMAIN writes[i]
      BY <1>1, <1>2 DEF DeliveryOK, DeletedOK
    <2>2. \A r \in deletes[i] : r[2] # new[2]
      BY <1>4, <1>6 DEF Touched
    <2>3. \A r, other \in deletes'[i] : other[2] = r[2] => other = r
      BY <1>2, <1>3, <2>2 DEF DeliveryOK, DeletedOK
    <2> QED  BY <1>1, <1>3, <2>1, <2>3 DEF DeletedOK
  <1>11. ClientOK(i)'
    BY <1>3, <1>7, <1>8, <1>9, <1>10 DEF ClientOK, DeliveryOK, NewOrderAt, PaymentAt
  <1>12. StateOK'
    BY <1>1 DEF IInv, StateOK, Statements, DeliveryAt
  <1>13. \A j \in Clients \ {i} : Kept(j)
    BY <1>1 DEF IInv, StateOK, Kept
  <1> QED  BY <1>1, <1>5, <1>11, <1>12, <1>13, NothingCommitted

\* It sets the carrier of that order.
LEMMA StepUpdateOrders ==
    ASSUME IInv, NEW i \in Clients, UpdateOrders(i)
    PROVE  IInv'
PROOF
  <1> DEFINE new == NewRow(txn[i].d, txn[i].o)
             row == OrderRow(txn[i].d, txn[i].o)
             value == [db[row] EXCEPT !.delivered = TRUE]
  <1>1. pc[i] = "updateOrders" /\ UNCHANGED <<txn, todo>>
        /\ Writes(i, row, value, "creditCustomer")
    BY DEF UpdateOrders
  <1>2. UNCHANGED <<db, ended>>
    BY <1>1 DEF Writes
  <1>3. "creditCustomer" \in Statements
    BY DEF Statements, DeliveryAt
  <1>4. DeliveryOK(i) /\ AtOrder(i)
    BY <1>1 DEF IInv, ClientOK, DeliveryAt, DeliveryOK
  <1>5. /\ pc'[i] = "creditCustomer" /\ deletes'[i] = deletes[i]
        /\ DOMAIN writes'[i] = DOMAIN writes[i] \cup {row} /\ writes'[i][row] = value
        /\ \A r \in DOMAIN writes[i] : r # row => writes'[i][r] = writes[i][r]
        /\ Touched(i)' = Touched(i) \cup {row}
        /\ StateOK' /\ \A j \in Clients \ {i} : Kept(j)
        /\ \A r \in Touched(i)' : r \in Touched(i) \/ ~ Locked(i, r)
    <2> HIDE DEF value, row
    <2> QED  BY <1>1, <1>3, WrittenRows
  <1>6. /\ txn[i].d = Reached(i) /\ txn[i].d \in DIds /\ txn[i].c \in CIds /\ txn[i].o \in Nat
        /\ row \in DOMAIN db
        /\ \A r \in Touched(i) : r[2] = txn[i].d => r = new
        /\ new \in deletes[i] \/ new \notin DOMAIN db
    BY <1>1, <1>4 DEF AtOrder
  <1>7. /\ row \in OrderRows /\ row[1] = "orders"
        /\ row[2] = txn[i].d /\ row[3] = txn[i].o
    BY <1>6, RowKinds, RowsThereMayBe
  <1>8. Reached(i)' = Reached(i)
    BY <1>1 DEF Reached
  <1>9. InOrder(i)'
    <2>1. \A r \in Touched(i)' : r[2] <= Reached(i)'
      BY <1>4, <1>5, <1>6, <1>7, <1>8 DEF DeliveryOK, InOrder, DIds
    <2> HIDE DEF row
    <2> QED  BY <1>1, <1>4, <1>5, <1>7, <1>8, <2>1 DEF DeliveryOK, InOrder
  <1>10. AtOrder(i)'
    <2>1. \A r \in Touched(i)' : r[2] = txn[i].d => r \in {new, row}
      BY <1>5, <1>6
    <2> QED  BY <1>1, <1>2, <1>5, <1>6, <1>8, <2>1 DEF AtOrder
  <1>11. WrittenOK(i)'
    <2> SUFFICES ASSUME NEW r \in DOMAIN writes'[i]
                 PROVE  /\ r[1] = "customer" => Fits(r, writes'[i][r])
                        /\ r[1] = "orders" =>
                              /\ r \in DOMAIN db
                              /\ writes'[i][r] = [db[r] EXCEPT !.delivered = TRUE]
                              /\ \/ NewRow(r[2], r[3]) \in deletes[i]
                                 \/ NewRow(r[2], r[3]) \notin DOMAIN db
      BY <1>2, <1>5 DEF WrittenOK, Fits
    <2>1. CASE r = row
      BY <1>5, <1>6, <1>7, <2>1
    <2>2. CASE r # row
      <3>1. r \in DOMAIN writes[i] /\ writes'[i][r] = writes[i][r]
        BY <1>5, <2>2
      <3> QED  BY <1>4, <3>1 DEF DeliveryOK, WrittenOK
    <2> QED  BY <2>1, <2>2
  <1>12. DeletedOK(i)'
    <2>1. ASSUME NEW r \in deletes[i]
          PROVE  OrderRow(r[2], r[3]) \in DOMAIN writes'[i]
      <3>1. CASE OrderRow(r[2], r[3]) \in DOMAIN writes[i]
        BY <1>5, <3>1
      <3>2. CASE r = new
        <4>1. r[2] = txn[i].d /\ r[3] = txn[i].o
          BY <3>2, RowKinds
        <4> QED  BY <1>5, <4>1
      <3> QED  BY <1>4, <3>1, <3>2 DEF DeliveryOK, DeletedOK
    <2> QED  BY <1>2, <1>4, <1>5, <2>1 DEF DeliveryOK, DeletedOK
  <1>13. ClientOK(i)'
    BY <1>5, <1>9, <1>10, <1>11, <1>12 DEF ClientOK, DeliveryOK, NewOrderAt, PaymentAt
  <1> QED  BY <1>2, <1>5, <1>13, NothingCommitted

\* It credits the customer and goes on to the next district that has a new order.
LEMMA StepCreditCustomer ==
    ASSUME IInv, NEW i \in Clients, CreditCustomer(i)
    PROVE  IInv'
PROOF
  <1> DEFINE row == CustomerRow(txn[i].d, txn[i].c)
             value == [Value(i, row) EXCEPT !.balance = @ + 1]
  <1>1. pc[i] = "creditCustomer" /\ UNCHANGED <<txn, todo>>
        /\ Writes(i, row, value, "getNewOrder")
    BY DEF CreditCustomer
  <1>2. UNCHANGED <<db, ended>>
    BY <1>1 DEF Writes
  <1>3. "getNewOrder" \in Statements
    BY DEF Statements, DeliveryAt
  <1>4. DeliveryOK(i) /\ AtOrder(i)
    BY <1>1 DEF IInv, ClientOK, DeliveryAt, DeliveryOK
  <1>5. /\ pc'[i] = "getNewOrder" /\ deletes'[i] = deletes[i]
        /\ DOMAIN writes'[i] = DOMAIN writes[i] \cup {row} /\ writes'[i][row] = value
        /\ \A r \in DOMAIN writes[i] : r # row => writes'[i][r] = writes[i][r]
        /\ Touched(i)' = Touched(i) \cup {row}
        /\ StateOK' /\ \A j \in Clients \ {i} : Kept(j)
        /\ \A r \in Touched(i)' : r \in Touched(i) \/ ~ Locked(i, r)
    <2> HIDE DEF value, row
    <2> QED  BY <1>1, <1>3, WrittenRows
  <1>6. txn[i].d = Reached(i) /\ txn[i].d \in DIds /\ txn[i].c \in CIds
    BY <1>1, <1>4 DEF AtOrder
  <1>7. row \in CustomerRows /\ row[1] = "customer" /\ row[2] = txn[i].d
    BY <1>6, RowKinds, RowsThereMayBe
  <1>8. Fits(row, value)
    <2>1. row \in DOMAIN db /\ db[row] \in [balance : Int, paid : Nat]
      BY <1>7, RowKinds DEF IInv, StoreOK, Fits
    <2>2. row \in DOMAIN writes[i] => writes[i][row] \in [balance : Int, paid : Nat]
      BY <1>4, <1>7 DEF DeliveryOK, WrittenOK, Fits
    <2>3. Value(i, row) \in [balance : Int, paid : Nat]
      BY <2>1, <2>2 DEF Value
    <2>4. \A v \in [balance : Int, paid : Nat] :
             [v EXCEPT !.balance = @ + 1] \in [balance : Int, paid : Nat]
      OBVIOUS
    <2> QED  BY <1>7, <2>3, <2>4 DEF Fits
  <1> HIDE DEF row, value
  <1>9. Reached(i)' = Reached(i)
    BY <1>1 DEF Reached
  <1>10. InOrder(i)'
    <2>1. \A r \in Touched(i)' : r[2] <= Reached(i)'
      BY <1>4, <1>5, <1>6, <1>7, <1>9 DEF DeliveryOK, InOrder, DIds
    <2> QED  BY <1>1, <1>4, <1>5, <1>7, <1>9, <2>1 DEF DeliveryOK, InOrder
  <1>11. WrittenOK(i)'
    <2> SUFFICES ASSUME NEW r \in DOMAIN writes'[i]
                 PROVE  /\ r[1] = "customer" => Fits(r, writes'[i][r])
                        /\ r[1] = "orders" =>
                              /\ r \in DOMAIN db
                              /\ writes'[i][r] = [db[r] EXCEPT !.delivered = TRUE]
                              /\ \/ NewRow(r[2], r[3]) \in deletes[i]
                                 \/ NewRow(r[2], r[3]) \notin DOMAIN db
      BY <1>2, <1>5 DEF WrittenOK, Fits
    <2>1. CASE r = row
      BY <1>5, <1>7, <1>8, <2>1
    <2>2. CASE r # row
      <3>1. r \in DOMAIN writes[i] /\ writes'[i][r] = writes[i][r]
        BY <1>5, <2>2
      <3> QED  BY <1>4, <3>1 DEF DeliveryOK, WrittenOK
    <2> QED  BY <2>1, <2>2
  <1>12. DeletedOK(i)'
    BY <1>1, <1>2, <1>4, <1>5 DEF DeliveryOK, DeletedOK
  <1>13. ClientOK(i)'
    BY <1>5, <1>10, <1>11, <1>12 DEF ClientOK, DeliveryOK, NewOrderAt, PaymentAt
  <1> QED  BY <1>2, <1>5, <1>13, NothingCommitted

-----------------------------------------------------------------------------
(***************************************************************************)
(* A transaction commits.                                                  *)
(***************************************************************************)
LEMMA SomethingCommitted ==
    ASSUME IInv, NEW i \in Clients, NEW written, Commits(i, written),
           StoreOK', ChecksOK', \A j \in Clients \ {i} : Spares(j)
    PROVE  IInv'
PROOF
  <1>1. /\ pc' = [pc EXCEPT ![i] = "idle"]
        /\ txn' = [txn EXCEPT ![i] = NoTxn]
        /\ todo' = [todo EXCEPT ![i] = <<>>]
        /\ writes' = [writes EXCEPT ![i] = NoRows]
        /\ deletes' = [deletes EXCEPT ![i] = {}]
        /\ ended' = [ended EXCEPT ![i] = @ + 1]
    BY DEF Commits
  <1>2. StateOK'
    BY <1>1, NoTxnIn, Loops DEF IInv, StateOK, Statements
  <1>3. \A j \in Clients \ {i} : Kept(j)
    BY <1>1 DEF IInv, StateOK, Kept
  <1>4. Touched(i)' = {} /\ pc'[i] = "idle" /\ todo'[i] = <<>>
    BY <1>1 DEF IInv, StateOK, Touched, NoRows
  <1>5. LocksOK'
    <2>1. \A j \in Clients \ {i} : Touched(j)' = Touched(j)
      BY <1>3 DEF Kept, Touched
    <2> QED  BY <1>4, <2>1 DEF IInv, LocksOK
  <1>6. ClientOK(i)'
    BY <1>4 DEF ClientOK, NewOrderAt, PaymentAt, DeliveryAt
  <1>7. \A j \in Clients \ {i} : ClientOK(j)'
    BY <1>3, KeptClient DEF IInv
  <1> QED  BY <1>2, <1>5, <1>6, <1>7 DEF IInv

\* What client i has written is locked, so a commit of it and of rows that were
\* not there spares what the others have written.
LEMMA CommitSpares ==
    ASSUME IInv, NEW i \in Clients, NEW written, Commits(i, written),
           \A row \in DOMAIN written : row \in DOMAIN writes[i] \/ row \notin DOMAIN db,
           deletes[i] \subseteq NewRows,
           \A d \in DIds : /\ db'[DistrictRow(d)].next \in Nat
                         /\ db[DistrictRow(d)].next <= db'[DistrictRow(d)].next,
           \A d \in DIds, o \in Nat :
              NewRow(d, o) \in DOMAIN written => OrderRow(d, o) \notin DOMAIN db
    PROVE  \A j \in Clients \ {i} : Spares(j)
PROOF
  <1> SUFFICES ASSUME NEW j \in Clients \ {i} PROVE Spares(j)
    OBVIOUS
  <1>1. /\ DOMAIN db' = (DOMAIN db \cup DOMAIN written) \ deletes[i]
        /\ \A r \in DOMAIN db' : db'[r] = IF r \in DOMAIN written THEN written[r] ELSE db[r]
    BY CommittedRows
  <1>2. \A row \in Touched(j) : row \notin DOMAIN writes[i] /\ row \notin deletes[i]
    BY DEF IInv, LocksOK, Touched
  <1> QED  BY <1>1, <1>2 DEF Spares

\* The payments on record change when HISTORY does.
LEMMA SameHistory ==
    ASSUME NEW d,
           \A row : row[1] = "history" =>
              /\ row \in DOMAIN db' <=> row \in DOMAIN db
              /\ row \in DOMAIN db => db'[row] = db[row]
    PROVE  History(db', d) = History(db, d)
PROOF
  <1>1. ASSUME NEW row
        PROVE  row \in History(db', d) <=> row \in History(db, d)
    BY DEF History
  <1> QED  BY <1>1

\* A commit of an order: its number is the next one, and the district counts on.
LEMMA StepCommitNewOrder ==
    ASSUME IInv, NEW i \in Clients, CommitNewOrder(i)
    PROVE  /\ IInv'
           /\ \E d \in DIds :
                 /\ \A e \in DIds : db'[DistrictRow(e)].next = db[DistrictRow(e)].next + (IF e = d THEN 1 ELSE 0)
                 /\ \A e \in DIds, o \in Nat :
                       /\ OrderRow(e, o) \in DOMAIN db' <=>
                             OrderRow(e, o) \in DOMAIN db \/ (e = d /\ o = db[DistrictRow(d)].next)
                       /\ NewRow(e, o) \in DOMAIN db' <=>
                             NewRow(e, o) \in DOMAIN db \/ (e = d /\ o = db[DistrictRow(d)].next)
PROOF
  <1> DEFINE d == txn[i].d
             o == txn[i].o
             district == DistrictRow(d)
             row == OrderRow(d, o)
             new == NewRow(d, o)
  <1>1. pc[i] = "updateStock" /\ Commits(i, writes[i])
    BY DEF CommitNewOrder
  <1>2. NewOrderOK(i)
    BY <1>1 DEF IInv, ClientOK, NewOrderAt
  <1>3. /\ d \in DIds /\ txn[i].c \in CIds /\ o \in Nat \ {0} /\ deletes[i] = {}
        /\ o = db[district].next
        /\ {district, row, new} \subseteq DOMAIN writes[i]
        /\ DOMAIN writes[i] \subseteq {district, row, new} \cup StockRows
        /\ writes[i][district] = [db[district] EXCEPT !.next = o + 1]
        /\ writes[i][row] = [c |-> txn[i].c, amount |-> 1, delivered |-> FALSE]
    <2>1. txn[i].d \in DIds /\ txn[i].o = db[district].next
      BY <1>1, <1>2 DEF NewOrderOK
    <2>2. db[district].next \in Nat \ {0}
      BY <2>1, RowKinds DEF IInv, StoreOK, Fits
    <2> QED  BY <1>1, <1>2, <2>1, <2>2 DEF NewOrderOK, Incremented
  <1>4. district \in DOMAIN db /\ db[district] \in [next : Nat \ {0}, ytd : Nat]
    BY <1>3, RowKinds DEF IInv, StoreOK, Fits
  <1>5. row \notin DOMAIN db
    BY <1>3 DEF IInv, StoreOK
  <1>6. /\ DOMAIN db' = DOMAIN db \cup DOMAIN writes[i]
        /\ \A r \in DOMAIN db' : db'[r] = IF r \in DOMAIN writes[i] THEN writes[i][r] ELSE db[r]
    BY <1>1, <1>3, CommittedRows
  <1>7. ended' = [ended EXCEPT ![i] = @ + 1]
    BY <1>1 DEF Commits
  <1>8. /\ district[1] = "district" /\ row[1] = "orders" /\ new[1] = "new_order"
        /\ row \in OrderRows /\ new \in NewRows /\ district \in Rows
    BY <1>3, RowKinds, RowsThereMayBe
  <1>9. /\ db'[district] = [db[district] EXCEPT !.next = o + 1]
        /\ db'[row] = [c |-> txn[i].c, amount |-> 1, delivered |-> FALSE]
    BY <1>3, <1>6
  <1>10. /\ db'[WarehouseRow] = db[WarehouseRow]
         /\ \A e \in DIds : e # d => db'[DistrictRow(e)] = db[DistrictRow(e)]
         /\ \A e \in DIds, p \in Nat : OrderRow(e, p) \in DOMAIN db => db'[OrderRow(e, p)] = db[OrderRow(e, p)]
         /\ \A r \in CustomerRows : db'[r] = db[r]
         /\ \A r : r[1] = "history" =>
               /\ r \in DOMAIN db' <=> r \in DOMAIN db
               /\ r \in DOMAIN db => db'[r] = db[r]
    <2>1. WarehouseRow \in DOMAIN db /\ WarehouseRow \notin DOMAIN writes[i]
      BY <1>3, RowKinds DEF IInv, StoreOK
    <2>2. ASSUME NEW e \in DIds, e # d
          PROVE  DistrictRow(e) \in DOMAIN db /\ DistrictRow(e) \notin DOMAIN writes[i]
      BY <1>3, <2>2, RowKinds DEF IInv, StoreOK
    <2>3. ASSUME NEW e \in DIds, NEW p \in Nat, OrderRow(e, p) \in DOMAIN db
          PROVE  OrderRow(e, p) \notin DOMAIN writes[i]
      BY <1>3, <1>5, <2>3, RowKinds
    <2>4. \A r \in CustomerRows : r \in DOMAIN db /\ r \notin DOMAIN writes[i]
      BY <1>3, RowKinds DEF IInv, StoreOK
    <2>5. \A r : r[1] = "history" => r \notin DOMAIN writes[i]
      BY <1>3, RowKinds
    <2> HIDE DEF d, district
    <2> QED  BY <1>6, <2>1, <2>2, <2>3, <2>4, <2>5
  <1>11. \A e \in DIds : db'[DistrictRow(e)].ytd = db[DistrictRow(e)].ytd
    BY <1>4, <1>9, <1>10
  <1>12. \A e \in DIds : db'[DistrictRow(e)].next = db[DistrictRow(e)].next + (IF e = d THEN 1 ELSE 0)
    <2>1. \A e \in DIds : db[DistrictRow(e)].next \in Nat
      BY RowKinds DEF IInv, StoreOK, Fits
    <2>2. db'[DistrictRow(d)].next = o + 1
      BY <1>4, <1>9
    <2> QED  BY <1>3, <1>10, <2>1, <2>2
  <1>13. ASSUME NEW e \in DIds, NEW p \in Nat
         PROVE  /\ OrderRow(e, p) \in DOMAIN db' <=> OrderRow(e, p) \in DOMAIN db \/ (e = d /\ p = o)
                /\ NewRow(e, p) \in DOMAIN db' <=> NewRow(e, p) \in DOMAIN db \/ (e = d /\ p = o)
    <2>1. OrderRow(e, p) \in DOMAIN writes[i] <=> e = d /\ p = o
      BY <1>3, RowKinds
    <2>2. NewRow(e, p) \in DOMAIN writes[i] <=> e = d /\ p = o
      BY <1>3, RowKinds
    <2> QED  BY <1>6, <2>1, <2>2
  <1>14. \A e \in DIds : History(db', e) = History(db, e)
    BY <1>10, SameHistory
  <1> HIDE DEF d, o, district, row, new
  <1>15. StoreOK'
    <2>1. DOMAIN db' \subseteq Rows
      BY <1>3, <1>6, <1>8, RowsThereMayBe DEF IInv, StoreOK
    <2>2. /\ WarehouseRow \in DOMAIN db'
          /\ \A e \in DIds : DistrictRow(e) \in DOMAIN db'
          /\ CustomerRows \subseteq DOMAIN db'
      BY <1>6 DEF IInv, StoreOK
    <2>3. ASSUME NEW r \in DOMAIN db'
          PROVE  Fits(r, db'[r])
      <3>1. CASE r \notin DOMAIN writes[i]
        BY <1>6, <3>1 DEF IInv, StoreOK
      <3>2. CASE r = district
        <4>1. o + 1 \in Nat \ {0}
          BY <1>3
        <4>2. db'[r] \in [next : Nat \ {0}, ytd : Nat]
          BY <1>4, <1>9, <3>2, <4>1
        <4> QED  BY <1>8, <3>2, <4>2 DEF Fits
      <3>3. CASE r = row
        <4>1. \A c \in CIds : [c |-> c, amount |-> 1, delivered |-> FALSE]
                 \in [c : CIds, amount : Nat, delivered : BOOLEAN]
          OBVIOUS
        <4> QED  BY <1>3, <1>8, <1>9, <3>3, <4>1 DEF Fits
      <3>4. CASE r = new \/ r \in StockRows
        BY <1>8, <3>4, RowKinds DEF Fits
      <3> QED  BY <1>3, <3>1, <3>2, <3>3, <3>4
    <2>4. ASSUME NEW e \in DIds, NEW p \in Nat
          PROVE  /\ OrderRow(e, p) \in DOMAIN db' <=> p \in 1 .. db'[DistrictRow(e)].next - 1
                 /\ NewRow(e, p) \in DOMAIN db' => OrderRow(e, p) \in DOMAIN db'
      <3>1. /\ OrderRow(e, p) \in DOMAIN db <=> p \in 1 .. db[DistrictRow(e)].next - 1
            /\ NewRow(e, p) \in DOMAIN db => OrderRow(e, p) \in DOMAIN db
            /\ db[DistrictRow(e)].next \in Nat
        BY RowKinds DEF IInv, StoreOK, Fits
      <3>2. e = d => o = db[DistrictRow(e)].next
        BY <1>3 DEF district
      <3> QED  BY <1>3, <1>12, <1>13, <3>1, <3>2
    <2>5. \A r \in DOMAIN db' : r[1] = "history" => r[3] < ended'[r[2]]
      <3> SUFFICES ASSUME NEW r \in DOMAIN db', r[1] = "history" PROVE r[3] < ended'[r[2]]
        OBVIOUS
      <3>1. r \in DOMAIN db
        BY <1>10
      <3>2. r[3] < ended[r[2]]
        BY <3>1 DEF IInv, StoreOK
      <3>3. r \in HistoryRows
        BY <3>1, RowKinds DEF IInv, StoreOK, Rows
      <3>4. r[2] \in Clients /\ r[3] \in Nat
        BY <3>3, RowKinds
      <3> QED  BY <1>7, <3>2, <3>4 DEF IInv, StateOK
    <2>6. \A e \in DIds : IsFiniteSet(History(db', e))
      BY <1>14 DEF IInv, StoreOK
    <2> QED  BY <2>1, <2>2, <2>3, <2>4, <2>5, <2>6 DEF StoreOK
  <1>16. ChecksOK'
    <2>1. Check1(db')
      <3>1. [e \in DIds |-> db'[DistrictRow(e)].ytd] = [e \in DIds |-> db[DistrictRow(e)].ytd]
        BY <1>11
      <3> QED  BY <1>10, <3>1 DEF IInv, ChecksOK, Check1
    <2>2. Check5(db')
      <3> SUFFICES ASSUME NEW e \in DIds, NEW p \in Numbered(db', "orders", e)
                   PROVE  db'[OrderRow(e, p)].delivered <=> p \notin Numbered(db', "new_order", e)
        BY DEF Check5
      <3>1. /\ OrderRow(e, p) \in DOMAIN db' /\ p \in Nat
            /\ p \in Numbered(db', "new_order", e) <=> NewRow(e, p) \in DOMAIN db'
        <4>1. DOMAIN db' \subseteq Rows
          BY <1>15 DEF StoreOK
        <4> QED  BY <4>1, NumberedRows
      <3>2. CASE e = d /\ p = o
        BY <1>9, <1>13, <3>1, <3>2 DEF row
      <3>3. CASE ~ (e = d /\ p = o)
        <4>1. OrderRow(e, p) \in DOMAIN db /\ (NewRow(e, p) \in DOMAIN db' <=> NewRow(e, p) \in DOMAIN db)
          BY <1>13, <3>1, <3>3
        <4>2. /\ p \in Numbered(db, "orders", e)
              /\ p \in Numbered(db, "new_order", e) <=> NewRow(e, p) \in DOMAIN db
          BY <4>1, NumberedRows DEF IInv, StoreOK
        <4>3. db[OrderRow(e, p)].delivered <=> p \notin Numbered(db, "new_order", e)
          BY <4>2 DEF IInv, ChecksOK, Check5
        <4>4. db'[OrderRow(e, p)] = db[OrderRow(e, p)]
          BY <1>10, <3>1, <4>1
        <4> QED  BY <3>1, <4>1, <4>2, <4>3, <4>4
      <3> QED  BY <3>2, <3>3
    <2>3. Check9(db')
      BY <1>11, <1>14 DEF IInv, ChecksOK, Check9
    <2> QED  BY <2>1, <2>2, <2>3 DEF ChecksOK
  <1>17. \A j \in Clients \ {i} : Spares(j)
    <2>1. \A e \in DIds : /\ db'[DistrictRow(e)].next \in Nat
                        /\ db[DistrictRow(e)].next <= db'[DistrictRow(e)].next
      BY <1>12, RowKinds DEF IInv, StoreOK, Fits
    <2>2. \A e \in DIds, p \in Nat : NewRow(e, p) \in DOMAIN writes[i] => OrderRow(e, p) \notin DOMAIN db
      <3>1. \A e \in DIds, p \in Nat : NewRow(e, p) \in DOMAIN writes[i] => NewRow(e, p) = new
        BY <1>3, <1>8, RowKinds
      <3>2. \A e \in DIds, p \in Nat : NewRow(e, p) = new => e = d /\ p = o
        BY RowKinds DEF new
      <3> QED  BY <1>5, <3>1, <3>2 DEF row
    <2> QED  BY <1>1, <1>3, <2>1, <2>2, CommitSpares
  <1>18. IInv'
    BY <1>1, <1>15, <1>16, <1>17, SomethingCommitted
  <1> QED  BY <1>3, <1>12, <1>13, <1>18 DEF district

\* One more payment in HISTORY, and one unit more in the warehouse and the district.
LEMMA StepCommitPayment ==
    ASSUME IInv, NEW i \in Clients, CommitPayment(i)
    PROVE  /\ IInv'
           /\ \A e \in DIds : db'[DistrictRow(e)].next = db[DistrictRow(e)].next
           /\ \A row : row[1] \in {"orders", "new_order"} =>
                 (row \in DOMAIN db' <=> row \in DOMAIN db)
PROOF
  <1> DEFINE d == txn[i].d
             district == DistrictRow(d)
             customer == CustomerRow(d, txn[i].c)
             h == HistoryRow(i, ended[i])
             payment == [d |-> d, c |-> txn[i].c]
             written == Put(h, payment, writes[i])
  <1>1. pc[i] = "insertHistory" /\ Commits(i, written)
    BY DEF CommitPayment
  <1>2. /\ d \in DIds /\ txn[i].c \in CIds /\ deletes[i] = {}
        /\ DOMAIN writes[i] = {WarehouseRow, district, customer}
        /\ writes[i][WarehouseRow] = [db[WarehouseRow] EXCEPT !.ytd = @ + 1]
        /\ writes[i][district] = [db[district] EXCEPT !.ytd = @ + 1]
        /\ Fits(customer, writes[i][customer])
    BY <1>1 DEF IInv, ClientOK, PaymentAt, PaymentOK
  <1>3. ended[i] \in Nat /\ ended' = [ended EXCEPT ![i] = @ + 1] /\ DOMAIN ended = Clients
    BY <1>1 DEF Commits, IInv, StateOK
  <1>4. /\ h[1] = "history" /\ h[2] = i /\ h[3] = ended[i] /\ h \in HistoryRows
        /\ district[1] = "district" /\ customer[1] = "customer" /\ customer \in CustomerRows
        /\ WarehouseRow[1] = "warehouse"
    BY <1>2, <1>3, RowKinds, RowsThereMayBe
  <1>5. h \notin DOMAIN db
    BY <1>3, <1>4 DEF IInv, StoreOK
  <1>6. /\ DOMAIN written = {WarehouseRow, district, customer, h}
        /\ written[h] = payment
        /\ \A r \in {WarehouseRow, district, customer} : written[r] = writes[i][r]
    <2> HIDE DEF h, district, customer, payment
    <2> QED  BY <1>2, <1>4 DEF Put
  <1> HIDE DEF written
  <1>7. /\ DOMAIN db' = DOMAIN db \cup DOMAIN written
        /\ \A r \in DOMAIN db' : db'[r] = IF r \in DOMAIN written THEN written[r] ELSE db[r]
    <2>1. Commits(i, written) /\ deletes[i] = {}
      BY <1>1, <1>2
    <2>2. DOMAIN db' = (DOMAIN db \cup DOMAIN written) \ deletes[i]
      BY ONLY <2>1, i \in Clients, CommittedRows
    <2>3. \A r \in DOMAIN db' : db'[r] = IF r \in DOMAIN written THEN written[r] ELSE db[r]
      BY ONLY <2>1, i \in Clients, CommittedRows
    <2> QED  BY ONLY <2>1, <2>2, <2>3
  <1>8. /\ db[WarehouseRow] \in [ytd : Nat]
        /\ \A e \in DIds : DistrictRow(e) \in DOMAIN db /\ db[DistrictRow(e)] \in [next : Nat \ {0}, ytd : Nat]
    BY RowKinds DEF IInv, StoreOK, Fits
  <1>9. /\ db'[WarehouseRow] = [db[WarehouseRow] EXCEPT !.ytd = @ + 1]
        /\ db'[district] = [db[district] EXCEPT !.ytd = @ + 1]
        /\ db'[h] = payment
    <2> HIDE DEF h, district, customer, payment
    <2> QED  BY <1>2, <1>6, <1>7
  <1>10. \A e \in DIds : e # d => db'[DistrictRow(e)] = db[DistrictRow(e)]
    <2>1. \A e \in DIds : e # d => DistrictRow(e) \notin DOMAIN written
      BY <1>4, <1>6, RowKinds
    <2> QED  BY <1>7, <1>8, <2>1
  <1>11. /\ db'[WarehouseRow].ytd = db[WarehouseRow].ytd + 1
         /\ db'[district].ytd = db[district].ytd + 1
         /\ \A e \in DIds : db'[DistrictRow(e)].next = db[DistrictRow(e)].next
    BY <1>2, <1>8, <1>9, <1>10
  <1>12. \A row : row[1] \in {"orders", "new_order"} =>
            /\ row \in DOMAIN db' <=> row \in DOMAIN db
            /\ row \in DOMAIN db => db'[row] = db[row]
    <2>1. \A row : row[1] \in {"orders", "new_order"} => row \notin DOMAIN written
      BY <1>4, <1>6
    <2> QED  BY <1>7, <2>1
  <1>13. \A e \in DIds : History(db', e) = History(db, e) \cup (IF e = d THEN {h} ELSE {})
    <2>1. \A row : row[1] = "history" /\ row # h => row \notin DOMAIN written
      BY <1>4, <1>6
    <2>2. h \in DOMAIN db' /\ db'[h].d = d
      BY <1>6, <1>7, <1>9
    <2>3. ASSUME NEW e \in DIds, NEW row
          PROVE  row \in History(db', e) <=>
                    row \in History(db, e) \/ (row = h /\ e = d)
      <3>1. CASE row = h
        BY <1>4, <1>5, <2>2, <3>1 DEF History
      <3>2. CASE row # h
        BY <1>7, <2>1, <3>2 DEF History
      <3> QED  BY <3>1, <3>2
    <2> QED  BY <2>3
  <1> HIDE DEF d, district, customer, h, payment
  <1>14. StoreOK'
    <2>1. DOMAIN db' \subseteq Rows
      BY <1>2, <1>4, <1>6, <1>7, RowsThereMayBe DEF IInv, StoreOK, district
    <2>2. /\ WarehouseRow \in DOMAIN db'
          /\ \A e \in DIds : DistrictRow(e) \in DOMAIN db'
          /\ CustomerRows \subseteq DOMAIN db'
      BY <1>7 DEF IInv, StoreOK
    <2>3. ASSUME NEW r \in DOMAIN db'
          PROVE  Fits(r, db'[r])
      <3>1. CASE r \notin DOMAIN written
        BY <1>7, <3>1 DEF IInv, StoreOK
      <3>2. CASE r = WarehouseRow
        <4>1. \A v \in [ytd : Nat] : [v EXCEPT !.ytd = @ + 1] \in [ytd : Nat]
          OBVIOUS
        <4> QED  BY <1>4, <1>8, <1>9, <3>2, <4>1 DEF Fits
      <3>3. CASE r = district
        <4>1. \A v \in [next : Nat \ {0}, ytd : Nat] :
                 [v EXCEPT !.ytd = @ + 1] \in [next : Nat \ {0}, ytd : Nat]
          OBVIOUS
        <4>2. db[district] \in [next : Nat \ {0}, ytd : Nat]
          BY <1>2, <1>8 DEF district
        <4> QED  BY <1>4, <1>9, <3>3, <4>1, <4>2 DEF Fits
      <3>4. CASE r = customer
        BY <1>2, <1>6, <1>7, <3>4
      <3>5. CASE r = h
        BY <1>4, <3>5 DEF Fits
      <3> QED  BY <1>6, <3>1, <3>2, <3>3, <3>4, <3>5
    <2>4. ASSUME NEW e \in DIds, NEW p \in Nat
          PROVE  /\ OrderRow(e, p) \in DOMAIN db' <=> p \in 1 .. db'[DistrictRow(e)].next - 1
                 /\ NewRow(e, p) \in DOMAIN db' => OrderRow(e, p) \in DOMAIN db'
      BY <1>11, <1>12, RowKinds DEF IInv, StoreOK
    <2>5. \A r \in DOMAIN db' : r[1] = "history" => r[3] < ended'[r[2]]
      <3> SUFFICES ASSUME NEW r \in DOMAIN db', r[1] = "history" PROVE r[3] < ended'[r[2]]
        OBVIOUS
      <3>1. CASE r = h
        BY <1>3, <1>4, <3>1
      <3>2. CASE r # h
        <4>1. r \in DOMAIN db
          BY <1>4, <1>6, <1>7, <3>2
        <4>2. r[3] < ended[r[2]]
          BY <4>1 DEF IInv, StoreOK
        <4>3. r \in HistoryRows
          BY <4>1, RowKinds DEF IInv, StoreOK, Rows
        <4>4. r[2] \in Clients /\ r[3] \in Nat
          BY <4>3, RowKinds
        <4> QED  BY <1>3, <4>2, <4>4 DEF IInv, StateOK
      <3> QED  BY <3>1, <3>2
    <2>6. \A e \in DIds : IsFiniteSet(History(db', e))
      <3>1. \A e \in DIds : IsFiniteSet(History(db, e))
        BY DEF IInv, StoreOK
      <3>2. \A e \in DIds : History(db', e) = History(db, e) \/ History(db', e) = History(db, e) \cup {h}
        BY <1>13
      <3> QED  BY <3>1, <3>2, FS_AddElement
    <2> QED  BY <2>1, <2>2, <2>3, <2>4, <2>5, <2>6 DEF StoreOK
  <1>15. ChecksOK'
    <2>1. Check1(db')
      <3> DEFINE f == [e \in DIds |-> db[DistrictRow(e)].ytd]
                 g == [e \in DIds |-> db'[DistrictRow(e)].ytd]
      <3>1. IsFiniteSet(DIds)
        BY DistrictsAssumption, FS_Interval DEF DIds
      <3>2. \A e \in DIds : f[e] \in Int /\ g[e] \in Int
        BY <1>2, <1>8, <1>10, <1>11 DEF district
      <3>3. \A e \in DIds \ {d} : f[e] = g[e]
        BY <1>10
      <3>4. g[d] = f[d] + 1
        BY <1>2, <1>11 DEF district
      <3>5. db[WarehouseRow].ytd = SumFunctionOnSet(f, DIds)
        BY DEF IInv, ChecksOK, Check1, SumFunction
      <3> HIDE DEF f, g
      <3>6. IsFiniteSet(DIds \ {d})
        BY <3>1, FS_RemoveElement
      <3>7. SumFunctionOnSet(f, DIds) = f[d] + SumFunctionOnSet(f, DIds \ {d})
        BY <1>2, <3>1, <3>2, SumRemove
      <3>8. SumFunctionOnSet(g, DIds) = g[d] + SumFunctionOnSet(g, DIds \ {d})
        BY <1>2, <3>1, <3>2, SumRemove
      <3>9. SumFunctionOnSet(f, DIds \ {d}) = SumFunctionOnSet(g, DIds \ {d})
        BY <3>3, <3>6, SumSame
      <3>10. SumFunctionOnSet(f, DIds \ {d}) \in Int
        BY <3>2, <3>6, SumType
      <3>11. db'[WarehouseRow].ytd = SumFunctionOnSet(g, DIds)
        BY <1>2, <1>11, <3>2, <3>4, <3>5, <3>7, <3>8, <3>9, <3>10
      <3> QED  BY <3>11 DEF Check1, SumFunction, g
    <2>2. Check5(db')
      <3> SUFFICES ASSUME NEW e \in DIds, NEW p \in Numbered(db', "orders", e)
                   PROVE  db'[OrderRow(e, p)].delivered <=> p \notin Numbered(db', "new_order", e)
        BY DEF Check5
      <3>1. /\ OrderRow(e, p) \in DOMAIN db' /\ p \in Nat
            /\ p \in Numbered(db', "new_order", e) <=> NewRow(e, p) \in DOMAIN db'
        <4>1. DOMAIN db' \subseteq Rows
          BY <1>14 DEF StoreOK
        <4> QED  BY <4>1, NumberedRows
      <3>2. /\ OrderRow(e, p) \in DOMAIN db /\ db'[OrderRow(e, p)] = db[OrderRow(e, p)]
            /\ NewRow(e, p) \in DOMAIN db' <=> NewRow(e, p) \in DOMAIN db
        BY <1>12, <3>1, RowKinds
      <3>3. /\ p \in Numbered(db, "orders", e)
            /\ p \in Numbered(db, "new_order", e) <=> NewRow(e, p) \in DOMAIN db
        BY <3>2, NumberedRows DEF IInv, StoreOK
      <3>4. db[OrderRow(e, p)].delivered <=> p \notin Numbered(db, "new_order", e)
        BY <3>3 DEF IInv, ChecksOK, Check5
      <3> QED  BY <3>1, <3>2, <3>3, <3>4
    <2>3. Check9(db')
      <3> SUFFICES ASSUME NEW e \in DIds
                   PROVE  db'[DistrictRow(e)].ytd = Cardinality(History(db', e))
        BY DEF Check9
      <3>1. db[DistrictRow(e)].ytd = Cardinality(History(db, e)) /\ IsFiniteSet(History(db, e))
        BY DEF IInv, ChecksOK, Check9, StoreOK
      <3>2. CASE e = d
        <4>1. h \notin History(db, e)
          BY <1>5 DEF History
        <4>2. Cardinality(History(db', e)) = Cardinality(History(db, e)) + 1
          BY <1>13, <3>1, <3>2, <4>1, FS_AddElement
        <4> QED  BY <1>11, <3>1, <3>2, <4>2 DEF district
      <3>3. CASE e # d
        BY <1>10, <1>13, <3>1, <3>3
      <3> QED  BY <3>2, <3>3
    <2> QED  BY <2>1, <2>2, <2>3 DEF ChecksOK
  <1>16. \A j \in Clients \ {i} : Spares(j)
    <2>1. \A row \in DOMAIN written : row \in DOMAIN writes[i] \/ row \notin DOMAIN db
      BY <1>2, <1>5, <1>6
    <2>2. \A e \in DIds : db'[DistrictRow(e)].next \in Nat
                          /\ db[DistrictRow(e)].next <= db'[DistrictRow(e)].next
      BY <1>8, <1>11
    <2>3. \A e \in DIds, p \in Nat : NewRow(e, p) \notin DOMAIN written
      BY <1>4, <1>6, RowKinds
    <2> QED  BY <1>1, <1>2, <2>1, <2>2, <2>3, CommitSpares
  <1>17. IInv'
    BY <1>1, <1>14, <1>15, <1>16, SomethingCommitted
  <1> QED  BY <1>11, <1>12, <1>17

\* The orders a delivery has taken have their carriers; no district has lost more
\* than one new order.
LEMMA StepCommitDelivery ==
    ASSUME IInv, NEW i \in Clients, CommitDelivery(i)
    PROVE  /\ IInv'
           /\ \A e \in DIds : db'[DistrictRow(e)].next = db[DistrictRow(e)].next
           /\ \A row : row[1] = "orders" => (row \in DOMAIN db' <=> row \in DOMAIN db)
           /\ \A row \in NewRows : row \in DOMAIN db' => row \in DOMAIN db
           /\ \A row, other \in NewRows : row[2] = other[2] =>
                 row \in DOMAIN db' \/ other \in DOMAIN db' \/ row = other
                 \/ row \notin DOMAIN db \/ other \notin DOMAIN db
PROOF
  <1>1. pc[i] = "getNewOrder" /\ Commits(i, writes[i])
    BY DEF CommitDelivery
  <1>2. DeliveryOK(i)
    BY <1>1 DEF IInv, ClientOK, DeliveryAt
  <1>3. DOMAIN writes[i] \subseteq OrderRows \cup CustomerRows /\ deletes[i] \subseteq NewRows
    BY <1>2 DEF DeliveryOK, InOrder
  <1>4. /\ DOMAIN db' = (DOMAIN db \cup DOMAIN writes[i]) \ deletes[i]
        /\ \A r \in DOMAIN db' : db'[r] = IF r \in DOMAIN writes[i] THEN writes[i][r] ELSE db[r]
    BY <1>1, CommittedRows
  <1>5. ended' = [ended EXCEPT ![i] = @ + 1]
    BY <1>1 DEF Commits
  <1>6. ASSUME NEW r \in DOMAIN writes[i]
        PROVE  r \in DOMAIN db
    <2>1. CASE r \in OrderRows
      BY <1>2, <2>1, RowKinds DEF DeliveryOK, WrittenOK
    <2>2. CASE r \in CustomerRows
      BY <2>2 DEF IInv, StoreOK
    <2> QED  BY <1>3, <2>1, <2>2
  <1>7. DOMAIN db' = DOMAIN db \ deletes[i]
    BY <1>3, <1>4, <1>6, RowKinds
  <1>8. \A r : r[1] \notin {"orders", "customer", "new_order"} =>
           /\ r \in DOMAIN db' <=> r \in DOMAIN db
           /\ r \in DOMAIN db => db'[r] = db[r]
    <2>1. \A r : r[1] \notin {"orders", "customer", "new_order"} =>
             r \notin DOMAIN writes[i] /\ r \notin deletes[i]
      BY <1>3, RowKinds
    <2> QED  BY <1>4, <1>7, <2>1
  <1>9. \A r : r[1] # "new_order" => (r \in DOMAIN db' <=> r \in DOMAIN db)
    BY <1>3, <1>7, RowKinds
  <1>10. db'[WarehouseRow] = db[WarehouseRow] /\ \A e \in DIds : db'[DistrictRow(e)] = db[DistrictRow(e)]
    BY <1>8, RowKinds DEF IInv, StoreOK
  <1>11. \A e \in DIds : History(db', e) = History(db, e)
    <2>1. \A r : r[1] = "history" =>
             /\ r \in DOMAIN db' <=> r \in DOMAIN db
             /\ r \in DOMAIN db => db'[r] = db[r]
      BY <1>8
    <2> QED  BY <2>1, SameHistory
  <1>12. StoreOK'
    <2>1. DOMAIN db' \subseteq Rows
      BY <1>7 DEF IInv, StoreOK
    <2>2. /\ WarehouseRow \in DOMAIN db'
          /\ \A e \in DIds : DistrictRow(e) \in DOMAIN db'
          /\ CustomerRows \subseteq DOMAIN db'
      BY <1>9, RowKinds DEF IInv, StoreOK
    <2>3. ASSUME NEW r \in DOMAIN db'
          PROVE  Fits(r, db'[r])
      <3>1. r \in DOMAIN db /\ Fits(r, db[r])
        BY <1>7 DEF IInv, StoreOK
      <3>2. CASE r \notin DOMAIN writes[i]
        BY <1>4, <3>1, <3>2
      <3>3. CASE r \in DOMAIN writes[i] /\ r \in CustomerRows
        BY <1>2, <1>4, <3>3, RowKinds DEF DeliveryOK, WrittenOK
      <3>4. CASE r \in DOMAIN writes[i] /\ r \in OrderRows
        <4>1. db'[r] = [db[r] EXCEPT !.delivered = TRUE] /\ r[1] = "orders"
          BY <1>2, <1>4, <3>4, RowKinds DEF DeliveryOK, WrittenOK
        <4>2. db[r] \in [c : CIds, amount : Nat, delivered : BOOLEAN]
          BY <3>1, <4>1 DEF Fits
        <4>3. \A v \in [c : CIds, amount : Nat, delivered : BOOLEAN] :
                 [v EXCEPT !.delivered = TRUE] \in [c : CIds, amount : Nat, delivered : BOOLEAN]
          OBVIOUS
        <4> QED  BY <4>1, <4>2, <4>3 DEF Fits
      <3> QED  BY <1>3, <3>2, <3>3, <3>4
    <2>4. ASSUME NEW e \in DIds, NEW p \in Nat
          PROVE  /\ OrderRow(e, p) \in DOMAIN db' <=> p \in 1 .. db'[DistrictRow(e)].next - 1
                 /\ NewRow(e, p) \in DOMAIN db' => OrderRow(e, p) \in DOMAIN db'
      BY <1>7, <1>9, <1>10, RowKinds DEF IInv, StoreOK
    <2>5. \A r \in DOMAIN db' : r[1] = "history" => r[3] < ended'[r[2]]
      <3> SUFFICES ASSUME NEW r \in DOMAIN db', r[1] = "history" PROVE r[3] < ended'[r[2]]
        OBVIOUS
      <3>1. r \in DOMAIN db
        BY <1>7
      <3>2. r[3] < ended[r[2]]
        BY <3>1 DEF IInv, StoreOK
      <3>3. r \in HistoryRows
        BY <3>1, RowKinds DEF IInv, StoreOK, Rows
      <3>4. r[2] \in Clients /\ r[3] \in Nat
        BY <3>3, RowKinds
      <3> QED  BY <1>5, <3>2, <3>4 DEF IInv, StateOK
    <2>6. \A e \in DIds : IsFiniteSet(History(db', e))
      BY <1>11 DEF IInv, StoreOK
    <2> QED  BY <2>1, <2>2, <2>3, <2>4, <2>5, <2>6 DEF StoreOK
  <1>13. ChecksOK'
    <2>1. Check1(db')
      BY <1>10 DEF IInv, ChecksOK, Check1
    <2>2. Check5(db')
      <3> SUFFICES ASSUME NEW e \in DIds, NEW p \in Numbered(db', "orders", e)
                   PROVE  db'[OrderRow(e, p)].delivered <=> p \notin Numbered(db', "new_order", e)
        BY DEF Check5
      <3> DEFINE row == OrderRow(e, p)
                 new == NewRow(e, p)
      <3>1. row \in DOMAIN db' /\ p \in Nat /\ (p \in Numbered(db', "new_order", e) <=> new \in DOMAIN db')
        <4>1. DOMAIN db' \subseteq Rows
          BY <1>12 DEF StoreOK
        <4> QED  BY <4>1, NumberedRows
      <3>2. row \in DOMAIN db /\ row[1] = "orders" /\ row[2] = e /\ row[3] = p
            /\ new[2] = e /\ new[3] = p
        BY <1>7, <3>1, RowKinds
      <3>3. db[row].delivered <=> new \notin DOMAIN db
        <4>1. p \in Numbered(db, "orders", e) /\ (p \in Numbered(db, "new_order", e) <=> new \in DOMAIN db)
          BY <3>2, NumberedRows DEF IInv, StoreOK
        <4> QED  BY <4>1 DEF IInv, ChecksOK, Check5
      <3>4. CASE row \in DOMAIN writes[i]
        <4>1. /\ db'[row] = [db[row] EXCEPT !.delivered = TRUE]
              /\ new \in deletes[i] \/ new \notin DOMAIN db
          BY <1>2, <1>4, <3>1, <3>2, <3>4 DEF DeliveryOK, WrittenOK
        <4>2. db[row] \in [c : CIds, amount : Nat, delivered : BOOLEAN]
          BY <3>2 DEF IInv, StoreOK, Fits
        <4>3. db'[row].delivered = TRUE
          BY <4>1, <4>2
        <4>4. new \notin DOMAIN db'
          BY <1>7, <4>1
        <4> QED  BY <3>1, <4>3, <4>4
      <3>5. CASE row \notin DOMAIN writes[i]
        <4>1. db'[row] = db[row]
          BY <1>4, <3>1, <3>5
        <4>2. new \notin deletes[i]
          BY <1>1, <1>2, <3>2, <3>5 DEF DeliveryOK, DeletedOK
        <4> QED  BY <1>7, <3>1, <3>3, <4>1, <4>2
      <3> QED  BY <3>4, <3>5
    <2>3. Check9(db')
      BY <1>10, <1>11 DEF IInv, ChecksOK, Check9
    <2> QED  BY <2>1, <2>2, <2>3 DEF ChecksOK
  <1>14. \A j \in Clients \ {i} : Spares(j)
    <2>1. \A e \in DIds : db'[DistrictRow(e)].next \in Nat
                          /\ db[DistrictRow(e)].next <= db'[DistrictRow(e)].next
      BY <1>10, RowKinds DEF IInv, StoreOK, Fits
    <2>2. \A e \in DIds, p \in Nat : NewRow(e, p) \notin DOMAIN writes[i]
      BY <1>3, RowKinds
    <2> QED  BY <1>1, <1>3, <2>1, <2>2, CommitSpares
  <1>15. IInv'
    BY <1>1, <1>12, <1>13, <1>14, SomethingCommitted
  <1>16. \A row, other \in deletes[i] : row[2] = other[2] => row = other
    BY <1>2 DEF DeliveryOK, DeletedOK
  <1> QED  BY <1>7, <1>9, <1>10, <1>15, <1>16

-----------------------------------------------------------------------------
(***************************************************************************)
(* The invariant, and what follows from it.                                *)
(***************************************************************************)
LEMMA StepIInv ==
    ASSUME IInv, NEW i \in Clients, Step(i)
    PROVE  IInv'
PROOF
  <1>1. CASE NewOrderStep(i)
    BY <1>1, StepBeginNewOrder, StepIncrementNextOrderId, StepCreateOrder, StepUpdateStock,
       StepCommitNewOrder
    DEF NewOrderStep
  <1>2. CASE PaymentStep(i)
    BY <1>2, StepBeginPayment, StepUpdateWarehouseBalance, StepUpdateDistrictBalance,
       StepUpdatePayingCustomer, StepCommitPayment
    DEF PaymentStep
  <1>3. CASE DeliveryStep(i)
    BY <1>3, StepBeginDelivery, StepGetNewOrder, StepDeleteNewOrder, StepUpdateOrders,
       StepCreditCustomer, StepCommitDelivery
    DEF DeliveryStep
  <1>4. CASE DeadlockDetected(i)
    BY <1>4, StepRaises DEF DeadlockDetected
  <1> QED  BY <1>1, <1>2, <1>3, <1>4 DEF Step

\* A step that changes nothing keeps the invariant.
LEMMA StutterIInv ==
    ASSUME IInv, UNCHANGED vars
    PROVE  IInv'
PROOF
  <1>1. \A i \in Clients : Touched(i)' = Touched(i)
    BY DEF vars, Touched
  <1>2. StateOK' /\ StoreOK' /\ ChecksOK'
    BY DEF IInv, vars, StateOK, StoreOK, ChecksOK, Check1, Check5, Check9, History, Numbered
  <1>3. LocksOK'
    BY <1>1 DEF IInv, LocksOK
  <1>4. \A i \in Clients : Kept(i) /\ Spares(i)
    BY RowKinds DEF IInv, vars, Kept, Spares, StoreOK, Fits
  <1> QED  BY <1>2, <1>3, <1>4, KeptClient DEF IInv

\* What the store and every open transaction look like, for any number of clients
\* and whatever they interleave (postgresdriver.py, doNewOrder, doPayment, doDelivery).
THEOREM Invariant == Spec => []IInv
PROOF
  <1>1. IInv /\ [Next]_vars => IInv'
    BY StepIInv, StutterIInv DEF Next
  <1> QED  BY <1>1, InitIInv, PTL DEF Spec

-----------------------------------------------------------------------------
\* A client begins no transaction after its last.
EndOK ==
    \A i \in Clients :
        /\ ended[i] <= MaxTransactions
        /\ pc[i] \notin {"idle", "aborted"} => ended[i] < MaxTransactions

\* Every step keeps that.
LEMMA StepEndOK ==
    ASSUME IInv, EndOK, [Next]_vars
    PROVE  EndOK'
PROOF
  <1>1. CASE UNCHANGED vars
    BY <1>1 DEF EndOK, vars
  <1>2. ASSUME NEW i \in Clients, Step(i)
        PROVE  EndOK'
    <2>1. ended \in [Clients -> Nat] /\ DOMAIN pc = Clients
      BY DEF IInv, StateOK
    <2>2. CASE ended' = ended /\ \E then : pc' = [pc EXCEPT ![i] = then]
                  /\ (pc[i] \notin {"idle", "aborted"} \/ ended[i] < MaxTransactions \/ then = "aborted")
      BY <2>1, <2>2, DurationAssumption DEF EndOK
    <2>3. CASE \E written : Commits(i, written) /\ pc[i] \notin {"idle", "aborted"}
      BY <2>1, <2>3, DurationAssumption DEF EndOK, Commits
    <2>4. CASE UNCHANGED <<pc, ended>>
      BY <2>4 DEF EndOK
    <2>5. CASE NewOrderStep(i)
      BY <2>2, <2>3, <2>5 DEF NewOrderStep, BeginNewOrder, IncrementNextOrderId, CreateOrder,
         UpdateStock, CommitNewOrder, Begins, Writes, Raises
    <2>6. CASE PaymentStep(i)
      BY <2>2, <2>3, <2>6 DEF PaymentStep, BeginPayment, UpdateWarehouseBalance,
         UpdateDistrictBalance, UpdatePayingCustomer, CommitPayment, Begins, Writes
    <2>7. CASE DeliveryStep(i)
      BY <2>2, <2>3, <2>4, <2>7 DEF DeliveryStep, BeginDelivery, GetNewOrder, DeleteNewOrder,
         UpdateOrders, CreditCustomer, CommitDelivery, Begins, Writes
    <2>8. CASE DeadlockDetected(i)
      BY <2>2, <2>8 DEF DeadlockDetected, Raises
    <2> QED  BY <1>2, <2>5, <2>6, <2>7, <2>8 DEF Step
  <1> QED  BY <1>1, <1>2 DEF Next

\* The invariant says what Consistent does.
LEMMA ConsistentFromIInv ==
    ASSUME IInv, EndOK
    PROVE  Consistent
PROOF
  <1>1. /\ \A d \in DIds : db[DistrictRow(d)].next \in Nat /\ db[DistrictRow(d)].ytd \in Nat
        /\ \A d \in DIds, c \in CIds :
              db[CustomerRow(d, c)].balance \in Int /\ db[CustomerRow(d, c)].paid \in Nat
    <2>1. \A d \in DIds, c \in CIds : CustomerRow(d, c) \in DOMAIN db
      BY RowsThereMayBe DEF IInv, StoreOK
    <2> QED  BY <2>1, RowKinds DEF IInv, StoreOK, Fits
  <1>2. /\ txn \in [Clients -> [d : DIds \cup {0}, c : CIds \cup {0}, o : Nat,
                                balance : Int, paid : Nat]]
        /\ todo \in [Clients -> Seq(Items \cup DIds)]
    BY DEF IInv, StateOK, Txns
  <1>3. \A i \in Clients : pc[i] \in {"idle", "aborted"} => Touched(i) = {}
    BY DEF IInv, ClientOK
  <1>4. ended \in [Clients -> 0 .. MaxTransactions]
    BY DurationAssumption DEF IInv, StateOK, EndOK
  <1> QED  BY <1>1, <1>2, <1>3, <1>4 DEF IInv, LocksOK, ChecksOK, Consistent, TypeOK

\* Whatever the clients' transactions, and whichever of them the server has
\* cancelled, what is committed is consistent: checks 1, 5, 8 and 9 of verify.js.
THEOREM StaysConsistent == Spec => []Consistent
PROOF
  <1>1. Init => EndOK
    BY DurationAssumption DEF Init, EndOK
  <1>2. Spec => []EndOK
    BY <1>1, StepEndOK, Invariant, PTL DEF Spec
  <1> QED  BY <1>2, Invariant, ConsistentFromIInv, PTL

-----------------------------------------------------------------------------
(***************************************************************************)
(* The clients number orders as OrderNumbering says.                       *)
(***************************************************************************)

\* A commit of doNewOrder places one order, a commit of doDelivery delivers at
\* most one of a district, and nothing else changes the numbers.
LEMMA StepNumbering ==
    ASSUME IInv, IInv', [Next]_vars
    PROVE  [Numbering!Next]_(Numbering!vars)
PROOF
  <1>1. /\ DOMAIN db \subseteq Rows /\ DOMAIN db' \subseteq Rows
        /\ \A d \in DIds : db[DistrictRow(d)].next \in Nat
    BY RowKinds DEF IInv, StoreOK, Fits
  <1>2. ASSUME NEW d \in DIds
        PROVE  /\ \A o : o \in Numbered(db, "orders", d) <=> OrderRow(d, o) \in DOMAIN db
               /\ \A o : o \in Numbered(db', "orders", d) <=> OrderRow(d, o) \in DOMAIN db'
               /\ \A o : o \in Numbered(db, "new_order", d) <=> NewRow(d, o) \in DOMAIN db
               /\ \A o : o \in Numbered(db', "new_order", d) <=> NewRow(d, o) \in DOMAIN db'
               /\ Numbered(db, "orders", d) \subseteq Nat
               /\ Numbered(db', "orders", d) \subseteq Nat
               /\ Numbered(db, "new_order", d) \subseteq Nat
               /\ Numbered(db', "new_order", d) \subseteq Nat
    BY <1>1, NumberedRows
  <1>3. CASE UNCHANGED db
    BY <1>3 DEF Numbering!vars, Numbered
  <1>4. ASSUME NEW i \in Clients, CommitNewOrder(i)
        PROVE  Numbering!Next
    <2>1. PICK d \in DIds :
             /\ \A e \in DIds : db'[DistrictRow(e)].next =
                                   db[DistrictRow(e)].next + (IF e = d THEN 1 ELSE 0)
             /\ \A e \in DIds, o \in Nat :
                   /\ OrderRow(e, o) \in DOMAIN db' <=>
                         OrderRow(e, o) \in DOMAIN db \/ (e = d /\ o = db[DistrictRow(d)].next)
                   /\ NewRow(e, o) \in DOMAIN db' <=>
                         NewRow(e, o) \in DOMAIN db \/ (e = d /\ o = db[DistrictRow(d)].next)
      BY <1>4, StepCommitNewOrder
    <2> DEFINE n == db[DistrictRow(d)].next
    <2>2. n \in Nat
      BY <1>1
    <2>3. /\ Numbered(db', "orders", d) = Numbered(db, "orders", d) \cup {n}
          /\ Numbered(db', "new_order", d) = Numbered(db, "new_order", d) \cup {n}
      BY <1>2, <2>1, <2>2
    <2>4. \A e \in DIds \ {d} : /\ Numbered(db', "orders", e) = Numbered(db, "orders", e)
                                /\ Numbered(db', "new_order", e) = Numbered(db, "new_order", e)
      BY <1>2, <2>1
    <2>5. db'[DistrictRow(d)].next = n + 1 /\
          \A e \in DIds \ {d} : db'[DistrictRow(e)].next = db[DistrictRow(e)].next
      BY <1>1, <2>1
    <2>6. Numbering!Place(d)
      BY <2>3, <2>4, <2>5 DEF Numbering!Place
    <2> QED  BY <2>6 DEF Numbering!Next
  <1>5. ASSUME NEW i \in Clients, CommitPayment(i)
        PROVE  UNCHANGED Numbering!vars
    <2>1. /\ \A e \in DIds : db'[DistrictRow(e)].next = db[DistrictRow(e)].next
          /\ \A row : row[1] \in {"orders", "new_order"} => (row \in DOMAIN db' <=> row \in DOMAIN db)
      BY <1>5, StepCommitPayment
    <2>2. \A e \in DIds : /\ Numbered(db', "orders", e) = Numbered(db, "orders", e)
                          /\ Numbered(db', "new_order", e) = Numbered(db, "new_order", e)
      <3>1. \A e, o : /\ OrderRow(e, o) \in DOMAIN db' <=> OrderRow(e, o) \in DOMAIN db
                      /\ NewRow(e, o) \in DOMAIN db' <=> NewRow(e, o) \in DOMAIN db
        BY <2>1, RowKinds
      <3> QED  BY <1>2, <3>1
    <2> QED  BY <2>1, <2>2 DEF Numbering!vars
  <1>6. ASSUME NEW i \in Clients, CommitDelivery(i)
        PROVE  Numbering!Next
    <2>1. /\ \A e \in DIds : db'[DistrictRow(e)].next = db[DistrictRow(e)].next
          /\ \A row : row[1] = "orders" => (row \in DOMAIN db' <=> row \in DOMAIN db)
          /\ \A row \in NewRows : row \in DOMAIN db' => row \in DOMAIN db
          /\ \A row, other \in NewRows : row[2] = other[2] =>
                row \in DOMAIN db' \/ other \in DOMAIN db' \/ row = other
                \/ row \notin DOMAIN db \/ other \notin DOMAIN db
      BY <1>6, StepCommitDelivery
    <2>2. \A e \in DIds : Numbered(db', "orders", e) = Numbered(db, "orders", e)
      <3>1. \A e, o : OrderRow(e, o) \in DOMAIN db' <=> OrderRow(e, o) \in DOMAIN db
        BY <2>1, RowKinds
      <3> QED  BY <1>2, <3>1
    <2>3. \A e \in DIds : Numbered(db', "new_order", e) \subseteq Numbered(db, "new_order", e)
      BY <1>2, <2>1, RowsThereMayBe
    <2>4. ASSUME NEW e \in DIds,
                 NEW o \in Numbered(db, "new_order", e) \ Numbered(db', "new_order", e),
                 NEW p \in Numbered(db, "new_order", e) \ Numbered(db', "new_order", e)
          PROVE  o = p
      <3>1. o \in Nat /\ p \in Nat
        BY <1>2
      <3>2. /\ NewRow(e, o) \in DOMAIN db /\ NewRow(e, o) \notin DOMAIN db'
            /\ NewRow(e, p) \in DOMAIN db /\ NewRow(e, p) \notin DOMAIN db'
        BY <1>2
      <3>3. NewRow(e, o) = NewRow(e, p)
        BY <2>1, <3>1, <3>2, RowKinds, RowsThereMayBe
      <3> QED  BY <3>3 DEF NewRow
    <2>5. Numbering!Deliver
      <3>1. [d \in DIds |-> Numbered(db', "new_order", d)] \in [DIds -> SUBSET Nat]
        BY <1>2
      <3>2. /\ [d \in DIds |-> db'[DistrictRow(d)].next] = [d \in DIds |-> db[DistrictRow(d)].next]
            /\ [d \in DIds |-> Numbered(db', "orders", d)] = [d \in DIds |-> Numbered(db, "orders", d)]
        BY <2>1, <2>2
      <3>3. \A e \in DIds :
               /\ [d \in DIds |-> Numbered(db', "new_order", d)][e]
                     \subseteq [d \in DIds |-> Numbered(db, "new_order", d)][e]
               /\ \A o, p \in [d \in DIds |-> Numbered(db, "new_order", d)][e]
                                 \ [d \in DIds |-> Numbered(db', "new_order", d)][e] : o = p
        BY <2>3, <2>4
      <3> QED  BY <3>1, <3>2, <3>3 DEF Numbering!Deliver
    <2> QED  BY <2>5 DEF Numbering!Next
  <1>7. ASSUME NEW i \in Clients, Step(i)
        PROVE  \/ UNCHANGED db \/ CommitNewOrder(i) \/ CommitPayment(i) \/ CommitDelivery(i)
    BY <1>7 DEF Step, NewOrderStep, BeginNewOrder, IncrementNextOrderId, CreateOrder, UpdateStock,
       PaymentStep, BeginPayment, UpdateWarehouseBalance, UpdateDistrictBalance,
       UpdatePayingCustomer, DeliveryStep, BeginDelivery, GetNewOrder, DeleteNewOrder,
       UpdateOrders, CreditCustomer, DeadlockDetected, Writes, Raises
  <1>8. UNCHANGED vars => UNCHANGED db
    BY DEF vars
  <1> QED  BY <1>3, <1>4, <1>5, <1>6, <1>7, <1>8 DEF Next

\* The loaded database is an initial state of OrderNumbering.
LEMMA InitNumbering ==
    ASSUME IInv
    PROVE  Numbering!Init
PROOF
  <1>1. ASSUME NEW d \in DIds
        PROVE  /\ db[DistrictRow(d)].next \in Nat \ {0}
               /\ Numbered(db, "orders", d) = 1 .. db[DistrictRow(d)].next - 1
               /\ Numbered(db, "new_order", d) \subseteq Nat
               /\ Numbered(db, "new_order", d) \subseteq Numbered(db, "orders", d)
    <2>1. db[DistrictRow(d)].next \in Nat \ {0}
      BY RowKinds DEF IInv, StoreOK, Fits
    <2>2. /\ \A o : o \in Numbered(db, "orders", d) <=> OrderRow(d, o) \in DOMAIN db
          /\ \A o : o \in Numbered(db, "new_order", d) <=> NewRow(d, o) \in DOMAIN db
          /\ Numbered(db, "orders", d) \subseteq Nat
          /\ Numbered(db, "new_order", d) \subseteq Nat
      BY NumberedRows DEF IInv, StoreOK
    <2>3. \A o \in Nat : /\ OrderRow(d, o) \in DOMAIN db <=> o \in 1 .. db[DistrictRow(d)].next - 1
                         /\ NewRow(d, o) \in DOMAIN db => OrderRow(d, o) \in DOMAIN db
      BY DEF IInv, StoreOK
    <2>4. 1 .. db[DistrictRow(d)].next - 1 \subseteq Nat
      BY <2>1
    <2> QED  BY <2>1, <2>2, <2>3, <2>4
  <1> QED  BY <1>1 DEF Numbering!Init

\* NumbersOrders: the clients of Postgres, with what they read without a lock,
\* implement the numbering of orders.
THEOREM ImplementsNumbering == Spec => NumbersOrders
PROOF
  <1>1. Init => Numbering!Init
    BY InitIInv, InitNumbering
  <1>2. IInv /\ IInv' /\ [Next]_vars => [Numbering!Next]_(Numbering!vars)
    BY StepNumbering
  <1> QED  BY <1>1, <1>2, Invariant, PTL DEF Spec, NumbersOrders, Numbering!Spec

-----------------------------------------------------------------------------
(***************************************************************************)
(* The order in which payments, deliveries and the first statements of new *)
(* orders take their locks.                                                *)
(***************************************************************************)
Rank(row) ==
    CASE row[1] = "warehouse" -> 0
      [] row[1] = "district"  -> 1
      [] row[1] = "new_order" -> 3 * row[2]
      [] row[1] = "orders"    -> 3 * row[2] + 1
      [] row[1] = "customer"  -> 3 * row[2] + 2
      [] OTHER                -> 0

\* The lock a client waits for ranks above those it holds.
LEMMA Ranks ==
    /\ Rank(WarehouseRow) = 0
    /\ \A d : Rank(DistrictRow(d)) = 1
    /\ \A d, o : Rank(NewRow(d, o)) = 3 * d /\ Rank(OrderRow(d, o)) = 3 * d + 1
    /\ \A d, c : Rank(CustomerRow(d, c)) = 3 * d + 2
PROOF BY RowKinds DEF Rank

\* A client that is not at a stock row wants a row that ranks above all it has, and
\* has no stock row.
LEMMA WantsAbove ==
    ASSUME IInv, NEW i \in Clients, pc[i] # "updateStock", NEW row \in Wanted(i)
    PROVE  /\ Rank(row) \in Nat
           /\ \A r \in Touched(i) : Rank(r) < Rank(row) /\ r[1] # "stock"
PROOF
  <1>1. pc[i] \in Statements
    BY DEF IInv, StateOK
  <1>2. CASE pc[i] \in NewOrderAt
    <2>1. /\ txn[i].d \in DIds /\ txn[i].o \in Nat /\ deletes[i] = {}
          /\ pc[i] = "incrementNextOrderId" => DOMAIN writes[i] = {}
          /\ pc[i] = "createOrder" => DOMAIN writes[i] = {DistrictRow(txn[i].d)}
      <3>1. txn[i] \in Txns
        BY DEF IInv, StateOK
      <3>2. txn[i].o \in Nat
        BY <3>1 DEF Txns
      <3> QED  BY <1>2, <3>2 DEF IInv, ClientOK, NewOrderOK
    <2>2. CASE pc[i] = "incrementNextOrderId"
      BY <2>1, <2>2, Ranks DEF Wanted, Touched
    <2>3. CASE pc[i] = "createOrder"
      <3>1. row = OrderRow(txn[i].d, txn[i].o) /\ Touched(i) = {DistrictRow(txn[i].d)}
        BY <2>1, <2>3 DEF Wanted, Touched
      <3>2. Rank(row) = 3 * txn[i].d + 1 /\ txn[i].d \in Nat /\ txn[i].d >= 1
        BY <2>1, <3>1, Ranks DEF DIds
      <3> QED  BY <3>1, <3>2, Ranks, RowKinds
    <2> QED  BY <1>2, <2>2, <2>3 DEF NewOrderAt
  <1>3. CASE pc[i] \in PaymentAt
    <2>1. PaymentOK(i)
      BY <1>3 DEF IInv, ClientOK
    <2>2. txn[i].d \in Nat /\ txn[i].d >= 1 /\ deletes[i] = {}
      BY <2>1 DEF PaymentOK, DIds
    <2>3. CASE pc[i] = "updateWarehouseBalance"
      <3>1. row = WarehouseRow /\ Touched(i) = {}
        BY <2>1, <2>3 DEF Wanted, Touched, PaymentOK
      <3> QED  BY <3>1, Ranks
    <2>4. CASE pc[i] = "updateDistrictBalance"
      <3>1. row = DistrictRow(txn[i].d) /\ Touched(i) = {WarehouseRow}
        BY <2>1, <2>4 DEF Wanted, Touched, PaymentOK
      <3> QED  BY <3>1, Ranks, RowKinds
    <2>5. CASE pc[i] = "updateCustomer"
      <3>1. row = CustomerRow(txn[i].d, txn[i].c) /\ Touched(i) = {WarehouseRow, DistrictRow(txn[i].d)}
        BY <2>1, <2>5 DEF Wanted, Touched, PaymentOK
      <3>2. Rank(row) = 3 * txn[i].d + 2
        BY <3>1, Ranks
      <3> QED  BY <2>2, <3>1, <3>2, Ranks, RowKinds
    <2>6. CASE pc[i] = "insertHistory"
      BY <2>6 DEF Wanted
    <2> QED  BY <1>3, <2>3, <2>4, <2>5, <2>6 DEF PaymentAt
  <1>4. CASE pc[i] \in DeliveryAt
    <2> DEFINE d == txn[i].d
    <2>1. DeliveryOK(i) /\ pc[i] # "getNewOrder"
      BY <1>4 DEF IInv, ClientOK, Wanted
    <2>2. /\ d \in Nat /\ d >= 1 /\ AtOrder(i)
          /\ \A r \in Touched(i) : r \in OrderRows \cup CustomerRows \cup NewRows /\ r[2] <= d
      BY <2>1 DEF DeliveryOK, InOrder, AtOrder, Touched, DIds
    <2>3. ASSUME NEW r \in Touched(i), r[2] # d
          PROVE  Rank(r) < 3 * d /\ r[1] # "stock"
      <3>1. r[2] \in Nat /\ r[2] < d
        BY <2>2, <2>3, RowKinds DEF DIds
      <3>2. Rank(r) <= 3 * r[2] + 2
        BY <2>2, <3>1, RowKinds DEF Rank
      <3>3. Rank(r) \in Nat
        BY <2>2, <3>1, RowKinds DEF Rank
      <3> QED  BY <2>2, <3>1, <3>2, <3>3, RowKinds
    <2>4. CASE pc[i] = "deleteNewOrder"
      <3>1. row = NewRow(d, txn[i].o) /\ \A r \in Touched(i) : r[2] # d
        BY <2>2, <2>4 DEF Wanted, AtOrder
      <3> QED  BY <2>2, <2>3, <3>1, Ranks
    <2>5. CASE pc[i] = "updateOrders"
      <3>1. row = OrderRow(d, txn[i].o) /\ \A r \in Touched(i) : r[2] = d => r = NewRow(d, txn[i].o)
        BY <2>2, <2>5 DEF Wanted, AtOrder
      <3>2. Rank(row) = 3 * d + 1 /\ Rank(NewRow(d, txn[i].o)) = 3 * d /\ NewRow(d, txn[i].o)[1] # "stock"
        BY <3>1, Ranks, RowKinds
      <3>3. \A r \in Touched(i) : Rank(r) \in Int
        BY <2>2, RowKinds DEF Rank, DIds
      <3> QED  BY <2>2, <2>3, <3>1, <3>2, <3>3
    <2>6. CASE pc[i] = "creditCustomer"
      <3>1. /\ row = CustomerRow(d, txn[i].c)
            /\ \A r \in Touched(i) : r[2] = d => r \in {NewRow(d, txn[i].o), OrderRow(d, txn[i].o)}
        BY <2>2, <2>6 DEF Wanted, AtOrder
      <3>2. /\ Rank(row) = 3 * d + 2 /\ Rank(NewRow(d, txn[i].o)) = 3 * d
            /\ Rank(OrderRow(d, txn[i].o)) = 3 * d + 1
            /\ NewRow(d, txn[i].o)[1] # "stock" /\ OrderRow(d, txn[i].o)[1] # "stock"
        BY <3>1, Ranks, RowKinds
      <3>3. \A r \in Touched(i) : Rank(r) \in Int
        BY <2>2, RowKinds DEF Rank, DIds
      <3> QED  BY <2>2, <2>3, <3>1, <3>2, <3>3
    <2> QED  BY <1>4, <2>1, <2>4, <2>5, <2>6 DEF DeliveryAt
  <1>5. CASE pc[i] \in {"idle", "aborted"}
    BY <1>5 DEF Wanted
  <1> QED  BY <1>1, <1>2, <1>3, <1>4, <1>5 DEF Statements

\* On a cycle, whoever waits for a client that is not at a stock row is not at one
\* either, and wants a row of lower rank: there would be no first.
LEMMA StockDeadlocks ==
    ASSUME IInv
    PROVE  OnlyStockDeadlocks
PROOF
  <1> SUFFICES ASSUME NEW i \in Clients, Deadlocked(i), pc[i] # "updateStock"
               PROVE  FALSE
    BY DEF OnlyStockDeadlocks
  <1>1. PICK S \in SUBSET Clients :
           /\ i \in S
           /\ \A j \in S : (\E k \in S : WaitsFor(j, k)) /\ (\E k \in S : WaitsFor(k, j))
    BY DEF Deadlocked
  <1> DEFINE T == {j \in S : pc[j] # "updateStock"}
             ranks == UNION {{Rank(row) : row \in Wanted(j)} : j \in T}
  <1>2. ASSUME NEW j \in T
        PROVE  \E row \in Wanted(j) : TRUE
    BY <1>1 DEF WaitsFor
  <1>3. ranks # {}
    <2>1. i \in T
      BY <1>1
    <2>2. PICK row \in Wanted(i) : TRUE
      BY <1>2, <2>1
    <2>3. Rank(row) \in {Rank(r) : r \in Wanted(i)}
      OBVIOUS
    <2> QED  BY <2>1, <2>3
  <1>4. \A j \in T : \A row \in Wanted(j) : Rank(row) \in Nat
    BY <1>1, WantsAbove
  <1>5. ranks \subseteq Nat
    BY <1>4
  <1>6. PICK n \in ranks : \A m \in ranks : n <= m
    BY <1>3, <1>5, LeastNatural
  <1>7. PICK j \in T : \E row \in Wanted(j) : Rank(row) = n
    OBVIOUS
  <1>8. PICK k \in S : WaitsFor(k, j)
    BY <1>1
  <1>9. PICK r \in Wanted(k) : r \in Touched(j)
    BY <1>8 DEF WaitsFor
  <1>10. Rank(r) < n /\ r[1] # "stock"
    BY <1>7, <1>9, WantsAbove
  <1>11. pc[k] # "updateStock"
    BY <1>9, <1>10, RowKinds DEF Wanted
  <1>12. Rank(r) \in ranks
    BY <1>9, <1>11
  <1> QED  BY <1>5, <1>6, <1>10, <1>12

\* For any number of clients and districts, the server has nobody to cancel but a
\* doNewOrder that waits for a stock row.
THEOREM DeadlocksAtStock == Spec => []OnlyStockDeadlocks
PROOF
  <1>1. IInv => OnlyStockDeadlocks
    BY StockDeadlocks
  <1> QED  BY <1>1, Invariant, PTL
============================================================================
