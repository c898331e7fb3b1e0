-------------------------- MODULE TpccClients_proofs --------------------------
(***************************************************************************)
(* Any number of clients of the SQLite, Neo4j or TypeDB 2 driver, any      *)
(* number of districts, customers, items and calls: which of TPC-C's       *)
(* consistency checks each driver keeps.                                   *)
(*                                                                         *)
(* The arguments differ with what protects a transaction.  TypeDB: one     *)
(* that commits changes rows that still are what its snapshot says, so it  *)
(* commits what it would have written then.  SQLite: who holds the         *)
(* RESERVED lock sees a consistent database, which is to be the next one.  *)
(* Neo4j: the rows a transaction has written are locked, so what it has    *)
(* added to them is still what it will add.                                *)
(***************************************************************************)
EXTENDS TpccClients, SumFacts

-----------------------------------------------------------------------------
(***************************************************************************)
(* The rows and their values, whichever the driver.                        *)
(***************************************************************************)
BaseRows ==
    {WarehouseRow} \cup {DistrictRow(d) : d \in DIds} \cup {StockRow(n) : n \in Items}
        \cup {CustomerRow(d, c) : d \in DIds, c \in CIds}
        \cup {OrderRow(d, o) : d \in DIds, o \in CIds}

OrderFits(row, value) ==
    /\ row[2] \in DIds /\ row[3] \in Nat
    /\ {"c", "amount", "delivered"} \subseteq DOMAIN value
    /\ value.c \in CIds /\ value.amount \in Int /\ value.delivered \in BOOLEAN

Fits(row, value) ==
    /\ row[1] = "warehouse" => value \in [ytd : Int]
    /\ row[1] = "district" => value \in [next : Nat \ {0}, ytd : Int]
    /\ row[1] = "customer" => value \in [balance : Int, paid : Int]
    /\ row[1] = "orders" => OrderFits(row, value)
    /\ row[1] = "stock" => value \in [ytd : Int, count : Int]
    /\ row[1] = "history" => value \in [d : DIds, c : CIds]
    /\ value # Gone

StoreOK(rows) ==
    /\ BaseRows \subseteq DOMAIN rows
    /\ \A row \in DOMAIN rows : Fits(row, rows[row])

\* Every order of a district has increased D_NEXT_O_ID once.
Counted(rows) ==
    \A d \in DIds :
        /\ IsFiniteSet(OrdersOf(rows, d))
        /\ rows[DistrictRow(d)].next = Cardinality(OrdersOf(rows, d)) + 1

HistoryOK(rows) ==
    \A d \in DIds :
        /\ IsFiniteSet(History(rows, d))
        /\ rows[DistrictRow(d)].ytd = Cardinality(History(rows, d))

LinesIn(rows, n) ==
    {row \in DOMAIN rows : /\ row[1] = "orders"
                           /\ "items" \in DOMAIN rows[row]
                           /\ n \in ToSet(rows[row].items)}

StockOK(rows) ==
    \A n \in Items :
        /\ IsFiniteSet(LinesIn(rows, n))
        /\ rows[StockRow(n)].count = Cardinality(LinesIn(rows, n))

BalancesOK(rows) ==
    \A d \in DIds, c \in CIds :
        rows[CustomerRow(d, c)].balance + rows[CustomerRow(d, c)].paid =
            SumFunction([row \in CarriedTo(rows, d, c) |-> rows[row].amount])

\* What a client asks for.
RequestsOK ==
    /\ DOMAIN request = Clients /\ DOMAIN pc = Clients
    /\ \A i \in Clients :
          /\ request[i] \in Requests \cup {NoRequest}
          /\ pc[i] = "idle" <=> request[i] = NoRequest

EndedOK ==
    /\ ended \in [Clients -> 0 .. MaxTransactions]
    /\ \A i \in Clients : pc[i] # "idle" => ended[i] < MaxTransactions

-----------------------------------------------------------------------------
(***************************************************************************)
(* What makes the rows after a step keep these, from the ones before it.   *)
(***************************************************************************)

\* The rows of a table are the same.
SameTable(table, rows, then) ==
    \A row : row[1] = table =>
        /\ row \in DOMAIN then <=> row \in DOMAIN rows
        /\ row \in DOMAIN rows => then[row] = rows[row]

\* What the rows after a write are.
LEMMA WrittenIs ==
    ASSUME NEW changes, NEW rows
    PROVE  LET then == Without(Overlay(changes, rows)) IN
           \A row : /\ row \in DOMAIN then <=>
                          \/ row \in DOMAIN changes /\ changes[row] # Gone
                          \/ row \in DOMAIN rows \ DOMAIN changes /\ rows[row] # Gone
                    /\ row \in DOMAIN then =>
                          then[row] = IF row \in DOMAIN changes THEN changes[row] ELSE rows[row]
PROOF BY DEF Without, Restrict, Overlay

\* What a row's key says.
LEMMA RowKeys ==
    /\ WarehouseRow[1] = "warehouse"
    /\ \A d : DistrictRow(d)[1] = "district" /\ DistrictRow(d)[2] = d
    /\ \A d, c : CustomerRow(d, c)[1] = "customer" /\ CustomerRow(d, c)[2] = d /\ CustomerRow(d, c)[3] = c
    /\ \A n : StockRow(n)[1] = "stock" /\ StockRow(n)[3] = n
    /\ \A d, o : OrderRow(d, o)[1] = "orders" /\ OrderRow(d, o)[2] = d /\ OrderRow(d, o)[3] = o
    /\ \A d, o : NewRow(d, o)[1] = "new_order" /\ NewRow(d, o)[2] = d /\ NewRow(d, o)[3] = o
    /\ \A i, n : HistoryRow(i, n)[1] = "history" /\ HistoryRow(i, n)[2] = i /\ HistoryRow(i, n)[3] = n
PROOF BY DEF WarehouseRow, DistrictRow, CustomerRow, StockRow, OrderRow, NewRow, HistoryRow

\* Rows there always are.
LEMMA BaseFits ==
    ASSUME NEW rows, StoreOK(rows)
    PROVE  /\ WarehouseRow \in DOMAIN rows /\ rows[WarehouseRow] \in [ytd : Int]
           /\ \A d \in DIds : /\ DistrictRow(d) \in DOMAIN rows
                              /\ rows[DistrictRow(d)] \in [next : Nat \ {0}, ytd : Int]
           /\ \A d \in DIds, c \in CIds : /\ CustomerRow(d, c) \in DOMAIN rows
                                          /\ rows[CustomerRow(d, c)] \in [balance : Int, paid : Int]
           /\ \A n \in Items : /\ StockRow(n) \in DOMAIN rows
                                /\ rows[StockRow(n)] \in [ytd : Int, count : Int]
PROOF
  <1>1. /\ WarehouseRow \in DOMAIN rows
        /\ \A d \in DIds : DistrictRow(d) \in DOMAIN rows
        /\ \A d \in DIds, c \in CIds : CustomerRow(d, c) \in DOMAIN rows
        /\ \A n \in Items : StockRow(n) \in DOMAIN rows
    BY DEF StoreOK, BaseRows
  <1> QED  BY <1>1, RowKeys DEF StoreOK, Fits

\* W_YTD and the D_YTD stay what they are.
LEMMA SameCheck1 ==
    ASSUME NEW rows, NEW then, Check1(rows),
           then[WarehouseRow].ytd = rows[WarehouseRow].ytd,
           \A d \in DIds : then[DistrictRow(d)].ytd = rows[DistrictRow(d)].ytd
    PROVE  Check1(then)
PROOF
  <1>1. [d \in DIds |-> then[DistrictRow(d)].ytd] = [d \in DIds |-> rows[DistrictRow(d)].ytd]
    OBVIOUS
  <1> QED  BY <1>1 DEF Check1

\* A payment adds as much to the one as to the others.
LEMMA PaidCheck1 ==
    ASSUME NEW rows, NEW then, Check1(rows), NEW e \in DIds,
           \A d \in DIds : rows[DistrictRow(d)].ytd \in Int,
           then[WarehouseRow].ytd = rows[WarehouseRow].ytd + 1,
           then[DistrictRow(e)].ytd = rows[DistrictRow(e)].ytd + 1,
           \A d \in DIds \ {e} : then[DistrictRow(d)].ytd = rows[DistrictRow(d)].ytd
    PROVE  Check1(then)
PROOF
  <1> DEFINE f == [d \in DIds |-> rows[DistrictRow(d)].ytd]
             g == [d \in DIds |-> then[DistrictRow(d)].ytd]
  <1>1. IsFiniteSet(DIds)
    BY FS_Interval, DistrictsAssumption DEF DIds
  <1>2. \A d \in DIds : f[d] \in Int /\ g[d] \in Int
    OBVIOUS
  <1>3. \A d \in DIds \ {e} : g[d] = f[d]
    OBVIOUS
  <1>4. g[e] - f[e] = 1
    OBVIOUS
  <1>5. DOMAIN f = DIds /\ DOMAIN g = DIds
    OBVIOUS
  <1>6. rows[WarehouseRow].ytd = SumFunctionOnSet(f, DIds)
    BY <1>5 DEF Check1, SumFunction
  <1> HIDE DEF f, g
  <1>7. SumFunctionOnSet(g, DIds) = SumFunctionOnSet(f, DIds) + 1
    BY <1>1, <1>2, <1>3, <1>4, SumChange
  <1>8. then[WarehouseRow].ytd = SumFunctionOnSet(g, DIds)
    BY <1>6, <1>7
  <1> QED  BY <1>5, <1>8 DEF Check1, SumFunction, g

\* The same rows of HISTORY, and the same sums of the districts.
LEMMA SameHistory ==
    ASSUME NEW rows, NEW then, HistoryOK(rows), SameTable("history", rows, then),
           \A d \in DIds : then[DistrictRow(d)].ytd = rows[DistrictRow(d)].ytd
    PROVE  HistoryOK(then)
PROOF
  <1>1. \A d \in DIds : History(then, d) = History(rows, d)
    BY DEF History, SameTable
  <1> QED  BY <1>1 DEF HistoryOK

\* A payment adds a row to HISTORY and one to the sum of its district.
LEMMA PaidHistory ==
    ASSUME NEW rows, NEW then, HistoryOK(rows), NEW e \in DIds, NEW receipt,
           receipt[1] = "history", receipt \notin DOMAIN rows, receipt \in DOMAIN then,
           then[receipt].d = e,
           \A row : row[1] = "history" /\ row # receipt =>
               /\ row \in DOMAIN then <=> row \in DOMAIN rows
               /\ row \in DOMAIN rows => then[row] = rows[row],
           then[DistrictRow(e)].ytd = rows[DistrictRow(e)].ytd + 1,
           \A d \in DIds \ {e} : then[DistrictRow(d)].ytd = rows[DistrictRow(d)].ytd
    PROVE  HistoryOK(then)
PROOF
  <1>1. History(then, e) = History(rows, e) \cup {receipt} /\ receipt \notin History(rows, e)
    BY DEF History
  <1>2. \A d \in DIds \ {e} : History(then, d) = History(rows, d)
    BY DEF History
  <1>3. /\ IsFiniteSet(History(then, e))
        /\ Cardinality(History(then, e)) = Cardinality(History(rows, e)) + 1
    BY <1>1, FS_AddElement DEF HistoryOK
  <1> QED  BY <1>2, <1>3 DEF HistoryOK

\* Orders have the lines they had, and the stock counts what it did.
LEMMA SameStock ==
    ASSUME NEW rows, NEW then, StockOK(rows),
           \A row : row[1] = "orders" =>
               /\ row \in DOMAIN then <=> row \in DOMAIN rows
               /\ row \in DOMAIN rows =>
                      /\ "items" \in DOMAIN then[row] <=> "items" \in DOMAIN rows[row]
                      /\ then[row].items = rows[row].items,
           \A n \in Items : then[StockRow(n)].count = rows[StockRow(n)].count
    PROVE  StockOK(then)
PROOF
  <1>1. \A n \in Items : LinesIn(then, n) = LinesIn(rows, n)
    BY DEF LinesIn
  <1> QED  BY <1>1 DEF StockOK

\* A new order adds one to the count of every item it has a line for.
LEMMA PlacedStock ==
    ASSUME NEW rows, NEW then, StockOK(rows), NEW order, NEW items,
           order[1] = "orders", order \notin DOMAIN rows, order \in DOMAIN then,
           "items" \in DOMAIN then[order], then[order].items = items,
           \A row : row[1] = "orders" /\ row # order =>
               /\ row \in DOMAIN then <=> row \in DOMAIN rows
               /\ row \in DOMAIN rows => then[row] = rows[row],
           \A n \in Items : then[StockRow(n)].count =
               IF n \in ToSet(items) THEN rows[StockRow(n)].count + 1 ELSE rows[StockRow(n)].count
    PROVE  StockOK(then)
PROOF
  <1> SUFFICES ASSUME NEW n \in Items
               PROVE  /\ IsFiniteSet(LinesIn(then, n))
                      /\ then[StockRow(n)].count = Cardinality(LinesIn(then, n))
    BY DEF StockOK
  <1>1. CASE n \in ToSet(items)
    <2>1. LinesIn(then, n) = LinesIn(rows, n) \cup {order} /\ order \notin LinesIn(rows, n)
      BY <1>1 DEF LinesIn
    <2>2. /\ IsFiniteSet(LinesIn(rows, n))
          /\ rows[StockRow(n)].count = Cardinality(LinesIn(rows, n))
      BY DEF StockOK
    <2>3. /\ IsFiniteSet(LinesIn(then, n))
          /\ Cardinality(LinesIn(then, n)) = Cardinality(LinesIn(rows, n)) + 1
      BY <2>1, <2>2, FS_AddElement
    <2> QED  BY <1>1, <2>2, <2>3
  <1>2. CASE n \notin ToSet(items)
    <2>1. LinesIn(then, n) = LinesIn(rows, n)
      BY <1>2 DEF LinesIn
    <2> QED  BY <1>2, <2>1 DEF StockOK
  <1> QED  BY <1>1, <1>2

\* The same orders, and D_NEXT_O_ID.
LEMMA SameCount ==
    ASSUME NEW rows, NEW then, Counted(rows),
           \A row : row[1] = "orders" => (row \in DOMAIN then <=> row \in DOMAIN rows),
           \A d \in DIds : then[DistrictRow(d)].next = rows[DistrictRow(d)].next
    PROVE  Counted(then)
PROOF
  <1>1. \A d \in DIds : OrdersOf(then, d) = OrdersOf(rows, d)
    BY DEF OrdersOf
  <1> QED  BY <1>1 DEF Counted

\* One order more, and D_NEXT_O_ID increased.
LEMMA PlacedCount ==
    ASSUME NEW rows, NEW then, Counted(rows), NEW e \in DIds, NEW order,
           order[1] = "orders", order[2] = e, order \notin DOMAIN rows, order \in DOMAIN then,
           \A row : row[1] = "orders" /\ row # order => (row \in DOMAIN then <=> row \in DOMAIN rows),
           then[DistrictRow(e)].next = rows[DistrictRow(e)].next + 1,
           \A d \in DIds \ {e} : then[DistrictRow(d)].next = rows[DistrictRow(d)].next
    PROVE  Counted(then)
PROOF
  <1>1. OrdersOf(then, e) = OrdersOf(rows, e) \cup {order} /\ order \notin OrdersOf(rows, e)
    BY DEF OrdersOf
  <1>2. \A d \in DIds \ {e} : OrdersOf(then, d) = OrdersOf(rows, d)
    BY DEF OrdersOf
  <1>3. IsFiniteSet(OrdersOf(rows, e)) /\ rows[DistrictRow(e)].next = Cardinality(OrdersOf(rows, e)) + 1
    BY DEF Counted
  <1>4. /\ IsFiniteSet(OrdersOf(then, e))
        /\ Cardinality(OrdersOf(then, e)) = Cardinality(OrdersOf(rows, e)) + 1
    BY <1>1, <1>3, FS_AddElement
  <1> QED  BY <1>2, <1>3, <1>4 DEF Counted

\* The same delivered orders, and the same sums of the customers.
LEMMA SameBalances ==
    ASSUME NEW rows, NEW then, BalancesOK(rows),
           \A d \in DIds, c \in CIds : CarriedTo(then, d, c) = CarriedTo(rows, d, c),
           \A d \in DIds, c \in CIds : \A row \in CarriedTo(rows, d, c) :
               then[row].amount = rows[row].amount,
           \A d \in DIds, c \in CIds :
               then[CustomerRow(d, c)].balance + then[CustomerRow(d, c)].paid =
                   rows[CustomerRow(d, c)].balance + rows[CustomerRow(d, c)].paid
    PROVE  BalancesOK(then)
PROOF
  <1> SUFFICES ASSUME NEW d \in DIds, NEW c \in CIds
               PROVE  then[CustomerRow(d, c)].balance + then[CustomerRow(d, c)].paid =
                          SumFunction([row \in CarriedTo(then, d, c) |-> then[row].amount])
    BY DEF BalancesOK
  <1>1. [row \in CarriedTo(then, d, c) |-> then[row].amount] =
            [row \in CarriedTo(rows, d, c) |-> rows[row].amount]
    OBVIOUS
  <1> QED  BY <1>1 DEF BalancesOK

\* The sum over one more order.
LEMMA SumOneMore ==
    ASSUME NEW S, IsFiniteSet(S), NEW x, x \notin S, NEW f, NEW g,
           \A y \in S \cup {x} : f[y] \in Int, \A y \in S : g[y] = f[y]
    PROVE  SumFunction([y \in S \cup {x} |-> f[y]]) = SumFunction([y \in S |-> g[y]]) + f[x]
PROOF
  <1> DEFINE F == [y \in S \cup {x} |-> f[y]]
             G == [y \in S |-> g[y]]
  <1>1. DOMAIN F = S \cup {x} /\ DOMAIN G = S /\ F[x] = f[x]
    OBVIOUS
  <1>2. /\ \A y \in S \cup {x} : F[y] \in Int
        /\ \A y \in S : F[y] = G[y] /\ G[y] \in Int
    OBVIOUS
  <1>3. IsFiniteSet(S \cup {x}) /\ (S \cup {x}) \ {x} = S /\ x \in S \cup {x}
    BY FS_AddElement
  <1> HIDE DEF F, G
  <1>4. SumFunctionOnSet(F, S \cup {x}) = F[x] + SumFunctionOnSet(F, S)
    BY <1>2, <1>3, SumRemove
  <1>5. SumFunctionOnSet(F, S) = SumFunctionOnSet(G, S)
    BY <1>2, SumSame
  <1>6. F[x] \in Int /\ SumFunctionOnSet(G, S) \in Int
    BY <1>2, SumType
  <1> QED  BY <1>1, <1>4, <1>5, <1>6 DEF SumFunction, F, G

\* What an order asks for.
LEMMA OrderIs ==
    ASSUME NEW r \in Orders
    PROVE  /\ r.type = "NEW_ORDER" /\ r.d \in DIds /\ r.c \in CIds
           /\ ToSet(r.items) \subseteq Items
           /\ \A row : row[2] = r.d /\ row[3] \in Nat => OrderFits(row, PlacedOrder(r))
           /\ "items" \in DOMAIN PlacedOrder(r) /\ PlacedOrder(r).items = r.items
           /\ PlacedOrder(r).c = r.c /\ PlacedOrder(r).delivered = FALSE
           /\ PlacedOrder(r) # Gone
PROOF
  <1>1. /\ r.type = "NEW_ORDER" /\ r.d \in DIds /\ r.c \in CIds
        /\ r.items \in {<<>>} \cup [Items -> Items]
    BY DEF Orders, Injection
  <1>2. NumItems \in Nat /\ Items = 1 .. NumItems
    BY ItemsAssumption DEF Items
  <1>3. \E n \in Nat : r.items \in [1 .. n -> Items]
    <2>1. CASE r.items = <<>>
      <3>1. r.items \in [1 .. 0 -> Items]
        BY <2>1
      <3> QED  BY <3>1
    <2>2. CASE r.items \in [Items -> Items]
      BY <1>2, <2>2
    <2> QED  BY <1>1, <2>1, <2>2
  <1>4. ToSet(r.items) \subseteq Items /\ Len(r.items) \in Int
    BY <1>3 DEF ToSet
  <1>5. /\ DOMAIN PlacedOrder(r) = {"c", "amount", "delivered", "items"}
        /\ PlacedOrder(r).items = r.items /\ PlacedOrder(r).c = r.c
        /\ PlacedOrder(r).delivered = FALSE /\ PlacedOrder(r).amount = Len(r.items)
    BY DEF PlacedOrder
  <1>6. PlacedOrder(r) # Gone
    BY <1>5 DEF Gone
  <1> QED  BY <1>1, <1>4, <1>5, <1>6 DEF OrderFits

\* The kinds of calls.
LEMMA RequestKinds ==
    ASSUME NEW r \in Requests
    PROVE  /\ r.type \in {"NEW_ORDER", "PAYMENT", "DELIVERY", "READ"}
           /\ r.type = "NEW_ORDER" => r \in Orders
           /\ r.type = "PAYMENT" => r.d \in DIds /\ r.c \in CIds
           /\ r # NoRequest
PROOF
  <1> NoRequest.type = "NONE"
    BY DEF NoRequest
  <1>1. CASE r \in Orders
    <2>1. r.type = "NEW_ORDER"
      BY <1>1, OrderIs
    <2> QED  BY <1>1, <2>1
  <1>2. CASE r \in [type : {"PAYMENT"}, d : DIds, c : CIds]
    BY <1>2
  <1>3. CASE r \in [type : {"DELIVERY", "READ"}]
    BY <1>3
  <1> QED  BY <1>1, <1>2, <1>3 DEF Requests

\* Values of rows are none of a row that is deleted.
LEMMA NotGone ==
    \A v : DOMAIN v \cap {"ytd", "balance", "c", "new"} # {} => v # Gone
PROOF
  <1>1. DOMAIN Gone = {"gone"}
    BY DEF Gone
  <1> QED  BY <1>1

-----------------------------------------------------------------------------
(***************************************************************************)
(* The rows as they are loaded, with a table of new orders or without.     *)
(***************************************************************************)
LEMMA LoadedKinds ==
    ASSUME NEW rows, rows \in {Loaded, FlaggedRows}
    PROVE  /\ BaseRows \subseteq DOMAIN rows
           /\ \A row \in DOMAIN rows :
                 /\ row \in LoadedRows /\ rows[row] = LoadedValue(row)
                 /\ row[1] # "history"
                 /\ row[1] = "orders" => \E d \in DIds, o \in CIds : row = OrderRow(d, o)
PROOF
  <1>1. BaseRows \subseteq LoadedRows
    BY DEF BaseRows, LoadedRows
  <1>2. \A row \in BaseRows : row[1] # "new_order"
    BY RowKeys DEF BaseRows
  <1>3. DOMAIN rows \subseteq LoadedRows /\ BaseRows \subseteq DOMAIN rows
    BY <1>1, <1>2 DEF Loaded, FlaggedRows, Restrict
  <1>4. \A row \in DOMAIN rows : rows[row] = LoadedValue(row)
    BY <1>3 DEF Loaded, FlaggedRows, Restrict
  <1>5. ASSUME NEW row \in LoadedRows
        PROVE  /\ row[1] # "history"
               /\ row[1] = "orders" => \E d \in DIds, o \in CIds : row = OrderRow(d, o)
    BY RowKeys DEF LoadedRows
  <1> QED  BY <1>3, <1>4, <1>5

\* What each loaded row holds.
LEMMA LoadedValues ==
    /\ LoadedValue(WarehouseRow) = [ytd |-> 0]
    /\ \A d : LoadedValue(DistrictRow(d)) = [next |-> NumCustomers + 1, ytd |-> 0]
    /\ \A d, c : LoadedValue(CustomerRow(d, c)) = [balance |-> 0, paid |-> 0]
    /\ \A d, o : LoadedValue(OrderRow(d, o)) =
                     [c |-> o, amount |-> IF LoadedNew(o) THEN 1 ELSE 0, delivered |-> ~ LoadedNew(o)]
    /\ \A n : LoadedValue(StockRow(n)) = [ytd |-> 0, count |-> 0]
    /\ \A d, o : LoadedValue(NewRow(d, o)) = [new |-> TRUE]
PROOF
  <1>1. LoadedValue(WarehouseRow) = [ytd |-> 0]
    BY RowKeys DEF LoadedValue
  <1>2. ASSUME NEW d
        PROVE  LoadedValue(DistrictRow(d)) = [next |-> NumCustomers + 1, ytd |-> 0]
    BY RowKeys DEF LoadedValue
  <1>3. ASSUME NEW d, NEW c
        PROVE  LoadedValue(CustomerRow(d, c)) = [balance |-> 0, paid |-> 0]
    BY RowKeys DEF LoadedValue
  <1>4. ASSUME NEW d, NEW o
        PROVE  LoadedValue(OrderRow(d, o)) =
                   [c |-> o, amount |-> IF LoadedNew(o) THEN 1 ELSE 0, delivered |-> ~ LoadedNew(o)]
    <2>1. LoadedValue(OrderRow(d, o)) =
              [c |-> OrderRow(d, o)[3], amount |-> IF LoadedNew(OrderRow(d, o)[3]) THEN 1 ELSE 0,
               delivered |-> ~ LoadedNew(OrderRow(d, o)[3])]
      BY RowKeys DEF LoadedValue
    <2> QED  BY <2>1, RowKeys
  <1>5. ASSUME NEW n
        PROVE  LoadedValue(StockRow(n)) = [ytd |-> 0, count |-> 0]
    BY RowKeys DEF LoadedValue
  <1>6. ASSUME NEW d, NEW o
        PROVE  LoadedValue(NewRow(d, o)) = [new |-> TRUE]
    BY RowKeys DEF LoadedValue
  <1> QED  BY <1>1, <1>2, <1>3, <1>4, <1>5, <1>6

\* Every row of the load is there, and fits its table.
LEMMA LoadedStore ==
    ASSUME NEW rows, rows \in {Loaded, FlaggedRows}
    PROVE  StoreOK(rows)
PROOF
  <1>1. NumCustomers \in Nat \ {0} /\ CIds = 1 .. NumCustomers
    BY CustomersAssumption DEF CIds
  <1>2. /\ BaseRows \subseteq DOMAIN rows
        /\ \A row \in DOMAIN rows : row \in LoadedRows /\ rows[row] = LoadedValue(row)
    BY LoadedKinds
  <1>3. ASSUME NEW row \in LoadedRows
        PROVE  Fits(row, LoadedValue(row))
    <2>1. CASE row = WarehouseRow
      BY <2>1, RowKeys, LoadedValues, NotGone DEF Fits
    <2>2. CASE \E d \in DIds : row = DistrictRow(d)
      <3>1. PICK d \in DIds : row = DistrictRow(d)
        BY <2>2
      <3>2. LoadedValue(row) = [next |-> NumCustomers + 1, ytd |-> 0] /\ row[1] = "district"
        BY <3>1, LoadedValues, RowKeys
      <3>3. LoadedValue(row) # Gone /\ LoadedValue(row) \in [next : Nat \ {0}, ytd : Int]
        BY <1>1, <3>2, NotGone
      <3> QED  BY <3>2, <3>3 DEF Fits
    <2>3. CASE \E n \in Items : row = StockRow(n)
      <3>1. LoadedValue(row) = [ytd |-> 0, count |-> 0] /\ row[1] = "stock"
        BY <2>3, LoadedValues, RowKeys
      <3> QED  BY <3>1, NotGone DEF Fits
    <2>4. CASE \E d \in DIds, c \in CIds : row = CustomerRow(d, c)
      <3>1. LoadedValue(row) = [balance |-> 0, paid |-> 0] /\ row[1] = "customer"
        BY <2>4, LoadedValues, RowKeys
      <3> QED  BY <3>1, NotGone DEF Fits
    <2>5. CASE \E d \in DIds, o \in CIds : row = OrderRow(d, o)
      <3>1. PICK d \in DIds, o \in CIds : row = OrderRow(d, o)
        BY <2>5
      <3>2. LoadedValue(row) =
                [c |-> o, amount |-> IF LoadedNew(o) THEN 1 ELSE 0, delivered |-> ~ LoadedNew(o)]
        BY <3>1, LoadedValues
      <3>3. row[1] = "orders" /\ row[2] \in DIds /\ row[3] \in Nat
        BY <1>1, <3>1, RowKeys
      <3>4. LoadedNew(o) \in BOOLEAN
        BY DEF LoadedNew
      <3>5. OrderFits(row, LoadedValue(row))
        BY <3>2, <3>3, <3>4 DEF OrderFits
      <3> QED  BY <3>2, <3>3, <3>5, NotGone DEF Fits
    <2>6. CASE \E d \in DIds, o \in CIds : row = NewRow(d, o)
      <3>1. LoadedValue(row) = [new |-> TRUE] /\ row[1] = "new_order"
        BY <2>6, LoadedValues, RowKeys
      <3> QED  BY <3>1, NotGone DEF Fits
    <2> QED  BY <2>1, <2>2, <2>3, <2>4, <2>5, <2>6 DEF LoadedRows
  <1> QED  BY <1>2, <1>3 DEF StoreOK

\* The loaded orders are numbered, and D_NEXT_O_ID is the next number.
LEMMA LoadedOrders ==
    ASSUME NEW rows, rows \in {Loaded, FlaggedRows}
    PROVE  /\ Counted(rows)
           /\ \A d \in DIds : Numbered(rows, "orders", d) = 1 .. NumCustomers
           /\ \A d \in DIds : rows[DistrictRow(d)].next = NumCustomers + 1
PROOF
  <1> SUFFICES ASSUME NEW d \in DIds
               PROVE  /\ IsFiniteSet(OrdersOf(rows, d))
                      /\ Cardinality(OrdersOf(rows, d)) = NumCustomers
                      /\ Numbered(rows, "orders", d) = 1 .. NumCustomers
                      /\ rows[DistrictRow(d)].next = NumCustomers + 1
    BY DEF Counted
  <1>1. NumCustomers \in Nat \ {0} /\ CIds = 1 .. NumCustomers
    BY CustomersAssumption DEF CIds
  <1>2. OrdersOf(rows, d) = {OrderRow(d, o) : o \in CIds}
    <2>1. \A o \in CIds : OrderRow(d, o) \in DOMAIN rows
      BY LoadedKinds DEF BaseRows
    <2> QED  BY <2>1, LoadedKinds, RowKeys DEF OrdersOf
  <1>3. ExistsBijection(CIds, {OrderRow(d, o) : o \in CIds})
    <2> DEFINE f == [o \in CIds |-> OrderRow(d, o)]
               T == {OrderRow(d, o) : o \in CIds}
    <2>1. f \in [CIds -> T]
      OBVIOUS
    <2>2. \A a, b \in CIds : f[a] = f[b] => a = b
      BY RowKeys
    <2>3. \A t \in T : \E a \in CIds : f[a] = t
      OBVIOUS
    <2>4. f \in Bijection(CIds, T)
      BY <2>1, <2>2, <2>3 DEF Bijection, Injection, IsInjective, Surjection
    <2> QED  BY <2>4 DEF ExistsBijection
  <1>4. IsFiniteSet(CIds) /\ Cardinality(CIds) = NumCustomers
    BY <1>1, FS_Interval
  <1>5. IsFiniteSet(OrdersOf(rows, d)) /\ Cardinality(OrdersOf(rows, d)) = NumCustomers
    BY <1>2, <1>3, <1>4, FS_Bijection
  <1>6. Numbered(rows, "orders", d) = CIds
    BY <1>2, RowKeys DEF Numbered, OrdersOf
  <1>7. rows[DistrictRow(d)].next = NumCustomers + 1
    <2>1. DistrictRow(d) \in DOMAIN rows
      BY LoadedKinds DEF BaseRows
    <2> QED  BY <2>1, LoadedKinds, LoadedValues
  <1> QED  BY <1>1, <1>5, <1>6, <1>7

\* Nothing is paid yet.
LEMMA LoadedSums ==
    ASSUME NEW rows, rows \in {Loaded, FlaggedRows}
    PROVE  Check1(rows) /\ HistoryOK(rows) /\ StockOK(rows)
PROOF
  <1>1. BaseRows \subseteq DOMAIN rows /\ \A row \in DOMAIN rows : rows[row] = LoadedValue(row)
    BY LoadedKinds
  <1>2. /\ rows[WarehouseRow] = [ytd |-> 0]
        /\ \A d \in DIds : rows[DistrictRow(d)] = [next |-> NumCustomers + 1, ytd |-> 0]
        /\ \A n \in Items : rows[StockRow(n)] = [ytd |-> 0, count |-> 0]
    BY <1>1, LoadedValues DEF BaseRows
  <1>3. Check1(rows)
    <2> DEFINE f == [d \in DIds |-> rows[DistrictRow(d)].ytd]
    <2>1. IsFiniteSet(DIds)
      BY FS_Interval, DistrictsAssumption DEF DIds
    <2>2. DOMAIN f = DIds /\ \A d \in DIds : f[d] = 0
      BY <1>2
    <2> HIDE DEF f
    <2>3. SumFunction(f) = 0
      BY <2>1, <2>2, SumZero DEF SumFunction
    <2> QED  BY <1>2, <2>3 DEF Check1, f
  <1>4. HistoryOK(rows)
    <2>1. \A d : History(rows, d) = {}
      BY LoadedKinds DEF History
    <2> QED  BY <1>2, <2>1, FS_EmptySet DEF HistoryOK
  <1>5. StockOK(rows)
    <2>1. \A row \in DOMAIN rows : row[1] = "orders" => "items" \notin DOMAIN rows[row]
      <3> SUFFICES ASSUME NEW row \in DOMAIN rows, row[1] = "orders"
                   PROVE  "items" \notin DOMAIN rows[row]
        OBVIOUS
      <3>1. PICK d \in DIds, o \in CIds : row = OrderRow(d, o)
        BY LoadedKinds
      <3>2. DOMAIN LoadedValue(row) = {"c", "amount", "delivered"}
        BY <3>1, LoadedValues
      <3> QED  BY <1>1, <3>2
    <2>2. \A n : LinesIn(rows, n) = {}
      BY <2>1 DEF LinesIn
    <2> QED  BY <1>2, <2>2, FS_EmptySet DEF StockOK
  <1> QED  BY <1>3, <1>4, <1>5

\* Only what is not new is delivered, and it costs nothing.
LEMMA LoadedBalances ==
    ASSUME NEW rows, rows \in {Loaded, FlaggedRows}
    PROVE  BalancesOK(rows)
PROOF
  <1> SUFFICES ASSUME NEW d \in DIds, NEW c \in CIds
               PROVE  rows[CustomerRow(d, c)].balance + rows[CustomerRow(d, c)].paid =
                          SumFunction([row \in CarriedTo(rows, d, c) |-> rows[row].amount])
    BY DEF BalancesOK
  <1> DEFINE f == [row \in CarriedTo(rows, d, c) |-> rows[row].amount]
  <1>1. rows[CustomerRow(d, c)] = [balance |-> 0, paid |-> 0]
    <2>1. CustomerRow(d, c) \in DOMAIN rows
      BY LoadedKinds DEF BaseRows
    <2> QED  BY <2>1, LoadedKinds, LoadedValues
  <1>2. IsFiniteSet(CarriedTo(rows, d, c))
    <2>1. CarriedTo(rows, d, c) \subseteq OrdersOf(rows, d)
      BY DEF CarriedTo
    <2> QED  BY <2>1, LoadedOrders, FS_Subset DEF Counted
  <1>3. ASSUME NEW row \in CarriedTo(rows, d, c)
        PROVE  rows[row].amount = 0
    <2>1. row \in DOMAIN rows /\ row[1] = "orders" /\ rows[row].delivered
      BY DEF CarriedTo, OrdersOf
    <2>2. PICK e \in DIds, o \in CIds : row = OrderRow(e, o)
      BY <2>1, LoadedKinds
    <2>3. rows[row] = [c |-> o, amount |-> IF LoadedNew(o) THEN 1 ELSE 0, delivered |-> ~ LoadedNew(o)]
      BY <2>1, <2>2, LoadedKinds, LoadedValues
    <2>4. ~ LoadedNew(o)
      <3>1. rows[row].delivered = ~ LoadedNew(o)
        BY <2>3
      <3> QED  BY <2>1, <3>1
    <2> QED  BY <2>3, <2>4
  <1>4. DOMAIN f = CarriedTo(rows, d, c) /\ \A row \in CarriedTo(rows, d, c) : f[row] = 0
    BY <1>3
  <1> HIDE DEF f
  <1>5. SumFunction(f) = 0
    BY <1>2, <1>4, SumZero DEF SumFunction
  <1> QED  BY <1>1, <1>5 DEF f

-----------------------------------------------------------------------------
(***************************************************************************)
(* TypeDB 2.  What is committed,                                           *)
(***************************************************************************)
TypedbOK(rows) ==
    /\ StoreOK(rows)
    /\ Counted(rows)
    /\ \A d \in DIds : Numbered(rows, "orders", d) = 1 .. rows[DistrictRow(d)].next - 1
    /\ Check1(rows)
    /\ HistoryOK(rows)
    /\ StockOK(rows)
    /\ BalancesOK(rows)

\* and what is not before its call returns.
Fresh(rows) ==
    \A i \in Clients : \A n \in Nat : n >= ended[i] =>
        /\ HistoryRow(i, n) \notin DOMAIN rows
        /\ \A d, o : <<"orders", d, o, i, n>> \notin DOMAIN rows

\* A running transaction has a snapshot s of rows that are still there.
RunsOn(i, s) ==
    /\ StoreOK(s)
    /\ DOMAIN s \subseteq DOMAIN db
    /\ written[i] \in Typedb2!Outcomes(i, request[i], s)
    /\ seen[i] = Restrict(s, DOMAIN written[i] \cap DOMAIN s)

TypedbInv ==
    /\ driver = "typedb2" /\ driver \in Drivers
    /\ RequestsOK
    /\ EndedOK
    /\ TypedbOK(db)
    /\ Fresh(db)
    /\ DOMAIN written = Clients /\ DOMAIN open = Clients /\ DOMAIN seen = Clients
    /\ \A i \in Clients :
          /\ pc[i] \in {"idle", "commit"}
          /\ pc[i] = "idle" => written[i] = NoRows /\ open[i] = "no"
          /\ pc[i] = "commit" => open[i] = "yes" /\ \E s : RunsOn(i, s)

-----------------------------------------------------------------------------
\* Values after a change of one of their fields.
Increased(value)        == [value EXCEPT !.next = value.next + 1]
Received(value)         == [value EXCEPT !.ytd = value.ytd + 1]
Carried(value)          == [value EXCEPT !.delivered = TRUE]
Credited(value, amount) == [value EXCEPT !.balance = value.balance + amount]
Debited(value)          == [balance |-> value.balance - 1, paid |-> value.paid + 1]
Stocked(value)          == [ytd |-> value.ytd + 1, count |-> value.count + 1]

\* What they are.
LEMMA DistrictValues ==
    ASSUME NEW value \in [next : Nat \ {0}, ytd : Int]
    PROVE  /\ Increased(value) \in [next : Nat \ {0}, ytd : Int]
           /\ Increased(value).next = value.next + 1 /\ Increased(value).ytd = value.ytd
           /\ Received(value) \in [next : Nat \ {0}, ytd : Int]
           /\ Received(value).next = value.next /\ Received(value).ytd = value.ytd + 1
           /\ Increased(value) # Gone /\ Received(value) # Gone
PROOF
  <1>1. DOMAIN Gone = {"gone"}
    BY DEF Gone
  <1> QED  BY <1>1 DEF Increased, Received

\* The warehouse, with a payment more.
LEMMA WarehouseValues ==
    ASSUME NEW value \in [ytd : Int]
    PROVE  /\ Received(value) \in [ytd : Int] /\ Received(value).ytd = value.ytd + 1
           /\ Received(value) # Gone
PROOF
  <1>1. DOMAIN Gone = {"gone"}
    BY DEF Gone
  <1> QED  BY <1>1 DEF Received

\* A customer who has paid, or has been credited.
LEMMA CustomerValues ==
    ASSUME NEW value \in [balance : Int, paid : Int], NEW amount \in Int
    PROVE  /\ Credited(value, amount) \in [balance : Int, paid : Int]
           /\ Credited(value, amount).balance = value.balance + amount
           /\ Credited(value, amount).paid = value.paid
           /\ Debited(value) \in [balance : Int, paid : Int]
           /\ Debited(value).balance + Debited(value).paid = value.balance + value.paid
           /\ Credited(value, amount) # Gone /\ Debited(value) # Gone
PROOF
  <1>1. DOMAIN Gone = {"gone"}
    BY DEF Gone
  <1> QED  BY <1>1 DEF Credited, Debited

\* A stock, with a line more.
LEMMA StockValues ==
    ASSUME NEW value \in [ytd : Int, count : Int]
    PROVE  /\ Stocked(value) \in [ytd : Int, count : Int]
           /\ Stocked(value).count = value.count + 1
           /\ Stocked(value) # Gone
PROOF
  <1>1. DOMAIN Gone = {"gone"}
    BY DEF Gone
  <1> QED  BY <1>1 DEF Stocked

\* An order that has been delivered.
LEMMA OrderValues ==
    ASSUME NEW row, NEW value, OrderFits(row, value)
    PROVE  /\ OrderFits(row, Carried(value))
           /\ Carried(value).delivered = TRUE
           /\ DOMAIN Carried(value) = DOMAIN value
           /\ Carried(value).c = value.c /\ Carried(value).amount = value.amount
           /\ Carried(value).items = value.items
           /\ Carried(value) # Gone
PROOF
  <1>1. DOMAIN Gone = {"gone"}
    BY DEF Gone
  <1> QED  BY <1>1 DEF Carried, OrderFits

-----------------------------------------------------------------------------
\* The module's own operators are those every driver has.
LEMMA TypedbRows ==
    /\ Typedb2!WarehouseRow = WarehouseRow
    /\ \A d : Typedb2!DistrictRow(d) = DistrictRow(d)
    /\ \A d, c : Typedb2!CustomerRow(d, c) = CustomerRow(d, c)
    /\ \A n : Typedb2!StockRow(n) = StockRow(n)
    /\ \A i, n : Typedb2!HistoryRow(i, n) = HistoryRow(i, n)
    /\ \A row, value, rows : Typedb2!Put(row, value, rows) = Put(row, value, rows)
    /\ \A changes, rows : Typedb2!Overlay(changes, rows) = Overlay(changes, rows)
    /\ \A s : Typedb2!ToSet(s) = ToSet(s)
    /\ \A r : Typedb2!PlacedOrder(r) = PlacedOrder(r) /\ Typedb2!UnknownItem(r) = UnknownItem(r)
    /\ \A rows, d : Typedb2!Flagged(rows, d) = Flagged(rows, d)
    /\ Typedb2!NoRows = NoRows /\ Typedb2!DIds = DIds /\ Typedb2!Clients = Clients
    /\ \A f, S : Typedb2!Restrict(f, S) = Restrict(f, S)
PROOF
  <1>1. /\ Typedb2!WarehouseRow = WarehouseRow
        /\ \A d : Typedb2!DistrictRow(d) = DistrictRow(d)
        /\ \A d, c : Typedb2!CustomerRow(d, c) = CustomerRow(d, c)
        /\ \A n : Typedb2!StockRow(n) = StockRow(n)
        /\ \A i, n : Typedb2!HistoryRow(i, n) = HistoryRow(i, n)
    BY DEF Typedb2!WarehouseRow, WarehouseRow, Typedb2!DistrictRow, DistrictRow,
           Typedb2!CustomerRow, CustomerRow, Typedb2!StockRow, StockRow,
           Typedb2!HistoryRow, HistoryRow
  <1>2. /\ \A row, value, rows : Typedb2!Put(row, value, rows) = Put(row, value, rows)
        /\ \A changes, rows : Typedb2!Overlay(changes, rows) = Overlay(changes, rows)
        /\ \A s : Typedb2!ToSet(s) = ToSet(s)
        /\ \A f, S : Typedb2!Restrict(f, S) = Restrict(f, S)
    BY DEF Typedb2!Put, Put, Typedb2!Overlay, Overlay, Typedb2!ToSet, ToSet,
           Typedb2!Restrict, Restrict
  <1>3. \A r : Typedb2!PlacedOrder(r) = PlacedOrder(r) /\ Typedb2!UnknownItem(r) = UnknownItem(r)
    BY DEF Typedb2!PlacedOrder, PlacedOrder, Typedb2!UnknownItem, UnknownItem
  <1>4. \A rows, d : Typedb2!Flagged(rows, d) = Flagged(rows, d)
    BY DEF Typedb2!Flagged, Flagged
  <1>5. Typedb2!NoRows = NoRows /\ Typedb2!DIds = DIds /\ Typedb2!Clients = Clients
    BY DEF Typedb2!NoRows, NoRows, Typedb2!DIds, DIds, Typedb2!Clients, Clients
  <1> QED  BY <1>1, <1>2, <1>3, <1>4, <1>5

\* No rows.
LEMMA NoRowsAre == DOMAIN NoRows = {}
PROOF BY DEF NoRows

\* The node of an order of client i has its call in its key.
LEMMA NodeIs ==
    ASSUME NEW i, NEW d, NEW o
    PROVE  LET node == OrderNode(i, d, o) IN
           node[1] = "orders" /\ node[2] = d /\ node[3] = o /\ node = <<"orders", d, o, i, ended[i]>>
PROOF BY DEF OrderNode

\* doNewOrder's, doPayment's and doDelivery's writes.
OrderWrites(w, node, r, rows) ==
    LET district == DistrictRow(r.d) IN
    /\ DOMAIN w = {district, node} \cup {StockRow(n) : n \in ToSet(r.items)}
    /\ w[district] = Increased(rows[district])
    /\ w[node] = PlacedOrder(r)
    /\ \A n \in ToSet(r.items) : w[StockRow(n)] = Stocked(rows[StockRow(n)])

PaymentWrites(w, receipt, r, rows) ==
    LET district == DistrictRow(r.d)
        payer    == CustomerRow(r.d, r.c)
    IN  /\ DOMAIN w = {WarehouseRow, district, payer, receipt}
        /\ w[WarehouseRow] = Received(rows[WarehouseRow])
        /\ w[district] = Received(rows[district])
        /\ w[payer] = Debited(rows[payer])
        /\ w[receipt] = [d |-> r.d, c |-> r.c]

DeliveryWrites(w, pick, rows) ==
    /\ DOMAIN w = pick \cup {CustomerRow(q[2], rows[q].c) : q \in pick}
    /\ \A q \in pick :
          LET payer == CustomerRow(q[2], rows[q].c) IN
          /\ w[q] = Carried(rows[q])
          /\ w[payer] = Credited(rows[payer], rows[q].amount)

\* The rows doNewOrder writes, from any store.
LEMMA TypedbOrder ==
    ASSUME NEW i, NEW r, NEW rows
    PROVE  OrderWrites(Typedb2!NewOrder(i, r, rows),
                       OrderNode(i, r.d, rows[DistrictRow(r.d)].next), r, rows)
PROOF
  <1> DEFINE o     == rows[DistrictRow(r.d)].next
             node  == OrderNode(i, r.d, o)
             stock == [row \in {StockRow(n) : n \in ToSet(r.items)} |->
                          Stocked(rows[row])]
             next  == Increased(rows[DistrictRow(r.d)])
  <1>1. \A d, p : Typedb2!OrderNode(i, d, p) = OrderNode(i, d, p)
    BY DEF Typedb2!OrderNode, OrderNode
  <1>2. Typedb2!NewOrder(i, r, rows) =
            Put(DistrictRow(r.d), next, Put(node, PlacedOrder(r), stock))
    BY <1>1, TypedbRows DEF Typedb2!NewOrder, Increased, Stocked
  <1>3. /\ DOMAIN stock = {StockRow(n) : n \in ToSet(r.items)}
        /\ \A n \in ToSet(r.items) :
              stock[StockRow(n)] = Stocked(rows[StockRow(n)])
    OBVIOUS
  <1>4. /\ node[1] = "orders" /\ DistrictRow(r.d)[1] = "district"
        /\ \A row \in DOMAIN stock : row[1] = "stock"
        /\ node # DistrictRow(r.d)
    BY <1>3, NodeIs, RowKeys
  <1> HIDE DEF stock, next, node
  <1>5. /\ DOMAIN Put(node, PlacedOrder(r), stock) = DOMAIN stock \cup {node}
        /\ Put(node, PlacedOrder(r), stock)[node] = PlacedOrder(r)
        /\ \A row \in DOMAIN stock : Put(node, PlacedOrder(r), stock)[row] = stock[row]
    BY <1>4 DEF Put
  <1>6. /\ DOMAIN Typedb2!NewOrder(i, r, rows) = DOMAIN stock \cup {node, DistrictRow(r.d)}
        /\ Typedb2!NewOrder(i, r, rows)[DistrictRow(r.d)] = next
        /\ Typedb2!NewOrder(i, r, rows)[node] = PlacedOrder(r)
        /\ \A row \in DOMAIN stock : Typedb2!NewOrder(i, r, rows)[row] = stock[row]
    BY <1>2, <1>4, <1>5 DEF Put
  <1>7. \A n \in ToSet(r.items) : StockRow(n) \in DOMAIN stock
    BY <1>3
  <1> QED  BY <1>3, <1>6, <1>7 DEF OrderWrites, node, next

\* The rows doPayment writes.
LEMMA TypedbPayment ==
    ASSUME NEW i, NEW r, NEW rows
    PROVE  PaymentWrites(Typedb2!Payment(i, r, rows), HistoryRow(i, ended[i]), r, rows)
PROOF
  <1> DEFINE district == DistrictRow(r.d)
             payer    == CustomerRow(r.d, r.c)
             receipt  == HistoryRow(i, ended[i])
             W == Received(rows[WarehouseRow])
             D == Received(rows[district])
             C == Debited(rows[payer])
             H == [d |-> r.d, c |-> r.c]
  <1>1. Typedb2!Payment(i, r, rows) =
            Put(WarehouseRow, W, Put(district, D, Put(payer, C, Put(receipt, H, NoRows))))
    BY TypedbRows DEF Typedb2!Payment, Received, Debited
  <1>2. /\ WarehouseRow[1] = "warehouse" /\ district[1] = "district"
        /\ payer[1] = "customer" /\ receipt[1] = "history"
    BY RowKeys
  <1>3. /\ WarehouseRow \notin {district, payer, receipt}
        /\ district \notin {payer, receipt} /\ payer # receipt
    BY <1>2
  <1> HIDE DEF district, payer, receipt, W, D, C, H
  <1> DEFINE p1 == Put(receipt, H, NoRows)
             p2 == Put(payer, C, p1)
             p3 == Put(district, D, p2)
  <1>4. DOMAIN p1 = {receipt} /\ p1[receipt] = H
    BY NoRowsAre DEF Put
  <1> HIDE DEF p1
  <1>5. DOMAIN p2 = {receipt, payer} /\ p2[receipt] = H /\ p2[payer] = C
    BY <1>3, <1>4 DEF Put
  <1> HIDE DEF p2
  <1>6. /\ DOMAIN p3 = {receipt, payer, district}
        /\ p3[receipt] = H /\ p3[payer] = C /\ p3[district] = D
    BY <1>3, <1>5 DEF Put
  <1>7. Typedb2!Payment(i, r, rows) = Put(WarehouseRow, W, p3)
    BY <1>1 DEF p1, p2, p3
  <1> HIDE DEF p3
  <1>8. /\ DOMAIN Put(WarehouseRow, W, p3) = {WarehouseRow, district, payer, receipt}
        /\ Put(WarehouseRow, W, p3)[WarehouseRow] = W
        /\ Put(WarehouseRow, W, p3)[district] = D
        /\ Put(WarehouseRow, W, p3)[payer] = C
        /\ Put(WarehouseRow, W, p3)[receipt] = H
    BY <1>3, <1>6 DEF Put
  <1> QED  BY <1>7, <1>8 DEF PaymentWrites, district, payer, receipt, W, D, C, H

\* The rows of an order are in one district; the order one of those that are new.
Picked(pick, rows) ==
    /\ \A q \in pick : /\ q \in DOMAIN rows /\ q[1] = "orders" /\ q[2] \in DIds
                       /\ ~ rows[q].delivered
    /\ \A p, q \in pick : p[2] = q[2] => p = q

\* "limit 1" takes one order of a district.
LEMMA TypedbPicks ==
    ASSUME NEW rows, NEW pick \in Typedb2!Picks(rows)
    PROVE  Picked(pick, rows)
PROOF
  <1>1. {Typedb2!Flagged(rows, d) : d \in DIds} = {Flagged(rows, d) : d \in DIds}
    BY TypedbRows
  <1>2. /\ pick \subseteq UNION {Flagged(rows, d) : d \in DIds}
        /\ \A d \in DIds : Flagged(rows, d) # {} =>
              \E row \in pick : pick \cap Flagged(rows, d) = {row}
    BY <1>1, TypedbRows DEF Typedb2!Picks
  <1>3. ASSUME NEW q \in pick
        PROVE  /\ q \in DOMAIN rows /\ q[1] = "orders" /\ q[2] \in DIds /\ ~ rows[q].delivered
               /\ q \in Flagged(rows, q[2])
    BY <1>2 DEF Flagged
  <1>4. ASSUME NEW p \in pick, NEW q \in pick, p[2] = q[2]
        PROVE  p = q
    BY <1>2, <1>3, <1>4
  <1> QED  BY <1>3, <1>4 DEF Picked

\* The rows doDelivery writes for the orders it has picked.
LEMMA TypedbDelivery ==
    ASSUME NEW pick, NEW rows, Picked(pick, rows)
    PROVE  DeliveryWrites(Typedb2!Delivery(pick, rows), pick, rows)
PROOF
  <1> DEFINE Payer(q) == CustomerRow(q[2], rows[q].c)
             P == {Payer(q) : q \in pick}
             Of(payer) == CHOOSE q \in pick : Payer(q) = payer
             orders == [q \in pick |-> Carried(rows[q])]
             payers == [payer \in P |-> Credited(rows[payer], rows[Of(payer)].amount)]
  <1>1. \A q : Typedb2!Payer(q, rows) = Payer(q)
    BY TypedbRows DEF Typedb2!Payer
  <1>2. Typedb2!Delivery(pick, rows) = Overlay(orders, payers)
    BY <1>1, TypedbRows DEF Typedb2!Delivery, Carried, Credited
  <1>3. ASSUME NEW q \in pick
        PROVE  Of(Payer(q)) = q /\ Payer(q)[1] = "customer" /\ q[1] = "orders"
    <2>1. \A p \in pick : Payer(p) = Payer(q) => p = q
      BY RowKeys DEF Picked
    <2> QED  BY <2>1, RowKeys DEF Picked
  <1>4. P \cap pick = {}
    BY <1>3
  <1>5. /\ DOMAIN Overlay(orders, payers) = pick \cup P
        /\ \A q \in pick : Overlay(orders, payers)[q] = orders[q]
        /\ \A x \in P : Overlay(orders, payers)[x] = payers[x]
    BY <1>4 DEF Overlay
  <1>6. ASSUME NEW q \in pick
        PROVE  /\ orders[q] = Carried(rows[q])
               /\ Payer(q) \in P
               /\ payers[Payer(q)] = Credited(rows[Payer(q)], rows[q].amount)
    <2>1. Payer(q) \in P /\ Of(Payer(q)) = q
      BY <1>3
    <2> HIDE DEF Payer, Of
    <2> QED  BY <2>1
  <1> HIDE DEF orders, payers
  <1> QED  BY <1>2, <1>5, <1>6 DEF DeliveryWrites

-----------------------------------------------------------------------------
(***************************************************************************)
(* What a commit makes of the rows, by the call.                           *)
(***************************************************************************)
Adds(r, node, rows, then) ==
    LET district == DistrictRow(r.d) IN
    /\ node \notin DOMAIN rows
    /\ DOMAIN then = DOMAIN rows \cup {node}
    /\ then[node] = PlacedOrder(r)
    /\ then[district] = Increased(rows[district])
    /\ \A n \in ToSet(r.items) :
          then[StockRow(n)] = Stocked(rows[StockRow(n)])
    /\ \A row \in DOMAIN rows :
          row # district /\ (\A n \in ToSet(r.items) : row # StockRow(n)) => then[row] = rows[row]

Pays(r, receipt, rows, then) ==
    LET district == DistrictRow(r.d)
        payer    == CustomerRow(r.d, r.c)
    IN  /\ receipt \notin DOMAIN rows
        /\ DOMAIN then = DOMAIN rows \cup {receipt}
        /\ then[receipt] = [d |-> r.d, c |-> r.c]
        /\ then[WarehouseRow] = Received(rows[WarehouseRow])
        /\ then[district] = Received(rows[district])
        /\ then[payer] = Debited(rows[payer])
        /\ \A row \in DOMAIN rows \ {WarehouseRow, district, payer} : then[row] = rows[row]

Carries(pick, rows, then) ==
    /\ DOMAIN then = DOMAIN rows
    /\ \A q \in pick :
          LET payer == CustomerRow(q[2], rows[q].c) IN
          /\ then[q] = Carried(rows[q])
          /\ then[payer] = Credited(rows[payer], rows[q].amount)
    /\ \A row \in DOMAIN rows \ pick :
          (\A q \in pick : row # CustomerRow(q[2], rows[q].c)) => then[row] = rows[row]

\* An order is placed under the next number, which no order had.
LEMMA TypedbOrders ==
    ASSUME NEW rows, TypedbOK(rows), NEW then, NEW r \in Orders, NEW node,
           node[1] = "orders", node[2] = r.d, node[3] = rows[DistrictRow(r.d)].next,
           Adds(r, node, rows, then)
    PROVE  TypedbOK(then)
PROOF
  <1> DEFINE e == r.d
             o == rows[DistrictRow(e)].next
  <1>1. /\ e \in DIds /\ ToSet(r.items) \subseteq Items
        /\ OrderFits(node, PlacedOrder(r)) /\ PlacedOrder(r) # Gone
        /\ "items" \in DOMAIN PlacedOrder(r) /\ PlacedOrder(r).items = r.items
        /\ PlacedOrder(r).delivered = FALSE
        /\ rows[DistrictRow(e)] \in [next : Nat \ {0}, ytd : Int] /\ DistrictRow(e) \in DOMAIN rows
    <2>1. e \in DIds
      BY OrderIs
    <2>2. rows[DistrictRow(e)] \in [next : Nat \ {0}, ytd : Int] /\ DistrictRow(e) \in DOMAIN rows
      BY <2>1, BaseFits DEF TypedbOK
    <2> QED  BY <2>1, <2>2, OrderIs
  <1>2. /\ then[DistrictRow(e)].next = o + 1
        /\ then[DistrictRow(e)].ytd = rows[DistrictRow(e)].ytd
        /\ then[DistrictRow(e)] \in [next : Nat \ {0}, ytd : Int]
        /\ then[DistrictRow(e)] # Gone
    BY <1>1, DistrictValues DEF Adds
  <1>3. ASSUME NEW row \in DOMAIN rows, row[1] \notin {"district", "stock"}
        PROVE  then[row] = rows[row]
    BY <1>3, RowKeys DEF Adds
  <1>4. ASSUME NEW d \in DIds \ {e}
        PROVE  then[DistrictRow(d)] = rows[DistrictRow(d)]
    <2>1. DistrictRow(d) # DistrictRow(e) /\ DistrictRow(d)[1] = "district"
      BY RowKeys
    <2>2. DistrictRow(d) \in DOMAIN rows
      BY BaseFits DEF TypedbOK
    <2> QED  BY <2>1, <2>2, RowKeys DEF Adds
  <1>5. ASSUME NEW n \in Items
        PROVE  /\ then[StockRow(n)] \in [ytd : Int, count : Int]
               /\ then[StockRow(n)].count =
                     IF n \in ToSet(r.items) THEN rows[StockRow(n)].count + 1 ELSE rows[StockRow(n)].count
    <2>1. StockRow(n) \in DOMAIN rows /\ rows[StockRow(n)] \in [ytd : Int, count : Int]
      BY BaseFits DEF TypedbOK
    <2>2. StockRow(n) # DistrictRow(e) /\ \A m : m # n => StockRow(n) # StockRow(m)
      BY RowKeys
    <2>3. CASE n \in ToSet(r.items)
      <3>1. then[StockRow(n)] = Stocked(rows[StockRow(n)])
        BY <2>3 DEF Adds
      <3> QED  BY <2>1, <2>3, <3>1, StockValues
    <2>4. CASE n \notin ToSet(r.items)
      <3>1. then[StockRow(n)] = rows[StockRow(n)]
        BY <2>1, <2>2, <2>4 DEF Adds
      <3> QED  BY <2>1, <2>4, <3>1
    <2> QED  BY <2>3, <2>4
  <1>6. WarehouseRow \in DOMAIN rows /\ then[WarehouseRow] = rows[WarehouseRow]
    <2>1. WarehouseRow \in DOMAIN rows
      BY BaseFits DEF TypedbOK
    <2> QED  BY <1>3, <2>1, RowKeys
  <1>7. StoreOK(then)
    <2>1. BaseRows \subseteq DOMAIN then
      BY DEF TypedbOK, StoreOK, Adds
    <2>2. ASSUME NEW row \in DOMAIN then
          PROVE  Fits(row, then[row])
      <3>1. CASE row = node
        BY <1>1, <3>1 DEF Fits, Adds
      <3>2. CASE row # node /\ then[row] = rows[row]
        BY <3>2 DEF TypedbOK, StoreOK, Adds
      <3>3. CASE row = DistrictRow(e)
        BY <1>2, <3>3, RowKeys, NotGone DEF Fits
      <3>4. CASE \E n \in ToSet(r.items) : row = StockRow(n)
        BY <1>1, <1>5, <3>4, RowKeys, NotGone DEF Fits
      <3> QED  BY <3>1, <3>2, <3>3, <3>4 DEF Adds
    <2> QED  BY <2>1, <2>2 DEF StoreOK
  <1>8. \A row : row[1] = "orders" /\ row # node =>
            /\ row \in DOMAIN then <=> row \in DOMAIN rows
            /\ row \in DOMAIN rows => then[row] = rows[row]
    BY <1>3 DEF Adds
  <1>9. node \notin DOMAIN rows /\ node \in DOMAIN then /\ then[node] = PlacedOrder(r)
    BY DEF Adds
  <1>10. Counted(then)
    BY <1>1, <1>2, <1>4, <1>8, <1>9, PlacedCount DEF TypedbOK
  <1>11. ASSUME NEW d \in DIds
         PROVE  Numbered(then, "orders", d) = 1 .. then[DistrictRow(d)].next - 1
    <2>1. Numbered(then, "orders", d) =
              Numbered(rows, "orders", d) \cup (IF d = e THEN {o} ELSE {})
      BY <1>8, <1>9 DEF Numbered
    <2>2. Numbered(rows, "orders", d) = 1 .. rows[DistrictRow(d)].next - 1
      BY DEF TypedbOK
    <2>3. CASE d = e
      <3>1. (1 .. o - 1) \cup {o} = 1 .. o /\ (o + 1) - 1 = o
        BY <1>1
      <3>2. then[DistrictRow(d)].next - 1 = o
        BY <1>2, <2>3, <3>1
      <3>3. Numbered(then, "orders", d) = (1 .. o - 1) \cup {o}
        BY <2>1, <2>2, <2>3
      <3> QED  BY <3>1, <3>2, <3>3
    <2>4. CASE d # e
      BY <1>4, <2>1, <2>2, <2>4
    <2> QED  BY <2>3, <2>4
  <1>12. \A d \in DIds : then[DistrictRow(d)].ytd = rows[DistrictRow(d)].ytd
    BY <1>2, <1>4
  <1>13. Check1(then)
    BY <1>6, <1>12, SameCheck1 DEF TypedbOK
  <1>14. HistoryOK(then)
    <2>1. SameTable("history", rows, then)
      BY <1>3 DEF SameTable, Adds
    <2> QED  BY <1>12, <2>1, SameHistory DEF TypedbOK
  <1>15. StockOK(then)
    BY <1>1, <1>5, <1>8, <1>9, PlacedStock DEF TypedbOK
  <1>16. BalancesOK(then)
    <2>1. ASSUME NEW d \in DIds, NEW c \in CIds
          PROVE  /\ CarriedTo(then, d, c) = CarriedTo(rows, d, c)
                 /\ \A row \in CarriedTo(rows, d, c) : then[row].amount = rows[row].amount
                 /\ then[CustomerRow(d, c)] = rows[CustomerRow(d, c)]
      <3>1. CustomerRow(d, c) \in DOMAIN rows
        BY BaseFits DEF TypedbOK
      <3> QED  BY <1>1, <1>3, <1>8, <1>9, <3>1, RowKeys DEF CarriedTo, OrdersOf
    <2> QED  BY <2>1, SameBalances DEF TypedbOK
  <1> QED  BY <1>7, <1>10, <1>11, <1>13, <1>14, <1>15, <1>16 DEF TypedbOK

\* A payment is added in every place.
LEMMA TypedbPays ==
    ASSUME NEW rows, TypedbOK(rows), NEW then, NEW r, r.d \in DIds, r.c \in CIds, NEW receipt,
           receipt[1] = "history", Pays(r, receipt, rows, then)
    PROVE  TypedbOK(then)
PROOF
  <1> DEFINE e == r.d
             district == DistrictRow(e)
             payer    == CustomerRow(e, r.c)
  <1>1. /\ WarehouseRow \in DOMAIN rows /\ rows[WarehouseRow] \in [ytd : Int]
        /\ district \in DOMAIN rows /\ rows[district] \in [next : Nat \ {0}, ytd : Int]
        /\ payer \in DOMAIN rows /\ rows[payer] \in [balance : Int, paid : Int]
    BY BaseFits DEF TypedbOK
  <1>2. /\ then[WarehouseRow] \in [ytd : Int] /\ then[WarehouseRow].ytd = rows[WarehouseRow].ytd + 1
        /\ then[district] \in [next : Nat \ {0}, ytd : Int]
        /\ then[district].next = rows[district].next /\ then[district].ytd = rows[district].ytd + 1
        /\ then[payer] \in [balance : Int, paid : Int]
        /\ then[payer].balance + then[payer].paid = rows[payer].balance + rows[payer].paid
    <2>1. /\ then[WarehouseRow] = Received(rows[WarehouseRow])
          /\ then[district] = Received(rows[district])
          /\ then[payer] = Debited(rows[payer])
      BY DEF Pays
    <2> HIDE DEF district, payer
    <2>2. /\ then[WarehouseRow] \in [ytd : Int] /\ then[WarehouseRow].ytd = rows[WarehouseRow].ytd + 1
      BY <1>1, <2>1, WarehouseValues
    <2>3. /\ then[district] \in [next : Nat \ {0}, ytd : Int]
          /\ then[district].next = rows[district].next
          /\ then[district].ytd = rows[district].ytd + 1
      BY <1>1, <2>1, DistrictValues
    <2>4. /\ then[payer] \in [balance : Int, paid : Int]
          /\ then[payer].balance + then[payer].paid = rows[payer].balance + rows[payer].paid
      <3>1. 0 \in Int
        OBVIOUS
      <3> QED  BY <1>1, <2>1, <3>1, CustomerValues
    <2> QED  BY <2>2, <2>3, <2>4
  <1>3. ASSUME NEW row \in DOMAIN rows, row[1] \notin {"warehouse", "district", "customer"}
        PROVE  then[row] = rows[row]
    BY <1>3, RowKeys DEF Pays
  <1>4. ASSUME NEW d \in DIds \ {e}
        PROVE  then[DistrictRow(d)] = rows[DistrictRow(d)]
    <2>1. DistrictRow(d) \notin {WarehouseRow, district, payer}
      BY RowKeys
    <2>2. DistrictRow(d) \in DOMAIN rows
      BY BaseFits DEF TypedbOK
    <2> QED  BY <2>1, <2>2 DEF Pays
  <1>5. ASSUME NEW d \in DIds, NEW c \in CIds, CustomerRow(d, c) # payer
        PROVE  then[CustomerRow(d, c)] = rows[CustomerRow(d, c)]
    <2>1. CustomerRow(d, c) \notin {WarehouseRow, district, payer}
      BY <1>5, RowKeys
    <2>2. CustomerRow(d, c) \in DOMAIN rows
      BY BaseFits DEF TypedbOK
    <2> QED  BY <2>1, <2>2 DEF Pays
  <1>6. StoreOK(then)
    <2>1. BaseRows \subseteq DOMAIN then
      BY DEF TypedbOK, StoreOK, Pays
    <2>2. ASSUME NEW row \in DOMAIN then
          PROVE  Fits(row, then[row])
      <3>1. CASE row = receipt
        <4>1. then[row] \in [d : DIds, c : CIds] /\ then[row] # Gone
          BY <3>1, NotGone DEF Pays
        <4> QED  BY <3>1, <4>1 DEF Fits
      <3>2. CASE row # receipt /\ then[row] = rows[row]
        BY <3>2 DEF TypedbOK, StoreOK, Pays
      <3>3. CASE row = WarehouseRow
        BY <1>2, <3>3, RowKeys, NotGone DEF Fits
      <3>4. CASE row = district
        BY <1>2, <3>4, RowKeys, NotGone DEF Fits
      <3>5. CASE row = payer
        BY <1>2, <3>5, RowKeys, NotGone DEF Fits
      <3> QED  BY <3>1, <3>2, <3>3, <3>4, <3>5 DEF Pays
    <2> QED  BY <2>1, <2>2 DEF StoreOK
  <1>7. \A row : row[1] = "orders" =>
            /\ row \in DOMAIN then <=> row \in DOMAIN rows
            /\ row \in DOMAIN rows => then[row] = rows[row]
    BY <1>3 DEF Pays
  <1>8. \A d \in DIds : then[DistrictRow(d)].next = rows[DistrictRow(d)].next
    BY <1>2, <1>4
  <1>9. Counted(then)
    BY <1>7, <1>8, SameCount DEF TypedbOK
  <1>10. ASSUME NEW d \in DIds
         PROVE  Numbered(then, "orders", d) = 1 .. then[DistrictRow(d)].next - 1
    <2>1. Numbered(then, "orders", d) = Numbered(rows, "orders", d)
      BY <1>7 DEF Numbered
    <2> QED  BY <1>8, <2>1 DEF TypedbOK
  <1>11. \A d \in DIds : rows[DistrictRow(d)].ytd \in Int
    BY BaseFits DEF TypedbOK
  <1>12. \A d \in DIds \ {e} : then[DistrictRow(d)].ytd = rows[DistrictRow(d)].ytd
    BY <1>4
  <1>13. Check1(then)
    BY <1>2, <1>11, <1>12, PaidCheck1 DEF TypedbOK
  <1>14. HistoryOK(then)
    <2>1. \A row : row[1] = "history" /\ row # receipt =>
              /\ row \in DOMAIN then <=> row \in DOMAIN rows
              /\ row \in DOMAIN rows => then[row] = rows[row]
      BY <1>3 DEF Pays
    <2>2. receipt \notin DOMAIN rows /\ receipt \in DOMAIN then /\ then[receipt].d = e
      BY DEF Pays
    <2> QED  BY <1>2, <1>12, <2>1, <2>2, PaidHistory DEF TypedbOK
  <1>15. StockOK(then)
    <2>1. \A n \in Items : then[StockRow(n)] = rows[StockRow(n)]
      BY <1>3, BaseFits, RowKeys DEF TypedbOK
    <2> QED  BY <1>7, <2>1, SameStock DEF TypedbOK
  <1>16. BalancesOK(then)
    <2>1. ASSUME NEW d \in DIds, NEW c \in CIds
          PROVE  /\ CarriedTo(then, d, c) = CarriedTo(rows, d, c)
                 /\ \A row \in CarriedTo(rows, d, c) : then[row].amount = rows[row].amount
      BY <1>7 DEF CarriedTo, OrdersOf
    <2>2. \A d \in DIds, c \in CIds :
              then[CustomerRow(d, c)].balance + then[CustomerRow(d, c)].paid =
                  rows[CustomerRow(d, c)].balance + rows[CustomerRow(d, c)].paid
      BY <1>2, <1>5
    <2> QED  BY <2>1, <2>2, SameBalances DEF TypedbOK
  <1> QED  BY <1>6, <1>9, <1>10, <1>13, <1>14, <1>15, <1>16 DEF TypedbOK

\* An order that is taken has a carrier, and its customer the amount.
LEMMA TypedbCarries ==
    ASSUME NEW rows, TypedbOK(rows), NEW then, NEW pick, Picked(pick, rows),
           Carries(pick, rows, then)
    PROVE  TypedbOK(then)
PROOF
  <1> DEFINE Payer(q) == CustomerRow(q[2], rows[q].c)
  <1>1. ASSUME NEW q \in pick
        PROVE  /\ q \in DOMAIN rows /\ q[1] = "orders" /\ q[2] \in DIds /\ ~ rows[q].delivered
               /\ OrderFits(q, rows[q]) /\ rows[q].c \in CIds
               /\ OrderFits(q, then[q])
               /\ DOMAIN then[q] = DOMAIN rows[q]
               /\ \A x \in DOMAIN rows[q] \ {"delivered"} : then[q][x] = rows[q][x]
               /\ then[q].items = rows[q].items
               /\ then[q].delivered = TRUE
    <2>1. q \in DOMAIN rows /\ q[1] = "orders" /\ q[2] \in DIds /\ ~ rows[q].delivered
      BY DEF Picked
    <2>2. OrderFits(q, rows[q])
      BY <2>1 DEF TypedbOK, StoreOK, Fits
    <2>3. then[q] = Carried(rows[q])
      BY DEF Carries
    <2>4. rows[q].c \in CIds
      BY <2>2 DEF OrderFits
    <2> QED  BY <2>1, <2>2, <2>3, <2>4, OrderValues DEF Carried
  <1>2. ASSUME NEW q \in pick
        PROVE  /\ Payer(q) \in DOMAIN rows /\ rows[Payer(q)] \in [balance : Int, paid : Int]
               /\ then[Payer(q)] \in [balance : Int, paid : Int]
               /\ then[Payer(q)].balance = rows[Payer(q)].balance + rows[q].amount
               /\ then[Payer(q)].paid = rows[Payer(q)].paid
    <2>1. Payer(q) \in DOMAIN rows /\ rows[Payer(q)] \in [balance : Int, paid : Int]
      BY <1>1, BaseFits DEF TypedbOK
    <2>2. then[Payer(q)] = Credited(rows[Payer(q)], rows[q].amount)
      BY DEF Carries
    <2>3. rows[q].amount \in Int
      BY <1>1 DEF OrderFits
    <2> HIDE DEF Payer
    <2> QED  BY <2>1, <2>2, <2>3, CustomerValues
  <1>3. ASSUME NEW row \in DOMAIN rows, row[1] \notin {"orders", "customer"}
        PROVE  then[row] = rows[row]
    <2>1. row \notin pick
      BY <1>1, <1>3
    <2>2. \A q \in pick : row # CustomerRow(q[2], rows[q].c)
      BY <1>3, RowKeys
    <2> QED  BY <2>1, <2>2 DEF Carries
  <1>4. ASSUME NEW row \in DOMAIN rows, row[1] = "orders", row \notin pick
        PROVE  then[row] = rows[row]
    BY <1>4, RowKeys DEF Carries
  <1>5. /\ \A d \in DIds : DistrictRow(d) \in DOMAIN rows /\ then[DistrictRow(d)] = rows[DistrictRow(d)]
        /\ WarehouseRow \in DOMAIN rows /\ then[WarehouseRow] = rows[WarehouseRow]
        /\ \A n \in Items : then[StockRow(n)] = rows[StockRow(n)]
    BY <1>3, BaseFits, RowKeys DEF TypedbOK
  <1>6. StoreOK(then)
    <2>1. BaseRows \subseteq DOMAIN then
      BY DEF TypedbOK, StoreOK, Carries
    <2>2. ASSUME NEW row \in DOMAIN then
          PROVE  Fits(row, then[row])
      <3>1. CASE then[row] = rows[row]
        BY <3>1 DEF TypedbOK, StoreOK, Carries
      <3>2. CASE row \in pick
        <4>1. "c" \in DOMAIN then[row]
          BY <1>1, <3>2 DEF OrderFits
        <4> QED  BY <1>1, <3>2, <4>1, NotGone DEF Fits
      <3>3. CASE \E q \in pick : row = Payer(q)
        BY <1>2, <3>3, RowKeys, NotGone DEF Fits
      <3> QED  BY <3>1, <3>2, <3>3 DEF Carries
    <2> QED  BY <2>1, <2>2 DEF StoreOK
  <1>7. DOMAIN then = DOMAIN rows
    BY DEF Carries
  <1>8. Counted(then)
    BY <1>5, <1>7, SameCount DEF TypedbOK
  <1>9. ASSUME NEW d \in DIds
        PROVE  Numbered(then, "orders", d) = 1 .. then[DistrictRow(d)].next - 1
    <2>1. Numbered(then, "orders", d) = Numbered(rows, "orders", d)
      BY <1>7 DEF Numbered
    <2> QED  BY <1>5, <2>1 DEF TypedbOK
  <1>10. Check1(then)
    BY <1>5, SameCheck1 DEF TypedbOK
  <1>11. HistoryOK(then)
    <2>1. SameTable("history", rows, then)
      BY <1>3, <1>7 DEF SameTable
    <2> QED  BY <1>5, <2>1, SameHistory DEF TypedbOK
  <1>12. StockOK(then)
    <2>1. \A row : row[1] = "orders" =>
              /\ row \in DOMAIN then <=> row \in DOMAIN rows
              /\ row \in DOMAIN rows =>
                     /\ "items" \in DOMAIN then[row] <=> "items" \in DOMAIN rows[row]
                     /\ then[row].items = rows[row].items
      BY <1>1, <1>4, <1>7
    <2> QED  BY <1>5, <2>1, SameStock DEF TypedbOK
  <1>13. BalancesOK(then)
    <2> SUFFICES ASSUME NEW d \in DIds, NEW c \in CIds
                 PROVE  then[CustomerRow(d, c)].balance + then[CustomerRow(d, c)].paid =
                            SumFunction([row \in CarriedTo(then, d, c) |-> then[row].amount])
      BY DEF BalancesOK
    <2> DEFINE customer == CustomerRow(d, c)
               S == CarriedTo(rows, d, c)
               G == [row \in DOMAIN rows |-> rows[row].amount]
               F == [row \in DOMAIN rows |-> then[row].amount]
    <2>1. /\ rows[customer].balance + rows[customer].paid = SumFunction([row \in S |-> G[row]])
          /\ rows[customer] \in [balance : Int, paid : Int] /\ customer \in DOMAIN rows
      <3>1. [row \in S |-> G[row]] = [row \in S |-> rows[row].amount]
        BY DEF CarriedTo, OrdersOf
      <3>2. rows[customer] \in [balance : Int, paid : Int] /\ customer \in DOMAIN rows
        BY BaseFits DEF TypedbOK
      <3> QED  BY <3>1, <3>2 DEF TypedbOK, BalancesOK
    <2>2. IsFiniteSet(S)
      <3>1. S \subseteq OrdersOf(rows, d)
        BY DEF CarriedTo
      <3> QED  BY <3>1, FS_Subset DEF TypedbOK, Counted
    <2>3. \A row \in DOMAIN rows : row[1] = "orders" => F[row] = G[row] /\ F[row] \in Int /\ then[row].c = rows[row].c
      <3>1. \A row \in DOMAIN rows : row[1] = "orders" => OrderFits(row, rows[row])
        BY DEF TypedbOK, StoreOK, Fits
      <3>2. \A q \in pick : then[q].amount = rows[q].amount /\ then[q].c = rows[q].c
        BY <1>1 DEF OrderFits
      <3>3. \A row \in DOMAIN rows : row[1] = "orders" =>
                then[row].amount = rows[row].amount /\ then[row].c = rows[row].c
        BY <1>4, <3>2
      <3> QED  BY <3>1, <3>3 DEF OrderFits
    <2>4. CarriedTo(then, d, c) = S \cup {q \in pick : q[2] = d /\ rows[q].c = c}
      <3>1. ASSUME NEW row \in DOMAIN rows, row[1] = "orders"
            PROVE  then[row].delivered <=> rows[row].delivered \/ row \in pick
        BY <1>1, <1>4, <3>1
      <3> QED  BY <1>1, <1>7, <2>3, <3>1 DEF CarriedTo, OrdersOf
    <2>5. [row \in CarriedTo(then, d, c) |-> then[row].amount] = [row \in CarriedTo(then, d, c) |-> F[row]]
      BY <1>7 DEF CarriedTo, OrdersOf
    <2>6. \A y \in CarriedTo(then, d, c) : F[y] \in Int
      BY <1>7, <2>3 DEF CarriedTo, OrdersOf
    <2>7. \A y \in S : G[y] = F[y]
      BY <2>3 DEF CarriedTo, OrdersOf
    <2>8. CASE \E q \in pick : Payer(q) = customer
      <3>1. PICK q \in pick : q[2] = d /\ rows[q].c = c /\ Payer(q) = customer
        BY <2>8, RowKeys
      <3>2. q \notin S
        BY <1>1 DEF CarriedTo
      <3>3. CarriedTo(then, d, c) = S \cup {q}
        BY <2>4, <3>1 DEF Picked
      <3>4. F[q] = rows[q].amount /\ F[q] \in Int
        BY <1>1, <2>3
      <3> HIDE DEF F, G, S
      <3>5. \A y \in S \cup {q} : F[y] \in Int
        BY <2>6, <3>3
      <3>6. SumFunction([y \in S \cup {q} |-> F[y]]) = SumFunction([y \in S |-> G[y]]) + F[q]
        BY <2>2, <2>7, <3>2, <3>5, SumOneMore
      <3>7. /\ then[customer].balance = rows[customer].balance + F[q]
            /\ then[customer].paid = rows[customer].paid
        BY <1>2, <3>1, <3>4
      <3>8. rows[customer].balance \in Int /\ rows[customer].paid \in Int
        BY <2>1
      <3> HIDE DEF customer
      <3>9. then[customer].balance + then[customer].paid = SumFunction([y \in S \cup {q} |-> F[y]])
        BY <2>1, <3>4, <3>6, <3>7, <3>8
      <3> QED  BY <2>5, <3>3, <3>9 DEF customer
    <2>9. CASE ~ \E q \in pick : Payer(q) = customer
      <3>1. CarriedTo(then, d, c) = S
        BY <2>4, <2>9
      <3>2. then[customer] = rows[customer]
        <4>1. customer \notin pick
          BY <1>1, RowKeys
        <4> QED  BY <2>1, <2>9, <4>1 DEF Carries
      <3>3. [row \in S |-> F[row]] = [row \in S |-> G[row]]
        BY <2>7
      <3> HIDE DEF F, G, S
      <3> QED  BY <2>1, <2>5, <3>1, <3>2, <3>3
    <2> QED  BY <2>8, <2>9
  <1> QED  BY <1>6, <1>8, <1>9, <1>10, <1>11, <1>12, <1>13 DEF TypedbOK

\* What is stored if every row the transaction has changed is as in its snapshot.
LEMMA TypedbStored ==
    ASSUME NEW i \in Clients, NEW s, StoreOK(s), StoreOK(db), Fresh(db), ended[i] \in Nat,
           DOMAIN s \subseteq DOMAIN db, NEW r \in Requests,
           NEW w \in Typedb2!Outcomes(i, r, s),
           \A row \in DOMAIN w \cap DOMAIN s : db[row] = s[row],
           NEW then, then = Without(Overlay(w, db))
    PROVE  \/ r \in Orders /\ Adds(r, OrderNode(i, r.d, db[DistrictRow(r.d)].next), db, then)
           \/ r.d \in DIds /\ r.c \in CIds /\ Pays(r, HistoryRow(i, ended[i]), db, then)
           \/ \E pick : Picked(pick, db) /\ Carries(pick, db, then)
PROOF
  <1>1. \A row : /\ row \in DOMAIN then <=>
                        \/ row \in DOMAIN w /\ w[row] # Gone
                        \/ row \in DOMAIN db \ DOMAIN w
                 /\ row \in DOMAIN then =>
                        then[row] = IF row \in DOMAIN w THEN w[row] ELSE db[row]
    <2>1. \A row \in DOMAIN db : db[row] # Gone
      BY DEF StoreOK, Fits
    <2> QED  BY <2>1, WrittenIs
  <1>2. r.type \in {"NEW_ORDER", "PAYMENT", "DELIVERY", "READ"}
    BY RequestKinds
  <1>3. ASSUME w = NoRows
        PROVE  \E pick : Picked(pick, db) /\ Carries(pick, db, then)
    <2>1. Picked({}, db) /\ Carries({}, db, then)
      BY <1>1, <1>3, NoRowsAre DEF Picked, Carries
    <2> QED  BY <2>1
  <1>4. CASE r.type = "NEW_ORDER"
    <2> DEFINE district == DistrictRow(r.d)
               node == OrderNode(i, r.d, db[district].next)
    <2>1. w = IF UnknownItem(r) THEN NoRows ELSE Typedb2!NewOrder(i, r, s)
      BY <1>4, TypedbRows DEF Typedb2!Outcomes
    <2>2. CASE UnknownItem(r)
      BY <1>3, <2>1, <2>2
    <2>3. CASE ~ UnknownItem(r)
      <3>1. r \in Orders /\ r.d \in DIds /\ ToSet(r.items) \subseteq Items /\ PlacedOrder(r) # Gone
        BY <1>4, RequestKinds, OrderIs
      <3>2. /\ district \in DOMAIN s /\ s[district] \in [next : Nat \ {0}, ytd : Int]
            /\ \A n \in ToSet(r.items) : StockRow(n) \in DOMAIN s
        BY <3>1, BaseFits
      <3> DEFINE was == OrderNode(i, r.d, s[district].next)
      <3>0. /\ DOMAIN w = {district, was} \cup {StockRow(n) : n \in ToSet(r.items)}
            /\ w[district] = Increased(s[district])
            /\ w[was] = PlacedOrder(r)
            /\ \A n \in ToSet(r.items) : w[StockRow(n)] = Stocked(s[StockRow(n)])
        <4>1. OrderWrites(w, was, r, s)
          BY <2>1, <2>3, TypedbOrder
        <4> QED  BY <4>1 DEF OrderWrites
      <3>3. /\ district \in DOMAIN w
            /\ \A n \in ToSet(r.items) : StockRow(n) \in DOMAIN w
        BY <3>0
      <3>4. /\ db[district] = s[district] /\ db[district] \in [next : Nat \ {0}, ytd : Int]
            /\ \A n \in ToSet(r.items) : db[StockRow(n)] = s[StockRow(n)]
        BY <3>2, <3>3
      <3>34. \A n \in ToSet(r.items) : db[StockRow(n)] \in [ytd : Int, count : Int]
        BY <3>1, BaseFits
      <3>5. /\ DOMAIN w = {district, node} \cup {StockRow(n) : n \in ToSet(r.items)}
            /\ w[district] = Increased(db[district])
            /\ w[node] = PlacedOrder(r)
            /\ \A n \in ToSet(r.items) :
                  w[StockRow(n)] = Stocked(db[StockRow(n)])
        BY <3>0, <3>4
      <3>6. /\ w[district] # Gone
            /\ \A n \in ToSet(r.items) : w[StockRow(n)] # Gone
        <4>1. Increased(db[district]) # Gone
          BY <3>4, DistrictValues
        <4>2. \A n \in ToSet(r.items) : Stocked(db[StockRow(n)]) # Gone
          BY <3>34, StockValues
        <4> QED  BY <3>5, <4>1, <4>2
      <3>7. node \notin DOMAIN db
        BY NodeIs DEF Fresh
      <3> HIDE DEF node, district
      <3>8. \A row \in DOMAIN w : row \in DOMAIN then /\ then[row] = w[row]
        BY <1>1, <3>1, <3>5, <3>6
      <3>9. DOMAIN then = DOMAIN db \cup {node}
        <4>1. DOMAIN w \subseteq DOMAIN db \cup {node}
          BY <3>2, <3>5
        <4>2. \A row \in DOMAIN then : row \in DOMAIN w \/ row \in DOMAIN db
          BY <1>1
        <4>3. \A row \in DOMAIN db : row \in DOMAIN then
          BY <1>1, <3>8
        <4> QED  BY <3>5, <3>8, <4>1, <4>2, <4>3
      <3>10. \A row \in DOMAIN db :
                row # district /\ (\A n \in ToSet(r.items) : row # StockRow(n)) => then[row] = db[row]
        BY <1>1, <3>5, <3>7, <3>9
      <3>11. Adds(r, node, db, then)
        BY <3>5, <3>7, <3>8, <3>9, <3>10 DEF Adds, district
      <3> QED  BY <3>1, <3>11 DEF node, district
    <2> QED  BY <2>2, <2>3
  <1>5. CASE r.type = "PAYMENT"
    <2> DEFINE district == DistrictRow(r.d)
               payer    == CustomerRow(r.d, r.c)
               receipt  == HistoryRow(i, ended[i])
    <2>1. w = Typedb2!Payment(i, r, s)
      BY <1>5 DEF Typedb2!Outcomes
    <2>2. r.d \in DIds /\ r.c \in CIds
      BY <1>5, RequestKinds
    <2>3. {WarehouseRow, district, payer} \subseteq DOMAIN s
      BY <2>2, BaseFits
    <2>4. /\ DOMAIN w = {WarehouseRow, district, payer, receipt}
          /\ w[WarehouseRow] = Received(s[WarehouseRow])
          /\ w[district] = Received(s[district])
          /\ w[payer] = Debited(s[payer])
          /\ w[receipt] = [d |-> r.d, c |-> r.c]
      <3>1. PaymentWrites(w, receipt, r, s)
        BY <2>1, TypedbPayment
      <3> QED  BY <3>1 DEF PaymentWrites
    <2>5. db[WarehouseRow] = s[WarehouseRow] /\ db[district] = s[district] /\ db[payer] = s[payer]
      BY <2>3, <2>4
    <2>6. /\ w[WarehouseRow] = Received(db[WarehouseRow])
          /\ w[district] = Received(db[district])
          /\ w[payer] = Debited(db[payer])
          /\ w[receipt] = [d |-> r.d, c |-> r.c]
      BY <2>4, <2>5
    <2>7. /\ db[WarehouseRow] \in [ytd : Int] /\ db[district] \in [next : Nat \ {0}, ytd : Int]
      BY <2>2, BaseFits
    <2>8. \A row \in DOMAIN w : w[row] # Gone
      <3>1. w[WarehouseRow] # Gone /\ w[district] # Gone
        BY <2>6, <2>7, WarehouseValues, DistrictValues
      <3>2. "balance" \in DOMAIN w[payer] /\ "c" \in DOMAIN w[receipt]
        BY <2>6 DEF Debited
      <3> QED  BY <2>4, <3>1, <3>2, NotGone
    <2>9. receipt \notin DOMAIN db
      BY DEF Fresh
    <2> HIDE DEF district, payer, receipt
    <2>10. \A row \in DOMAIN w : row \in DOMAIN then /\ then[row] = w[row]
      BY <1>1, <2>8
    <2>11. DOMAIN then = DOMAIN db \cup {receipt}
      BY <1>1, <2>3, <2>4, <2>10
    <2>12. \A row \in DOMAIN db \ {WarehouseRow, district, payer} : then[row] = db[row]
      BY <1>1, <2>4, <2>9, <2>11
    <2>13. Pays(r, receipt, db, then)
      BY <2>4, <2>6, <2>9, <2>10, <2>11, <2>12 DEF Pays, district, payer
    <2> QED  BY <2>2, <2>13 DEF receipt
  <1>6. CASE r.type = "DELIVERY"
    <2>1. PICK pick \in Typedb2!Picks(s) : w = Typedb2!Delivery(pick, s)
      BY <1>6 DEF Typedb2!Outcomes
    <2>2. Picked(pick, s)
      BY TypedbPicks
    <2> DEFINE Payer(q) == CustomerRow(q[2], s[q].c)
    <2>3. /\ DOMAIN w = pick \cup {Payer(q) : q \in pick}
          /\ \A q \in pick : /\ w[q] = Carried(s[q])
                             /\ w[Payer(q)] = Credited(s[Payer(q)], s[q].amount)
      <3>1. DeliveryWrites(w, pick, s)
        BY <2>1, <2>2, TypedbDelivery
      <3> QED  BY <3>1 DEF DeliveryWrites
    <2>4. ASSUME NEW q \in pick
          PROVE  /\ q \in DOMAIN s /\ OrderFits(q, s[q]) /\ q[2] \in DIds
                 /\ Payer(q) \in DOMAIN s /\ s[Payer(q)] \in [balance : Int, paid : Int]
      <3>1. q \in DOMAIN s /\ OrderFits(q, s[q]) /\ q[2] \in DIds
        BY <2>2 DEF Picked, StoreOK, Fits
      <3>2. s[q].c \in CIds
        BY <3>1 DEF OrderFits
      <3> QED  BY <3>1, <3>2, BaseFits
    <2>5. \A q \in pick : db[q] = s[q] /\ db[Payer(q)] = s[Payer(q)] /\ Payer(q) = CustomerRow(q[2], db[q].c)
      BY <2>3, <2>4
    <2>6. \A row \in DOMAIN w : w[row] # Gone
      <3>1. ASSUME NEW q \in pick
            PROVE  w[q] # Gone /\ w[Payer(q)] # Gone
        <4>1. Carried(s[q]) # Gone
          BY <2>4, OrderValues
        <4>2. s[q].amount \in Int
          BY <2>4 DEF OrderFits
        <4>3. Credited(s[Payer(q)], s[q].amount) # Gone
          BY <2>4, <4>2, CustomerValues
        <4> QED  BY <2>3, <4>1, <4>3
      <3> QED  BY <2>3, <3>1
    <2>7. Picked(pick, db)
      BY <2>2, <2>5 DEF Picked
    <2>8. \A row \in DOMAIN w : row \in DOMAIN then /\ then[row] = w[row] /\ row \in DOMAIN db
      BY <1>1, <2>3, <2>4, <2>6
    <2>9. DOMAIN then = DOMAIN db
      BY <1>1, <2>8
    <2>10. ASSUME NEW q \in pick
           PROVE  LET payer == CustomerRow(q[2], db[q].c) IN
                  /\ then[q] = Carried(db[q])
                  /\ then[payer] = Credited(db[payer], db[q].amount)
      <3>1. q \in DOMAIN w /\ Payer(q) \in DOMAIN w
        BY <2>3
      <3>2. then[q] = w[q] /\ then[Payer(q)] = w[Payer(q)]
        BY <2>8, <3>1
      <3> HIDE DEF Payer
      <3> QED  BY <2>3, <2>5, <3>2
    <2>11. ASSUME NEW row \in DOMAIN db \ pick, \A q \in pick : row # CustomerRow(q[2], db[q].c)
           PROVE  then[row] = db[row]
      <3>1. row \notin DOMAIN w
        BY <2>3, <2>5, <2>11
      <3> QED  BY <1>1, <3>1
    <2>12. Carries(pick, db, then)
      BY <2>9, <2>10, <2>11 DEF Carries
    <2> QED  BY <2>7, <2>12
  <1>7. CASE r.type = "READ"
    <2>1. w = NoRows
      BY <1>7, TypedbRows DEF Typedb2!Outcomes
    <2> QED  BY <1>3, <2>1
  <1> QED  BY <1>2, <1>4, <1>5, <1>6, <1>7

-----------------------------------------------------------------------------
\* A call's outcomes are the same as long as the client's calls are as many.
LEMMA TypedbSameOutcomes ==
    ASSUME NEW j, ended'[j] = ended[j], NEW r, NEW s
    PROVE  Typedb2!Outcomes(j, r, s)' = Typedb2!Outcomes(j, r, s)
PROOF
  <1>1. \A d, o : Typedb2!OrderNode(j, d, o)' = Typedb2!OrderNode(j, d, o)
    BY DEF Typedb2!OrderNode
  <1>2. Typedb2!NewOrder(j, r, s)' = Typedb2!NewOrder(j, r, s)
    BY <1>1, Zenon DEF Typedb2!NewOrder
  <1>3. Typedb2!Payment(j, r, s)' = Typedb2!Payment(j, r, s)
    BY Zenon DEF Typedb2!Payment
  <1> QED  BY <1>2, <1>3, Zenon DEF Typedb2!Outcomes

\* A step of one client that stores nothing keeps what the others run on.
LEMMA TypedbOthers ==
    ASSUME NEW j, ended'[j] = ended[j], request'[j] = request[j], written'[j] = written[j],
           seen'[j] = seen[j], DOMAIN db \subseteq DOMAIN db', NEW s, RunsOn(j, s)
    PROVE  RunsOn(j, s)'
PROOF BY TypedbSameOutcomes DEF RunsOn

\* The transaction is opened: it runs on what is committed now.
LEMMA TypedbRun ==
    ASSUME TypedbInv, NEW i \in Clients, Typedb2!Run(i), driver' = driver
    PROVE  TypedbInv'
PROOF
  <1>1. PICK r \in Requests :
            /\ pc[i] = "idle" /\ ended[i] < MaxTransactions
            /\ request' = [request EXCEPT ![i] = r]
            /\ pc' = [pc EXCEPT ![i] = "commit"]
            /\ \E changes \in Typedb2!Outcomes(i, r, db) :
                  /\ written' = [written EXCEPT ![i] = changes]
                  /\ seen' = [seen EXCEPT ![i] = Restrict(db, DOMAIN changes \cap DOMAIN db)]
    <2>1. Typedb2!Requests = Requests
      <3>1. Typedb2!DIds = DIds /\ Typedb2!CIds = CIds /\ Typedb2!Items = Items
        BY DEF Typedb2!DIds, DIds, Typedb2!CIds, CIds, Typedb2!Items, Items
      <3>2. \A S, T : Typedb2!Injection(S, T) = Injection(S, T)
        BY Zenon DEF Typedb2!Injection, Injection, Typedb2!IsInjective, IsInjective
      <3>3. Typedb2!Orders = Orders
        BY <3>1, <3>2, Zenon DEF Typedb2!Orders, Orders
      <3> QED  BY <3>1, <3>3, Zenon DEF Typedb2!Requests, Requests
    <2> QED  BY <2>1, TypedbRows DEF Typedb2!Run, Typedb2!Called
  <1>2. PICK changes \in Typedb2!Outcomes(i, r, db) :
            /\ written' = [written EXCEPT ![i] = changes]
            /\ seen' = [seen EXCEPT ![i] = Restrict(db, DOMAIN changes \cap DOMAIN db)]
    BY <1>1
  <1>3. open' = [open EXCEPT ![i] = "yes"] /\ db' = db /\ ended' = ended
    BY DEF Typedb2!Run
  <1>4. RequestsOK'
    BY <1>1, RequestKinds DEF TypedbInv, RequestsOK
  <1>5. EndedOK'
    BY <1>1, <1>3 DEF TypedbInv, EndedOK, RequestsOK
  <1>6. TypedbOK(db)' /\ Fresh(db)'
    BY <1>3 DEF TypedbInv, Fresh
  <1>7. DOMAIN written' = Clients /\ DOMAIN open' = Clients /\ DOMAIN seen' = Clients
    BY <1>2, <1>3 DEF TypedbInv
  <1>8. ASSUME NEW j \in Clients
        PROVE  /\ pc'[j] \in {"idle", "commit"}
               /\ pc'[j] = "idle" => written'[j] = NoRows /\ open'[j] = "no"
               /\ pc'[j] = "commit" => open'[j] = "yes" /\ \E s : RunsOn(j, s)'
    <2>1. CASE j = i
      <3>1. PICK s : s = db
        OBVIOUS
      <3>2. /\ pc'[j] = "commit" /\ request'[j] = r /\ written'[j] = changes
            /\ seen'[j] = Restrict(s, DOMAIN changes \cap DOMAIN s) /\ open'[j] = "yes"
        BY <1>1, <1>2, <1>3, <2>1, <3>1 DEF TypedbInv, RequestsOK
      <3>3. changes \in Typedb2!Outcomes(j, r, s)'
        BY <1>3, <2>1, <3>1, TypedbSameOutcomes
      <3>4. RunsOn(j, s)'
        BY <1>3, <3>1, <3>2, <3>3 DEF RunsOn, TypedbInv, TypedbOK
      <3> QED  BY <3>2, <3>4
    <2>2. CASE j # i
      <3>1. /\ pc'[j] = pc[j] /\ request'[j] = request[j] /\ written'[j] = written[j]
            /\ seen'[j] = seen[j] /\ open'[j] = open[j]
        BY <1>1, <1>2, <1>3, <2>2 DEF TypedbInv, RequestsOK
      <3>2. \A s : RunsOn(j, s) => RunsOn(j, s)'
        BY <1>3, <3>1, TypedbOthers
      <3> QED  BY <3>1, <3>2 DEF TypedbInv
    <2> QED  BY <2>1, <2>2
  <1> QED  BY <1>4, <1>5, <1>6, <1>7, <1>8 DEF TypedbInv

\* A transaction is over, whatever has become of it.
LEMMA TypedbEnds ==
    ASSUME TypedbInv, NEW i \in Clients, Typedb2!Closes(i), Typedb2!Returns(i), driver' = driver,
           pc[i] = "commit", TypedbOK(db'), Fresh(db)', DOMAIN db \subseteq DOMAIN db'
    PROVE  TypedbInv'
PROOF
  <1>1. /\ pc' = [pc EXCEPT ![i] = "idle"] /\ request' = [request EXCEPT ![i] = NoRequest]
        /\ seen' = [seen EXCEPT ![i] = NoRows] /\ ended' = [ended EXCEPT ![i] = ended[i] + 1]
        /\ written' = [written EXCEPT ![i] = NoRows] /\ open' = [open EXCEPT ![i] = "no"]
    BY TypedbRows DEF Typedb2!Closes, Typedb2!Returns, Typedb2!NoRequest, NoRequest
  <1>2. RequestsOK'
    BY <1>1 DEF TypedbInv, RequestsOK
  <1>3. EndedOK'
    BY <1>1, DurationAssumption DEF TypedbInv, EndedOK, RequestsOK
  <1>4. DOMAIN written' = Clients /\ DOMAIN open' = Clients /\ DOMAIN seen' = Clients
    BY <1>1 DEF TypedbInv
  <1>5. ASSUME NEW j \in Clients
        PROVE  /\ pc'[j] \in {"idle", "commit"}
               /\ pc'[j] = "idle" => written'[j] = NoRows /\ open'[j] = "no"
               /\ pc'[j] = "commit" => open'[j] = "yes" /\ \E s : RunsOn(j, s)'
    <2>1. CASE j = i
      BY <1>1, <2>1 DEF TypedbInv, RequestsOK
    <2>2. CASE j # i
      <3>1. /\ pc'[j] = pc[j] /\ request'[j] = request[j] /\ written'[j] = written[j]
            /\ seen'[j] = seen[j] /\ open'[j] = open[j] /\ ended'[j] = ended[j]
        BY <1>1, <2>2 DEF TypedbInv, RequestsOK, EndedOK
      <3>2. \A s : RunsOn(j, s) => RunsOn(j, s)'
        BY <3>1, TypedbOthers
      <3> QED  BY <3>1, <3>2 DEF TypedbInv
    <2> QED  BY <2>1, <2>2
  <1> QED  BY <1>2, <1>3, <1>4, <1>5 DEF TypedbInv

\* What the kinds of changes are to rows of the next calls.
LEMMA TypedbFresh ==
    ASSUME TypedbInv, NEW i \in Clients, ended' = [ended EXCEPT ![i] = ended[i] + 1],
           NEW row, row = HistoryRow(i, ended[i]) \/ \E d, o : row = OrderNode(i, d, o),
           DOMAIN db' \subseteq DOMAIN db \cup {row}
    PROVE  Fresh(db)'
PROOF
  <1>1. ASSUME NEW j \in Clients, NEW n \in Nat, n >= ended'[j]
        PROVE  n >= ended[j] /\ (j = i => n # ended[i])
    BY <1>1 DEF TypedbInv, EndedOK
  <1>2. ASSUME NEW j \in Clients, NEW n \in Nat, n >= ended'[j]
        PROVE  /\ HistoryRow(j, n) \notin DOMAIN db'
               /\ \A d, o : <<"orders", d, o, j, n>> \notin DOMAIN db'
    <2>1. n >= ended[j] /\ (j = i => n # ended[i])
      BY <1>1, <1>2
    <2>2. HistoryRow(j, n) \notin DOMAIN db /\ \A d, o : <<"orders", d, o, j, n>> \notin DOMAIN db
      BY <2>1 DEF TypedbInv, Fresh
    <2>3. HistoryRow(j, n) # row /\ \A d, o : <<"orders", d, o, j, n>> # row
      BY <2>1 DEF HistoryRow, OrderNode
    <2> QED  BY <2>2, <2>3
  <1> QED  BY <1>2 DEF Fresh

\* It commits what it would have written now.
LEMMA TypedbCommits ==
    ASSUME TypedbInv, NEW i \in Clients, Typedb2!Commit(i)
    PROVE  /\ pc[i] = "commit" /\ Typedb2!Closes(i) /\ Typedb2!Returns(i)
           /\ \/ \E r \in Orders :
                    Adds(r, OrderNode(i, r.d, db[DistrictRow(r.d)].next), db, db')
              \/ \E r : r.d \in DIds /\ r.c \in CIds /\ Pays(r, HistoryRow(i, ended[i]), db, db')
              \/ \E pick : Picked(pick, db) /\ Carries(pick, db, db')
PROOF
  <1>1. /\ pc[i] = "commit" /\ Typedb2!Closes(i) /\ Typedb2!Returns(i)
        /\ ~ Typedb2!Conflict(i) /\ db' = Typedb2!Visible(i)
    BY DEF Typedb2!Commit
  <1>2. db' = Without(Overlay(written[i], db))
    BY <1>1, TypedbRows DEF Typedb2!Visible, Typedb2!Without, Typedb2!Gone, Without, Gone
  <1>3. PICK s : RunsOn(i, s)
    BY <1>1 DEF TypedbInv
  <1>4. request[i] \in Requests
    BY <1>1 DEF TypedbInv, RequestsOK
  <1>5. \A row \in DOMAIN written[i] \cap DOMAIN s : db[row] = s[row]
    <2>1. \A row \in DOMAIN seen[i] : db[row] = seen[i][row]
      BY <1>1 DEF Typedb2!Conflict
    <2>2. seen[i] = Restrict(s, DOMAIN written[i] \cap DOMAIN s)
      BY <1>3 DEF RunsOn
    <2> QED  BY <2>1, <2>2 DEF Restrict
  <1>6. /\ StoreOK(s) /\ StoreOK(db) /\ Fresh(db) /\ ended[i] \in Nat /\ DOMAIN s \subseteq DOMAIN db
        /\ written[i] \in Typedb2!Outcomes(i, request[i], s)
    BY <1>3 DEF RunsOn, TypedbInv, TypedbOK, EndedOK
  <1>7. \/ request[i] \in Orders
              /\ Adds(request[i], OrderNode(i, request[i].d, db[DistrictRow(request[i].d)].next), db, db')
        \/ request[i].d \in DIds /\ request[i].c \in CIds
              /\ Pays(request[i], HistoryRow(i, ended[i]), db, db')
        \/ \E pick : Picked(pick, db) /\ Carries(pick, db, db')
    BY <1>2, <1>4, <1>5, <1>6, TypedbStored
  <1> QED  BY <1>1, <1>7

\* A commit keeps the invariant.
LEMMA TypedbCommit ==
    ASSUME TypedbInv, NEW i \in Clients, Typedb2!Commit(i), driver' = driver
    PROVE  TypedbInv'
PROOF
  <1>1. pc[i] = "commit" /\ Typedb2!Closes(i) /\ Typedb2!Returns(i)
    BY TypedbCommits
  <1>2. ended' = [ended EXCEPT ![i] = ended[i] + 1]
    BY <1>1 DEF Typedb2!Returns
  <1>3. TypedbOK(db)
    BY DEF TypedbInv
  <1>4. CASE \E r \in Orders :
                Adds(r, OrderNode(i, r.d, db[DistrictRow(r.d)].next), db, db')
    <2>1. PICK r \in Orders : Adds(r, OrderNode(i, r.d, db[DistrictRow(r.d)].next), db, db')
      BY <1>4
    <2> DEFINE node == OrderNode(i, r.d, db[DistrictRow(r.d)].next)
    <2>2. TypedbOK(db')
      BY <1>3, <2>1, NodeIs, TypedbOrders
    <2>3. DOMAIN db' = DOMAIN db \cup {node}
      BY <2>1 DEF Adds
    <2>4. Fresh(db)'
      BY <1>2, <2>3, TypedbFresh
    <2> QED  BY <1>1, <2>2, <2>3, <2>4, TypedbEnds
  <1>5. CASE \E r : r.d \in DIds /\ r.c \in CIds /\ Pays(r, HistoryRow(i, ended[i]), db, db')
    <2>1. PICK r : r.d \in DIds /\ r.c \in CIds /\ Pays(r, HistoryRow(i, ended[i]), db, db')
      BY <1>5
    <2>2. TypedbOK(db')
      BY <1>3, <2>1, RowKeys, TypedbPays
    <2>3. DOMAIN db' = DOMAIN db \cup {HistoryRow(i, ended[i])}
      BY <2>1 DEF Pays
    <2>4. Fresh(db)'
      BY <1>2, <2>3, TypedbFresh
    <2> QED  BY <1>1, <2>2, <2>3, <2>4, TypedbEnds
  <1>6. CASE \E pick : Picked(pick, db) /\ Carries(pick, db, db')
    <2>1. TypedbOK(db') /\ DOMAIN db' = DOMAIN db
      BY <1>3, <1>6, TypedbCarries DEF Carries
    <2>2. Fresh(db)'
      BY <1>2, <2>1, TypedbFresh
    <2> QED  BY <1>1, <2>1, <2>2, TypedbEnds
  <1> QED  BY <1>4, <1>5, <1>6, TypedbCommits

\* A commit that raises leaves the committed rows.
LEMMA TypedbCommitRaises ==
    ASSUME TypedbInv, NEW i \in Clients, Typedb2!CommitRaises(i), driver' = driver
    PROVE  TypedbInv'
PROOF
  <1>1. pc[i] = "commit" /\ Typedb2!Closes(i) /\ Typedb2!Returns(i) /\ db' = db
    BY DEF Typedb2!CommitRaises
  <1>2. ended' = [ended EXCEPT ![i] = ended[i] + 1]
    BY <1>1 DEF Typedb2!Returns
  <1>3. Fresh(db)'
    BY <1>1, <1>2, TypedbFresh
  <1>4. TypedbOK(db')
    BY <1>1 DEF TypedbInv
  <1> QED  BY <1>1, <1>3, <1>4, TypedbEnds

-----------------------------------------------------------------------------
\* The load satisfies the invariant.
LEMMA TypedbInit ==
    ASSUME driver = "typedb2", driver \in Drivers, Typedb2!Init
    PROVE  TypedbInv
PROOF
  <1>1. /\ db = FlaggedRows /\ pc = [j \in Clients |-> "idle"]
        /\ request = [j \in Clients |-> NoRequest] /\ seen = [j \in Clients |-> NoRows]
        /\ written = [j \in Clients |-> NoRows] /\ open = [j \in Clients |-> "no"]
        /\ ended = [j \in Clients |-> 0]
    <2>1. Typedb2!FlaggedRows = FlaggedRows
      <3>1. Typedb2!LoadedRows = LoadedRows
        <4>1. /\ Typedb2!CIds = CIds /\ Typedb2!Items = Items
              /\ \A d, o : Typedb2!OrderRow(d, o) = OrderRow(d, o)
              /\ \A d, o : Typedb2!NewRow(d, o) = NewRow(d, o)
              /\ \A n : Typedb2!LoadedNew(n) = LoadedNew(n)
          BY Zenon DEF Typedb2!CIds, CIds, Typedb2!Items, Items, Typedb2!OrderRow, OrderRow,
                 Typedb2!NewRow, NewRow, Typedb2!LoadedNew, LoadedNew
        <4> QED  BY <4>1, TypedbRows DEF Typedb2!LoadedRows, LoadedRows
      <3>2. \A row : Typedb2!LoadedValue(row) = LoadedValue(row)
        BY Zenon DEF Typedb2!LoadedValue, LoadedValue, Typedb2!LoadedNew, LoadedNew
      <3>3. Typedb2!Loaded = Loaded
        BY <3>1, <3>2, Zenon DEF Typedb2!Loaded, Loaded
      <3> QED  BY <3>1, <3>3, TypedbRows DEF Typedb2!FlaggedRows, FlaggedRows
    <2> QED  BY <2>1, TypedbRows
             DEF Typedb2!Init, Typedb2!InitOn, Typedb2!NoRequest, NoRequest
  <1>2. TypedbOK(db)
    <2>1. NumCustomers \in Nat
      BY CustomersAssumption
    <2> QED  BY <1>1, <2>1, LoadedStore, LoadedOrders, LoadedSums, LoadedBalances DEF TypedbOK
  <1>3. Fresh(db)
    <2>1. \A row \in DOMAIN db : row[1] # "history" /\ (row[1] = "orders" => Len(row) = 3)
      BY <1>1, LoadedKinds DEF OrderRow
    <2>2. \A d, o, j, n : <<"orders", d, o, j, n>>[1] = "orders" /\ Len(<<"orders", d, o, j, n>>) = 5
      OBVIOUS
    <2> QED  BY <2>1, <2>2, RowKeys DEF Fresh
  <1>4. RequestsOK /\ EndedOK
    BY <1>1, DurationAssumption DEF RequestsOK, EndedOK
  <1> QED  BY <1>1, <1>2, <1>3, <1>4 DEF TypedbInv

\* Every step of the TypeDB 2 clients keeps the invariant.
LEMMA TypedbNext ==
    ASSUME TypedbInv, Typedb2!Next, driver' = driver
    PROVE  TypedbInv'
PROOF BY TypedbRows, TypedbRun, TypedbCommit, TypedbCommitRaises DEF Typedb2!Next

\* With nothing done, everything is as it was.
LEMMA TypedbStutters ==
    ASSUME TypedbInv, driver' = driver, UNCHANGED vars
    PROVE  TypedbInv'
PROOF
  <1>1. \A j : ended'[j] = ended[j] /\ request'[j] = request[j] /\ written'[j] = written[j]
               /\ seen'[j] = seen[j]
    BY DEF vars
  <1>2. \A j, s : RunsOn(j, s) => RunsOn(j, s)'
    BY <1>1, TypedbOthers DEF vars
  <1>3. RequestsOK' /\ EndedOK' /\ TypedbOK(db)' /\ Fresh(db)'
    BY DEF TypedbInv, RequestsOK, EndedOK, Fresh, vars
  <1> QED  BY <1>2, <1>3 DEF TypedbInv, vars

\* What TypeDB keeps.
LEMMA TypedbProperties ==
    ASSUME TypedbInv
    PROVE  Consistent /\ NumbersFollowOrders /\ StockCountsLines
PROOF
  <1>1. TypeOK
    <2>1. BaseRows \subseteq DOMAIN db
      BY DEF TypedbInv, TypedbOK, StoreOK
    <2>2. LoadedRows \ {row \in LoadedRows : row[1] = "new_order"} \subseteq BaseRows
      BY RowKeys DEF LoadedRows, BaseRows
    <2> QED  BY <2>1, <2>2 DEF TypedbInv, TypeOK, RequestsOK, EndedOK
  <1>2. Check1(db) /\ Check9(db) /\ BalancesArePaid
    BY DEF TypedbInv, TypedbOK, HistoryOK, Check9, BalancesOK, BalancesArePaid
  <1>3. ASSUME NEW d \in DIds
        PROVE  LET orders == Numbered(db, "orders", d)
                   next   == db[DistrictRow(d)].next
               IN  /\ next = Cardinality(OrdersOf(db, d)) + 1
                   /\ Cardinality(OrdersOf(db, d)) = Cardinality(orders)
                   /\ orders = 1 .. Max(orders)
                   /\ next <= Max(orders) + 1
    <2> DEFINE next == db[DistrictRow(d)].next
    <2>1. next \in Nat \ {0} /\ Numbered(db, "orders", d) = 1 .. next - 1
      BY BaseFits DEF TypedbInv, TypedbOK
    <2>2. next = Cardinality(OrdersOf(db, d)) + 1 /\ Cardinality(OrdersOf(db, d)) \in Nat
      BY FS_CardinalityType DEF TypedbInv, TypedbOK, Counted
    <2>3. next > 1
      <3>1. NumCustomers \in Nat \ {0}
        BY CustomersAssumption
      <3>2. OrderRow(d, 1) \in DOMAIN db
        BY <3>1 DEF TypedbInv, TypedbOK, StoreOK, BaseRows, CIds
      <3>3. 1 \in Numbered(db, "orders", d)
        BY <3>2, RowKeys DEF Numbered
      <3> QED  BY <2>1, <3>3
    <2> HIDE DEF next
    <2>4. Max(1 .. next - 1) = next - 1
      <3>1. \A x \in 1 .. next - 1 : x >= next - 1 => x = next - 1
        BY <2>1
      <3>2. next - 1 \in 1 .. next - 1 /\ \A y \in 1 .. next - 1 : next - 1 >= y
        BY <2>1, <2>3
      <3> QED  BY <3>1, <3>2, Zenon DEF Max
    <2>5. Cardinality(1 .. next - 1) = next - 1
      BY <2>1, <2>3, FS_Interval
    <2> QED  BY <2>1, <2>2, <2>4, <2>5 DEF next
  <1>4. StockCountsLines
    BY DEF TypedbInv, TypedbOK, StockOK, StockCountsLines, LinesIn, LinesOf
  <1> QED  BY <1>1, <1>2, <1>3, <1>4 DEF Consistent, NumbersFollowOrders, TypedbInv

-----------------------------------------------------------------------------
(***************************************************************************)
(* SQLite.  What a transaction sees, once it is the one that may write,    *)
(* and what it is to commit.                                               *)
(***************************************************************************)
IsRows(rows) == rows = [row \in DOMAIN rows |-> rows[row]]

\* Orders are numbered from 1, without gap; D_NEXT_O_ID is not ahead of them.
NumberedFromOne(rows) ==
    \A d \in DIds : \E top \in Nat :
        /\ \A o : OrderRow(d, o) \in DOMAIN rows <=> o \in 1 .. top
        /\ rows[DistrictRow(d)].next <= top + 1

\* The new orders are the last ones,
LastAreNew(rows) ==
    \A d \in DIds : \A o, p :
        NewRow(d, o) \in DOMAIN rows /\ OrderRow(d, p) \in DOMAIN rows /\ o <= p
            => NewRow(d, p) \in DOMAIN rows

\* and those that have no carrier.
NewAreOpen(rows) ==
    \A d \in DIds : \A o :
        OrderRow(d, o) \in DOMAIN rows =>
            (rows[OrderRow(d, o)].delivered <=> NewRow(d, o) \notin DOMAIN rows)

KeysOK(rows) ==
    \A row \in DOMAIN rows :
        /\ row[1] = "orders" => row = OrderRow(row[2], row[3])
        /\ row[1] = "new_order" => /\ row = NewRow(row[2], row[3])
                                   /\ row[2] \in DIds
                                   /\ OrderRow(row[2], row[3]) \in DOMAIN rows

SqliteOK(rows) ==
    /\ IsRows(rows)
    /\ StoreOK(rows)
    /\ KeysOK(rows)
    /\ NumberedFromOne(rows)
    /\ LastAreNew(rows)
    /\ NewAreOpen(rows)
    /\ Check1(rows)
    /\ HistoryOK(rows)
    /\ StockOK(rows)

\* Orders stay, and what is no longer new stays so.
Later(rows, then) ==
    /\ \A d, o : OrderRow(d, o) \in DOMAIN rows => OrderRow(d, o) \in DOMAIN then
    /\ \A d, o : NewRow(d, o) \in DOMAIN then =>
                     NewRow(d, o) \in DOMAIN rows \/ OrderRow(d, o) \notin DOMAIN rows

\* What may happen to rows may happen in several steps.
LEMMA LaterTransitive ==
    ASSUME NEW rows, NEW then, NEW last, Later(rows, then), Later(then, last)
    PROVE  Later(rows, last)
PROOF BY DEF Later

\* A row of NEW_ORDER that is the first, or gone.
Takeable(row, rows) ==
    /\ row = NewRow(row[2], row[3]) /\ row[2] \in DIds
    /\ OrderRow(row[2], row[3]) \in DOMAIN rows
    /\ \A p : NewRow(row[2], p) \in DOMAIN rows => row[3] <= p

\* What has been read before the first write still says about rows.
ReadOK(r, s, rows) ==
    /\ r \in Requests /\ r.type # "READ" /\ ~ UnknownItem(r)
    /\ r.type = "NEW_ORDER" =>
          LET next == s[DistrictRow(r.d)].next IN
          next \in Nat \ {0} /\ (next = 1 \/ OrderRow(r.d, next - 1) \in DOMAIN rows)
    /\ r.type = "PAYMENT" => s[CustomerRow(r.d, r.c)] \in [balance : Int, paid : Int]
    /\ r.type = "DELIVERY" => \A row \in DOMAIN s : Takeable(row, rows)

\* The numbers of orders.
LEMMA OrderNumbers ==
    ASSUME NEW rows, SqliteOK(rows), NEW d \in DIds
    PROVE  /\ \A o : OrderRow(d, o) \in DOMAIN rows => o \in Nat \ {0}
           /\ \A o : NewRow(d, o) \in DOMAIN rows => OrderRow(d, o) \in DOMAIN rows
           /\ \A o, p : OrderRow(d, o) \in DOMAIN rows /\ p \in Nat \ {0} /\ p <= o =>
                  OrderRow(d, p) \in DOMAIN rows
PROOF
  <1>1. PICK top \in Nat : \A o : OrderRow(d, o) \in DOMAIN rows <=> o \in 1 .. top
    BY DEF SqliteOK, NumberedFromOne
  <1>2. \A o : NewRow(d, o) \in DOMAIN rows => OrderRow(d, o) \in DOMAIN rows
    BY RowKeys DEF SqliteOK, KeysOK
  <1> QED  BY <1>1, <1>2

\* It does as long as others store what is later.
LEMMA StillReadOK ==
    ASSUME NEW r, NEW s, NEW rows, NEW then, ReadOK(r, s, rows),
           SqliteOK(rows), SqliteOK(then), Later(rows, then)
    PROVE  ReadOK(r, s, then)
PROOF
  <1>1. ASSUME NEW row, Takeable(row, rows)
        PROVE  Takeable(row, then)
    <2> DEFINE d == row[2]
               o == row[3]
    <2>1. d \in DIds /\ OrderRow(d, o) \in DOMAIN rows /\ OrderRow(d, o) \in DOMAIN then
      BY <1>1 DEF Takeable, Later
    <2>2. ASSUME NEW p, NewRow(d, p) \in DOMAIN then
          PROVE  o <= p
      <3>1. OrderRow(d, p) \in DOMAIN then /\ p \in Nat \ {0} /\ o \in Nat \ {0}
        BY <2>1, <2>2, OrderNumbers
      <3>2. CASE NewRow(d, p) \in DOMAIN rows
        BY <1>1, <3>2 DEF Takeable
      <3>3. CASE OrderRow(d, p) \notin DOMAIN rows
        <4>1. ~ (p <= o)
          BY <2>1, <3>1, <3>3, OrderNumbers
        <4> QED  BY <3>1, <4>1
      <3> QED  BY <2>2, <3>2, <3>3 DEF Later
    <2> QED  BY <1>1, <2>1, <2>2 DEF Takeable
  <1>2. \A d, o : OrderRow(d, o) \in DOMAIN rows => OrderRow(d, o) \in DOMAIN then
    BY DEF Later
  <1> QED  BY <1>1, <1>2 DEF ReadOK

-----------------------------------------------------------------------------
\* A value of a district after D_NEXT_O_ID is set.
Renumbered(value, next) == [value EXCEPT !.next = next]

\* It is still the value of a district, with the same D_YTD.
LEMMA RenumberedValues ==
    ASSUME NEW value \in [next : Nat \ {0}, ytd : Int], NEW next \in Nat \ {0}
    PROVE  /\ Renumbered(value, next) \in [next : Nat \ {0}, ytd : Int]
           /\ Renumbered(value, next).next = next /\ Renumbered(value, next).ytd = value.ytd
           /\ Renumbered(value, next) # Gone
PROOF
  <1>1. DOMAIN Gone = {"gone"}
    BY DEF Gone
  <1> QED  BY <1>1 DEF Renumbered

\* An order under number o.
SqliteAdds(r, o, rows, then) ==
    LET district == DistrictRow(r.d) IN
    /\ IsRows(then)
    /\ DOMAIN then = DOMAIN rows \cup {OrderRow(r.d, o), NewRow(r.d, o)}
    /\ then[OrderRow(r.d, o)] = PlacedOrder(r)
    /\ then[NewRow(r.d, o)] = [new |-> TRUE]
    /\ then[district] = Renumbered(rows[district], o + 1)
    /\ \A n \in ToSet(r.items) : then[StockRow(n)] = Stocked(rows[StockRow(n)])
    /\ \A row \in DOMAIN rows :
          row # district /\ (\A n \in ToSet(r.items) : row # StockRow(n)) => then[row] = rows[row]

\* D_NEXT_O_ID alone, and no more than one ahead.
SqliteRenumbers(d, next, rows, then) ==
    /\ IsRows(then)
    /\ DOMAIN then = DOMAIN rows
    /\ then[DistrictRow(d)] = Renumbered(rows[DistrictRow(d)], next)
    /\ \A row \in DOMAIN rows \ {DistrictRow(d)} : then[row] = rows[row]

\* A payment; the customer's balance may be any.
SqlitePays(r, receipt, rows, then) ==
    LET district == DistrictRow(r.d)
        payer    == CustomerRow(r.d, r.c)
    IN  /\ IsRows(then)
        /\ receipt \notin DOMAIN rows
        /\ DOMAIN then = DOMAIN rows \cup {receipt}
        /\ then[receipt] = [d |-> r.d, c |-> r.c]
        /\ then[WarehouseRow] = Received(rows[WarehouseRow])
        /\ then[district] = Received(rows[district])
        /\ then[payer] \in [balance : Int, paid : Int]
        /\ \A row \in DOMAIN rows \ {WarehouseRow, district, payer} : then[row] = rows[row]

\* The new orders that are taken have a carrier; so may one that no longer was new.
SqliteCarries(taken, rows, then) ==
    /\ IsRows(then)
    /\ DOMAIN then = DOMAIN rows \ taken
    /\ \A row \in taken :
          then[OrderRow(row[2], row[3])] = Carried(rows[OrderRow(row[2], row[3])])
    /\ \A row \in DOMAIN then :
          /\ row[1] = "customer" => then[row] \in [balance : Int, paid : Int]
          /\ row[1] # "customer" /\ (\A n \in taken : row # OrderRow(n[2], n[3])) =>
                 then[row] = rows[row]

\* The rows stay consistent when an order is placed under a number that is free.
LEMMA SqliteOrders ==
    ASSUME NEW rows, SqliteOK(rows), NEW then, NEW r \in Orders, NEW o \in Nat \ {0},
           OrderRow(r.d, o) \notin DOMAIN rows,
           o = 1 \/ OrderRow(r.d, o - 1) \in DOMAIN rows,
           SqliteAdds(r, o, rows, then)
    PROVE  SqliteOK(then) /\ Later(rows, then)
PROOF
  <1> DEFINE e     == r.d
             order == OrderRow(e, o)
             new   == NewRow(e, o)
  <1>1. /\ e \in DIds /\ ToSet(r.items) \subseteq Items
        /\ "items" \in DOMAIN PlacedOrder(r) /\ PlacedOrder(r).items = r.items
        /\ PlacedOrder(r).delivered = FALSE /\ PlacedOrder(r) # Gone
        /\ OrderFits(order, PlacedOrder(r))
    <2>1. order[2] = e /\ order[3] \in Nat
      BY RowKeys
    <2> HIDE DEF order
    <2> QED  BY <2>1, OrderIs
  <1>2. /\ rows[DistrictRow(e)] \in [next : Nat \ {0}, ytd : Int] /\ DistrictRow(e) \in DOMAIN rows
        /\ WarehouseRow \in DOMAIN rows
    BY <1>1, BaseFits DEF SqliteOK
  <1>3. /\ then[DistrictRow(e)].next = o + 1
        /\ then[DistrictRow(e)].ytd = rows[DistrictRow(e)].ytd
        /\ then[DistrictRow(e)] \in [next : Nat \ {0}, ytd : Int]
        /\ then[DistrictRow(e)] # Gone
    <2>1. then[DistrictRow(e)] = Renumbered(rows[DistrictRow(e)], o + 1) /\ o + 1 \in Nat \ {0}
      BY DEF SqliteAdds
    <2> QED  BY <1>2, <2>1, RenumberedValues
  <1>4. ASSUME NEW row \in DOMAIN rows, row[1] \notin {"district", "stock"}
        PROVE  then[row] = rows[row]
    BY <1>4, RowKeys DEF SqliteAdds
  <1>5. ASSUME NEW d \in DIds \ {e}
        PROVE  then[DistrictRow(d)] = rows[DistrictRow(d)]
    <2>1. DistrictRow(d) # DistrictRow(e) /\ DistrictRow(d)[1] = "district"
      BY RowKeys
    <2>2. DistrictRow(d) \in DOMAIN rows
      BY BaseFits DEF SqliteOK
    <2> QED  BY <2>1, <2>2, RowKeys DEF SqliteAdds
  <1>6. ASSUME NEW n \in Items
        PROVE  /\ then[StockRow(n)] \in [ytd : Int, count : Int]
               /\ then[StockRow(n)].count =
                     IF n \in ToSet(r.items) THEN rows[StockRow(n)].count + 1 ELSE rows[StockRow(n)].count
    <2>1. StockRow(n) \in DOMAIN rows /\ rows[StockRow(n)] \in [ytd : Int, count : Int]
      BY BaseFits DEF SqliteOK
    <2>2. StockRow(n) # DistrictRow(e) /\ \A m : m # n => StockRow(n) # StockRow(m)
      BY RowKeys
    <2>3. CASE n \in ToSet(r.items)
      <3>1. then[StockRow(n)] = Stocked(rows[StockRow(n)])
        BY <2>3 DEF SqliteAdds
      <3> QED  BY <2>1, <2>3, <3>1, StockValues
    <2>4. CASE n \notin ToSet(r.items)
      <3>1. then[StockRow(n)] = rows[StockRow(n)]
        BY <2>1, <2>2, <2>4 DEF SqliteAdds
      <3> QED  BY <2>1, <2>4, <3>1
    <2> QED  BY <2>3, <2>4
  <1>7. /\ order[1] = "orders" /\ new[1] = "new_order" /\ order # new
        /\ order[2] = e /\ order[3] = o /\ new[2] = e /\ new[3] = o
        /\ order \notin DOMAIN rows /\ new \notin DOMAIN rows
    BY <1>1, RowKeys, OrderNumbers
  <1>8. StoreOK(then)
    <2>1. BaseRows \subseteq DOMAIN then
      BY DEF SqliteOK, StoreOK, SqliteAdds
    <2>2. ASSUME NEW row \in DOMAIN then
          PROVE  Fits(row, then[row])
      <3>1. CASE row = order
        BY <1>1, <1>7, <3>1 DEF Fits, SqliteAdds
      <3>2. CASE row = new
        <4>1. then[row] = [new |-> TRUE]
          BY <3>2 DEF SqliteAdds
        <4>2. then[row] # Gone
          BY <4>1, NotGone
        <4> QED  BY <1>7, <3>2, <4>2 DEF Fits
      <3>3. CASE row \in DOMAIN rows /\ then[row] = rows[row]
        BY <3>3 DEF SqliteOK, StoreOK
      <3>4. CASE row = DistrictRow(e)
        BY <1>3, <3>4, RowKeys DEF Fits
      <3>5. CASE \E n \in ToSet(r.items) : row = StockRow(n)
        <4>1. PICK n \in Items : row = StockRow(n)
          BY <1>1, <3>5
        <4> QED  BY <1>6, <4>1, RowKeys, NotGone DEF Fits
      <3> QED  BY <3>1, <3>2, <3>3, <3>4, <3>5 DEF SqliteAdds
    <2> QED  BY <2>1, <2>2 DEF StoreOK
  <1>9. /\ \A row : row[1] = "orders" /\ row # order =>
               /\ row \in DOMAIN then <=> row \in DOMAIN rows
               /\ row \in DOMAIN rows => then[row] = rows[row]
        /\ \A row : row[1] = "new_order" /\ row # new => (row \in DOMAIN then <=> row \in DOMAIN rows)
        /\ order \in DOMAIN then /\ new \in DOMAIN then /\ then[order] = PlacedOrder(r)
    BY <1>4, <1>7 DEF SqliteAdds
  <1>10. KeysOK(then)
    <2>1. \A row \in DOMAIN then : row[1] = "orders" => row = OrderRow(row[2], row[3])
      BY <1>7, <1>9 DEF SqliteOK, KeysOK
    <2>2. ASSUME NEW row \in DOMAIN then, row[1] = "new_order"
          PROVE  row = NewRow(row[2], row[3]) /\ row[2] \in DIds /\ OrderRow(row[2], row[3]) \in DOMAIN then
      <3>1. CASE row = new
        BY <1>1, <1>7, <1>9, <3>1
      <3>2. CASE row # new
        BY <1>9, <2>2, <3>2, RowKeys DEF SqliteOK, KeysOK
      <3> QED  BY <3>1, <3>2
    <2> QED  BY <2>1, <2>2 DEF KeysOK
  <1>11. ASSUME NEW d, NEW p
         PROVE  /\ OrderRow(d, p) \in DOMAIN then <=> OrderRow(d, p) \in DOMAIN rows \/ (d = e /\ p = o)
                /\ NewRow(d, p) \in DOMAIN then <=> NewRow(d, p) \in DOMAIN rows \/ (d = e /\ p = o)
    BY <1>9, RowKeys
  <1>12. NumberedFromOne(then)
    <2> SUFFICES ASSUME NEW d \in DIds
                 PROVE  \E top \in Nat :
                            /\ \A p : OrderRow(d, p) \in DOMAIN then <=> p \in 1 .. top
                            /\ then[DistrictRow(d)].next <= top + 1
      BY DEF NumberedFromOne
    <2>1. PICK top \in Nat : /\ \A p : OrderRow(d, p) \in DOMAIN rows <=> p \in 1 .. top
                             /\ rows[DistrictRow(d)].next <= top + 1
      BY DEF SqliteOK, NumberedFromOne
    <2>2. CASE d = e
      <3>1. o = top + 1
        BY <2>1, <2>2, <1>7
      <3>2. \A p : OrderRow(d, p) \in DOMAIN then <=> p \in 1 .. top + 1
        BY <1>11, <2>1, <2>2, <3>1
      <3> QED  BY <1>3, <2>2, <3>1, <3>2
    <2>3. CASE d # e
      BY <1>5, <1>11, <2>1, <2>3
    <2> QED  BY <2>2, <2>3
  <1>13. LastAreNew(then)
    <2> SUFFICES ASSUME NEW d \in DIds, NEW p, NEW q, NewRow(d, p) \in DOMAIN then,
                        OrderRow(d, q) \in DOMAIN then, p <= q
                 PROVE  NewRow(d, q) \in DOMAIN then
      BY DEF LastAreNew
    <2>1. CASE d = e /\ q = o
      BY <1>11, <2>1
    <2>2. CASE ~ (d = e /\ q = o)
      <3>1. OrderRow(d, q) \in DOMAIN rows
        BY <1>11, <2>2
      <3>2. CASE NewRow(d, p) \in DOMAIN rows
        BY <1>11, <3>1, <3>2 DEF SqliteOK, LastAreNew
      <3>3. CASE d = e /\ p = o
        BY <1>7, <3>1, <3>3, OrderNumbers
      <3> QED  BY <1>11, <3>2, <3>3
    <2> QED  BY <2>1, <2>2
  <1>14. NewAreOpen(then)
    <2> SUFFICES ASSUME NEW d \in DIds, NEW p, OrderRow(d, p) \in DOMAIN then
                 PROVE  then[OrderRow(d, p)].delivered <=> NewRow(d, p) \notin DOMAIN then
      BY DEF NewAreOpen
    <2>1. CASE d = e /\ p = o
      BY <1>1, <1>9, <1>11, <2>1
    <2>2. CASE ~ (d = e /\ p = o)
      BY <1>9, <1>11, <2>2, RowKeys DEF SqliteOK, NewAreOpen
    <2> QED  BY <2>1, <2>2
  <1>15. \A d \in DIds : then[DistrictRow(d)].ytd = rows[DistrictRow(d)].ytd
    BY <1>3, <1>5
  <1>16. Check1(then)
    BY <1>2, <1>4, <1>15, RowKeys, SameCheck1 DEF SqliteOK
  <1>17. HistoryOK(then)
    <2>1. SameTable("history", rows, then)
      BY <1>4, <1>7 DEF SameTable, SqliteAdds
    <2> QED  BY <1>15, <2>1, SameHistory DEF SqliteOK
  <1>18. StockOK(then)
    BY <1>1, <1>6, <1>7, <1>9, PlacedStock DEF SqliteOK
  <1>19. Later(rows, then)
    BY <1>7, <1>11 DEF Later
  <1> QED  BY <1>8, <1>10, <1>12, <1>13, <1>14, <1>16, <1>17, <1>18, <1>19 DEF SqliteOK, SqliteAdds

\* An order that is refused leaves D_NEXT_O_ID, as it would have been.
LEMMA SqliteRenumbered ==
    ASSUME NEW rows, SqliteOK(rows), NEW then, NEW e \in DIds, NEW o \in Nat \ {0},
           OrderRow(e, o) \in DOMAIN rows, SqliteRenumbers(e, o + 1, rows, then)
    PROVE  SqliteOK(then) /\ Later(rows, then)
PROOF
  <1>1. /\ rows[DistrictRow(e)] \in [next : Nat \ {0}, ytd : Int] /\ DistrictRow(e) \in DOMAIN rows
        /\ WarehouseRow \in DOMAIN rows
    BY BaseFits DEF SqliteOK
  <1>2. /\ then[DistrictRow(e)].next = o + 1
        /\ then[DistrictRow(e)].ytd = rows[DistrictRow(e)].ytd
        /\ then[DistrictRow(e)] \in [next : Nat \ {0}, ytd : Int]
        /\ then[DistrictRow(e)] # Gone
    <2>1. then[DistrictRow(e)] = Renumbered(rows[DistrictRow(e)], o + 1) /\ o + 1 \in Nat \ {0}
      BY DEF SqliteRenumbers
    <2> QED  BY <1>1, <2>1, RenumberedValues
  <1>3. /\ DOMAIN then = DOMAIN rows
        /\ \A row \in DOMAIN rows : row[1] # "district" => then[row] = rows[row]
    BY RowKeys DEF SqliteRenumbers
  <1>4. \A d \in DIds \ {e} : then[DistrictRow(d)] = rows[DistrictRow(d)]
    <2>1. \A d \in DIds \ {e} : DistrictRow(d) # DistrictRow(e) /\ DistrictRow(d) \in DOMAIN rows
      BY RowKeys, BaseFits DEF SqliteOK
    <2> QED  BY <2>1 DEF SqliteRenumbers
  <1>5. StoreOK(then)
    <2>1. \A row \in DOMAIN then : Fits(row, then[row])
      <3> SUFFICES ASSUME NEW row \in DOMAIN then
                   PROVE  Fits(row, then[row])
        OBVIOUS
      <3>1. CASE row = DistrictRow(e)
        BY <1>2, <3>1, RowKeys DEF Fits
      <3>2. CASE row # DistrictRow(e)
        BY <3>2 DEF SqliteRenumbers, SqliteOK, StoreOK
      <3> QED  BY <3>1, <3>2
    <2> QED  BY <1>3, <2>1 DEF SqliteOK, StoreOK
  <1>6. NumberedFromOne(then)
    <2> SUFFICES ASSUME NEW d \in DIds
                 PROVE  \E top \in Nat :
                            /\ \A p : OrderRow(d, p) \in DOMAIN then <=> p \in 1 .. top
                            /\ then[DistrictRow(d)].next <= top + 1
      BY DEF NumberedFromOne
    <2>1. PICK top \in Nat : /\ \A p : OrderRow(d, p) \in DOMAIN rows <=> p \in 1 .. top
                             /\ rows[DistrictRow(d)].next <= top + 1
      BY DEF SqliteOK, NumberedFromOne
    <2>2. CASE d = e
      <3>1. o <= top
        BY <2>1, <2>2
      <3> QED  BY <1>2, <1>3, <2>1, <2>2, <3>1
    <2>3. CASE d # e
      BY <1>3, <1>4, <2>1, <2>3
    <2> QED  BY <2>2, <2>3
  <1>7. KeysOK(then) /\ LastAreNew(then)
    BY <1>3 DEF SqliteOK, KeysOK, LastAreNew
  <1>8. NewAreOpen(then)
    BY <1>3, RowKeys DEF SqliteOK, NewAreOpen
  <1>9. \A d \in DIds : then[DistrictRow(d)].ytd = rows[DistrictRow(d)].ytd
    BY <1>2, <1>4
  <1>10. Check1(then)
    BY <1>1, <1>3, <1>9, RowKeys, SameCheck1 DEF SqliteOK
  <1>11. HistoryOK(then)
    <2>1. SameTable("history", rows, then)
      BY <1>3 DEF SameTable
    <2> QED  BY <1>9, <2>1, SameHistory DEF SqliteOK
  <1>12. StockOK(then)
    <2>1. \A n \in Items : then[StockRow(n)] = rows[StockRow(n)]
      BY <1>3, BaseFits, RowKeys DEF SqliteOK
    <2> QED  BY <1>3, <2>1, SameStock DEF SqliteOK
  <1>13. Later(rows, then)
    BY <1>3 DEF Later
  <1> QED  BY <1>5, <1>6, <1>7, <1>8, <1>10, <1>11, <1>12, <1>13 DEF SqliteOK, SqliteRenumbers

\* A payment is added to W_YTD, D_YTD and HISTORY.
LEMMA SqlitePaid ==
    ASSUME NEW rows, SqliteOK(rows), NEW then, NEW r, r.d \in DIds, r.c \in CIds, NEW receipt,
           receipt[1] = "history", SqlitePays(r, receipt, rows, then)
    PROVE  SqliteOK(then) /\ Later(rows, then)
PROOF
  <1> DEFINE e == r.d
             district == DistrictRow(e)
             payer    == CustomerRow(e, r.c)
  <1>1. /\ WarehouseRow \in DOMAIN rows /\ rows[WarehouseRow] \in [ytd : Int]
        /\ district \in DOMAIN rows /\ rows[district] \in [next : Nat \ {0}, ytd : Int]
    BY BaseFits DEF SqliteOK
  <1>2. /\ then[WarehouseRow] \in [ytd : Int] /\ then[WarehouseRow].ytd = rows[WarehouseRow].ytd + 1
        /\ then[district] \in [next : Nat \ {0}, ytd : Int]
        /\ then[district].next = rows[district].next /\ then[district].ytd = rows[district].ytd + 1
        /\ then[payer] \in [balance : Int, paid : Int]
    <2>1. /\ then[WarehouseRow] = Received(rows[WarehouseRow])
          /\ then[district] = Received(rows[district])
          /\ then[payer] \in [balance : Int, paid : Int]
      BY DEF SqlitePays
    <2> HIDE DEF district, payer
    <2>2. then[WarehouseRow] \in [ytd : Int] /\ then[WarehouseRow].ytd = rows[WarehouseRow].ytd + 1
      BY <1>1, <2>1, WarehouseValues
    <2>3. /\ then[district] \in [next : Nat \ {0}, ytd : Int]
          /\ then[district].next = rows[district].next
          /\ then[district].ytd = rows[district].ytd + 1
      BY <1>1, <2>1, DistrictValues
    <2> QED  BY <2>1, <2>2, <2>3
  <1>3. ASSUME NEW row \in DOMAIN rows, row[1] \notin {"warehouse", "district", "customer"}
        PROVE  then[row] = rows[row]
    BY <1>3, RowKeys DEF SqlitePays
  <1>4. \A d \in DIds \ {e} : then[DistrictRow(d)] = rows[DistrictRow(d)]
    <2>1. \A d \in DIds \ {e} : DistrictRow(d) \notin {WarehouseRow, district, payer}
                                /\ DistrictRow(d) \in DOMAIN rows
      BY RowKeys, BaseFits DEF SqliteOK
    <2> QED  BY <2>1 DEF SqlitePays
  <1>5. StoreOK(then)
    <2>1. BaseRows \subseteq DOMAIN then
      BY DEF SqliteOK, StoreOK, SqlitePays
    <2>2. ASSUME NEW row \in DOMAIN then
          PROVE  Fits(row, then[row])
      <3>1. CASE row = receipt
        <4>1. then[row] \in [d : DIds, c : CIds] /\ then[row] # Gone
          BY <3>1, NotGone DEF SqlitePays
        <4> QED  BY <3>1, <4>1 DEF Fits
      <3>2. CASE row # receipt /\ then[row] = rows[row]
        BY <3>2 DEF SqliteOK, StoreOK, SqlitePays
      <3>3. CASE row = WarehouseRow
        BY <1>2, <3>3, RowKeys, NotGone DEF Fits
      <3>4. CASE row = district
        BY <1>2, <3>4, RowKeys, NotGone DEF Fits
      <3>5. CASE row = payer
        BY <1>2, <3>5, RowKeys, NotGone DEF Fits
      <3> QED  BY <3>1, <3>2, <3>3, <3>4, <3>5 DEF SqlitePays
    <2> QED  BY <2>1, <2>2 DEF StoreOK
  <1>6. /\ \A row : row[1] = "orders" =>
               /\ row \in DOMAIN then <=> row \in DOMAIN rows
               /\ row \in DOMAIN rows => then[row] = rows[row]
        /\ \A row : row[1] = "new_order" => (row \in DOMAIN then <=> row \in DOMAIN rows)
    BY <1>3 DEF SqlitePays
  <1>7. \A d \in DIds : then[DistrictRow(d)].next = rows[DistrictRow(d)].next
    BY <1>2, <1>4
  <1>8. NumberedFromOne(then)
    BY <1>6, <1>7, RowKeys DEF SqliteOK, NumberedFromOne
  <1>9. KeysOK(then)
    <2>1. \A row \in DOMAIN then : row[1] = "orders" => row = OrderRow(row[2], row[3])
      BY <1>6 DEF SqliteOK, KeysOK
    <2>2. ASSUME NEW row \in DOMAIN then, row[1] = "new_order"
          PROVE  row = NewRow(row[2], row[3]) /\ row[2] \in DIds /\ OrderRow(row[2], row[3]) \in DOMAIN then
      BY <1>6, <2>2, RowKeys DEF SqliteOK, KeysOK
    <2> QED  BY <2>1, <2>2 DEF KeysOK
  <1>10. LastAreNew(then)
    BY <1>6, RowKeys DEF SqliteOK, LastAreNew
  <1>11. NewAreOpen(then)
    BY <1>6, RowKeys DEF SqliteOK, NewAreOpen
  <1>12. Check1(then)
    <2>1. \A d \in DIds : rows[DistrictRow(d)].ytd \in Int
      BY BaseFits DEF SqliteOK
    <2> QED  BY <1>2, <1>4, <2>1, PaidCheck1 DEF SqliteOK
  <1>13. HistoryOK(then)
    <2>1. \A row : row[1] = "history" /\ row # receipt =>
              /\ row \in DOMAIN then <=> row \in DOMAIN rows
              /\ row \in DOMAIN rows => then[row] = rows[row]
      BY <1>3 DEF SqlitePays
    <2>2. receipt \notin DOMAIN rows /\ receipt \in DOMAIN then /\ then[receipt].d = e
      BY DEF SqlitePays
    <2>3. \A d \in DIds \ {e} : then[DistrictRow(d)].ytd = rows[DistrictRow(d)].ytd
      BY <1>4
    <2> QED  BY <1>2, <2>1, <2>2, <2>3, PaidHistory DEF SqliteOK
  <1>14. StockOK(then)
    <2>1. \A n \in Items : then[StockRow(n)] = rows[StockRow(n)]
      BY <1>3, BaseFits, RowKeys DEF SqliteOK
    <2> QED  BY <1>6, <2>1, SameStock DEF SqliteOK
  <1>15. Later(rows, then)
    BY <1>6, RowKeys DEF Later
  <1> QED  BY <1>5, <1>8, <1>9, <1>10, <1>11, <1>12, <1>13, <1>14, <1>15 DEF SqliteOK, SqlitePays

\* Of the new orders the first are taken, or none.
LEMMA SqliteCarried ==
    ASSUME NEW rows, SqliteOK(rows), NEW then, NEW taken,
           \A row \in taken : Takeable(row, rows),
           SqliteCarries(taken, rows, then)
    PROVE  SqliteOK(then) /\ Later(rows, then)
PROOF
  <1>1. ASSUME NEW row \in taken
        PROVE  LET order == OrderRow(row[2], row[3]) IN
               /\ row[1] = "new_order" /\ row = NewRow(row[2], row[3]) /\ row[2] \in DIds
               /\ order \in DOMAIN rows /\ order \in DOMAIN then /\ order[1] = "orders"
               /\ OrderFits(order, rows[order]) /\ OrderFits(order, then[order])
               /\ then[order].delivered = TRUE /\ then[order] # Gone
               /\ DOMAIN then[order] = DOMAIN rows[order] /\ then[order].items = rows[order].items
    <2> DEFINE order == OrderRow(row[2], row[3])
    <2>1. row[1] = "new_order" /\ row = NewRow(row[2], row[3]) /\ row[2] \in DIds /\ order \in DOMAIN rows
      BY RowKeys DEF Takeable
    <2>2. order[1] = "orders"
      BY RowKeys
    <2>3. order \notin taken
      BY <2>2, RowKeys DEF Takeable
    <2>4. OrderFits(order, rows[order])
      BY <2>1, <2>2 DEF SqliteOK, StoreOK, Fits
    <2>5. then[order] = Carried(rows[order]) /\ order \in DOMAIN then
      BY <2>1, <2>3 DEF SqliteCarries
    <2> HIDE DEF order
    <2>6. /\ OrderFits(order, then[order]) /\ then[order].delivered = TRUE /\ then[order] # Gone
          /\ DOMAIN then[order] = DOMAIN rows[order] /\ then[order].items = rows[order].items
      BY <2>4, <2>5, OrderValues
    <2> QED  BY <2>1, <2>2, <2>4, <2>5, <2>6 DEF order
  <1>2. /\ \A row : row[1] # "new_order" => (row \in DOMAIN then <=> row \in DOMAIN rows)
        /\ DOMAIN then \subseteq DOMAIN rows
        /\ \A row \in DOMAIN rows : row[1] \notin {"orders", "new_order", "customer"} => then[row] = rows[row]
    BY <1>1 DEF SqliteCarries
  <1>3. \A row \in DOMAIN rows : row[1] = "orders" /\ (\A n \in taken : row # OrderRow(n[2], n[3]))
            => then[row] = rows[row]
    BY <1>2 DEF SqliteCarries
  <1>4. /\ \A d \in DIds : DistrictRow(d) \in DOMAIN rows /\ then[DistrictRow(d)] = rows[DistrictRow(d)]
        /\ WarehouseRow \in DOMAIN rows /\ then[WarehouseRow] = rows[WarehouseRow]
        /\ \A n \in Items : then[StockRow(n)] = rows[StockRow(n)]
    BY <1>2, BaseFits, RowKeys DEF SqliteOK
  <1>5. StoreOK(then)
    <2>1. BaseRows \subseteq DOMAIN then
      <3>1. \A row \in BaseRows : row[1] # "new_order"
        BY RowKeys DEF BaseRows
      <3> QED  BY <1>2, <3>1 DEF SqliteOK, StoreOK
    <2>2. ASSUME NEW row \in DOMAIN then
          PROVE  Fits(row, then[row])
      <3>1. CASE then[row] = rows[row]
        BY <1>2, <3>1 DEF SqliteOK, StoreOK
      <3>2. CASE \E n \in taken : row = OrderRow(n[2], n[3])
        BY <1>1, <3>2 DEF Fits
      <3>3. CASE row[1] = "customer"
        <4>1. then[row] \in [balance : Int, paid : Int]
          BY <3>3 DEF SqliteCarries
        <4> QED  BY <3>3, <4>1, NotGone DEF Fits
      <3> QED  BY <3>1, <3>2, <3>3 DEF SqliteCarries
    <2> QED  BY <2>1, <2>2 DEF StoreOK
  <1>6. /\ \A d, o : OrderRow(d, o) \in DOMAIN then <=> OrderRow(d, o) \in DOMAIN rows
        /\ \A d, o : NewRow(d, o) \in DOMAIN then <=> NewRow(d, o) \in DOMAIN rows /\ NewRow(d, o) \notin taken
    BY <1>2, RowKeys DEF SqliteCarries
  <1>7. KeysOK(then)
    BY <1>2, <1>6 DEF SqliteOK, KeysOK
  <1>8. NumberedFromOne(then)
    BY <1>4, <1>6 DEF SqliteOK, NumberedFromOne
  <1>9. LastAreNew(then)
    <2> SUFFICES ASSUME NEW d \in DIds, NEW p, NEW q, NewRow(d, p) \in DOMAIN then,
                        OrderRow(d, q) \in DOMAIN then, p <= q
                 PROVE  NewRow(d, q) \in DOMAIN then
      BY DEF LastAreNew
    <2>1. NewRow(d, p) \in DOMAIN rows /\ NewRow(d, p) \notin taken /\ NewRow(d, q) \in DOMAIN rows
      BY <1>6 DEF SqliteOK, LastAreNew
    <2>2. ASSUME NewRow(d, q) \in taken
          PROVE  FALSE
      <3>1. q <= p
        BY <2>1, <2>2, RowKeys DEF Takeable
      <3>2. p \in Nat /\ q \in Nat
        BY <2>1, OrderNumbers
      <3> QED  BY <2>1, <2>2, <3>1, <3>2
    <2> QED  BY <1>6, <2>1, <2>2
  <1>10. NewAreOpen(then)
    <2> SUFFICES ASSUME NEW d \in DIds, NEW o, OrderRow(d, o) \in DOMAIN then
                 PROVE  then[OrderRow(d, o)].delivered <=> NewRow(d, o) \notin DOMAIN then
      BY DEF NewAreOpen
    <2>1. CASE NewRow(d, o) \in taken
      <3> DEFINE n == NewRow(d, o)
      <3>1. n[2] = d /\ n[3] = o
        BY RowKeys
      <3>2. n \in taken
        BY <2>1
      <3> HIDE DEF n
      <3>3. then[OrderRow(d, o)].delivered = TRUE
        BY <1>1, <3>1, <3>2
      <3> QED  BY <1>6, <2>1, <3>3
    <2>2. CASE NewRow(d, o) \notin taken
      <3>1. ASSUME NEW n \in taken
            PROVE  OrderRow(d, o) # OrderRow(n[2], n[3])
        <4> SUFFICES ASSUME OrderRow(d, o) = OrderRow(n[2], n[3])
                     PROVE  FALSE
          OBVIOUS
        <4>1. n[2] = d /\ n[3] = o
          BY RowKeys
        <4> QED  BY <1>1, <2>2, <4>1
      <3>2. then[OrderRow(d, o)] = rows[OrderRow(d, o)]
        BY <1>3, <1>6, <3>1, RowKeys
      <3> QED  BY <1>6, <2>2, <3>2 DEF SqliteOK, NewAreOpen
    <2> QED  BY <2>1, <2>2
  <1>11. Check1(then)
    BY <1>4, SameCheck1 DEF SqliteOK
  <1>12. HistoryOK(then)
    <2>1. SameTable("history", rows, then)
      BY <1>2 DEF SameTable
    <2> QED  BY <1>4, <2>1, SameHistory DEF SqliteOK
  <1>13. StockOK(then)
    <2>1. ASSUME NEW row, row[1] = "orders"
          PROVE  /\ row \in DOMAIN then <=> row \in DOMAIN rows
                 /\ row \in DOMAIN rows =>
                        /\ "items" \in DOMAIN then[row] <=> "items" \in DOMAIN rows[row]
                        /\ then[row].items = rows[row].items
      BY <1>1, <1>2, <1>3, <2>1
    <2> QED  BY <1>4, <2>1, SameStock DEF SqliteOK
  <1>14. Later(rows, then)
    BY <1>6 DEF Later
  <1> QED  BY <1>5, <1>7, <1>8, <1>9, <1>10, <1>11, <1>12, <1>13, <1>14 DEF SqliteOK, SqliteCarries

-----------------------------------------------------------------------------
\* The operators of the instance are those of this module.
LEMMA SqliteRows ==
    /\ Sqlite!WarehouseRow = WarehouseRow
    /\ \A d : Sqlite!DistrictRow(d) = DistrictRow(d)
    /\ \A d, c : Sqlite!CustomerRow(d, c) = CustomerRow(d, c)
    /\ \A n : Sqlite!StockRow(n) = StockRow(n)
    /\ \A i, n : Sqlite!HistoryRow(i, n) = HistoryRow(i, n)
    /\ \A d, o : Sqlite!OrderRow(d, o) = OrderRow(d, o)
    /\ \A d, o : Sqlite!NewRow(d, o) = NewRow(d, o)
    /\ \A row, value, rows : Sqlite!Put(row, value, rows) = Put(row, value, rows)
    /\ \A changes, rows : Sqlite!Overlay(changes, rows) = Overlay(changes, rows)
    /\ \A f, S : Sqlite!Restrict(f, S) = Restrict(f, S)
    /\ \A rows : Sqlite!Without(rows) = Without(rows)
    /\ \A s : Sqlite!ToSet(s) = ToSet(s)
    /\ \A r : Sqlite!PlacedOrder(r) = PlacedOrder(r) /\ Sqlite!UnknownItem(r) = UnknownItem(r)
    /\ \A rows, t, d : Sqlite!Numbered(rows, t, d) = Numbered(rows, t, d)
    /\ Sqlite!NoRows = NoRows /\ Sqlite!DIds = DIds /\ Sqlite!Clients = Clients
    /\ Sqlite!Gone = Gone /\ Sqlite!NoRequest = NoRequest
    /\ Sqlite!Requests = Requests
PROOF
  <1>1. /\ Sqlite!WarehouseRow = WarehouseRow
        /\ \A d : Sqlite!DistrictRow(d) = DistrictRow(d)
        /\ \A d, c : Sqlite!CustomerRow(d, c) = CustomerRow(d, c)
        /\ \A n : Sqlite!StockRow(n) = StockRow(n)
        /\ \A i, n : Sqlite!HistoryRow(i, n) = HistoryRow(i, n)
        /\ \A d, o : Sqlite!OrderRow(d, o) = OrderRow(d, o)
        /\ \A d, o : Sqlite!NewRow(d, o) = NewRow(d, o)
    BY DEF Sqlite!WarehouseRow, WarehouseRow, Sqlite!DistrictRow, DistrictRow,
           Sqlite!CustomerRow, CustomerRow, Sqlite!StockRow, StockRow,
           Sqlite!HistoryRow, HistoryRow, Sqlite!OrderRow, OrderRow, Sqlite!NewRow, NewRow
  <1>2. /\ \A row, value, rows : Sqlite!Put(row, value, rows) = Put(row, value, rows)
        /\ \A changes, rows : Sqlite!Overlay(changes, rows) = Overlay(changes, rows)
        /\ \A s : Sqlite!ToSet(s) = ToSet(s)
        /\ \A f, S : Sqlite!Restrict(f, S) = Restrict(f, S)
    BY DEF Sqlite!Put, Put, Sqlite!Overlay, Overlay, Sqlite!ToSet, ToSet,
           Sqlite!Restrict, Restrict
  <1>3. \A r : Sqlite!PlacedOrder(r) = PlacedOrder(r) /\ Sqlite!UnknownItem(r) = UnknownItem(r)
    BY Zenon DEF Sqlite!PlacedOrder, PlacedOrder, Sqlite!UnknownItem, UnknownItem
  <1>4. /\ Sqlite!NoRows = NoRows /\ Sqlite!DIds = DIds /\ Sqlite!Clients = Clients
        /\ Sqlite!Gone = Gone /\ Sqlite!NoRequest = NoRequest
        /\ Sqlite!CIds = CIds /\ Sqlite!Items = Items
    BY DEF Sqlite!NoRows, NoRows, Sqlite!DIds, DIds, Sqlite!Clients, Clients,
           Sqlite!Gone, Gone, Sqlite!NoRequest, NoRequest, Sqlite!CIds, CIds, Sqlite!Items, Items
  <1>5. \A rows : Sqlite!Without(rows) = Without(rows)
    BY <1>2, <1>4, Zenon DEF Sqlite!Without, Without
  <1>6. \A rows, t, d : Sqlite!Numbered(rows, t, d) = Numbered(rows, t, d)
    BY Zenon DEF Sqlite!Numbered, Numbered
  <1>7. Sqlite!Requests = Requests
    <2>1. \A S, T : Sqlite!Injection(S, T) = Injection(S, T)
      BY Zenon DEF Sqlite!Injection, Injection, Sqlite!IsInjective, IsInjective
    <2>2. Sqlite!Orders = Orders
      BY <1>4, <2>1, Zenon DEF Sqlite!Orders, Orders
    <2> QED  BY <1>4, <2>2, Zenon DEF Sqlite!Requests, Requests
  <1> QED  BY <1>1, <1>2, <1>3, <1>4, <1>5, <1>6, <1>7

\* What the calls write, of what they see and have read.
SqliteOrderWrites(w, r, o, rows) ==
    LET district == DistrictRow(r.d) IN
    /\ DOMAIN w = {district, OrderRow(r.d, o), NewRow(r.d, o)} \cup {StockRow(n) : n \in ToSet(r.items)}
    /\ w[district] = Renumbered(rows[district], o + 1)
    /\ w[OrderRow(r.d, o)] = PlacedOrder(r)
    /\ w[NewRow(r.d, o)] = [new |-> TRUE]
    /\ \A n \in ToSet(r.items) : w[StockRow(n)] = Stocked(rows[StockRow(n)])

SqlitePaymentWrites(w, receipt, r, rows) ==
    LET district == DistrictRow(r.d)
        payer    == CustomerRow(r.d, r.c)
    IN  /\ DOMAIN w = {WarehouseRow, district, payer, receipt}
        /\ w[WarehouseRow] = Received(rows[WarehouseRow])
        /\ w[district] = Received(rows[district])
        /\ w[payer] \in [balance : Int, paid : Int]
        /\ w[receipt] = [d |-> r.d, c |-> r.c]

SqliteDeliveryWrites(w, taken, rows) ==
    /\ \A row \in taken : /\ row \in DOMAIN w /\ w[row] = Gone
                          /\ OrderRow(row[2], row[3]) \in DOMAIN w
                          /\ w[OrderRow(row[2], row[3])] = Carried(rows[OrderRow(row[2], row[3])])
    /\ \A row \in DOMAIN w :
          \/ row \in taken
          \/ \E n \in taken : row = OrderRow(n[2], n[3])
          \/ /\ row \in DOMAIN rows /\ row[1] = "customer"
             /\ w[row] \in [balance : Int, paid : Int]

\* What incrementNextOrderId sets.
LEMMA SqliteNextOrderId ==
    ASSUME NEW r, NEW s, NEW rows
    PROVE  Sqlite!NextOrderId(r, s, rows) =
               Renumbered(rows[DistrictRow(r.d)], s[DistrictRow(r.d)].next + 1)
PROOF BY SqliteRows DEF Sqlite!NextOrderId, Renumbered

\* The rows doNewOrder writes.
LEMMA SqliteOrder ==
    ASSUME NEW r, NEW s, NEW rows
    PROVE  SqliteOrderWrites(Sqlite!NewOrder(r, s, rows), r, s[DistrictRow(r.d)].next, rows)
PROOF
  <1> DEFINE o == s[DistrictRow(r.d)].next
             stock == [row \in {StockRow(n) : n \in ToSet(r.items)} |-> Stocked(rows[row])]
             next  == Renumbered(rows[DistrictRow(r.d)], o + 1)
             p1 == Put(OrderRow(r.d, o), PlacedOrder(r), stock)
             p2 == Put(NewRow(r.d, o), [new |-> TRUE], p1)
  <1>1. Sqlite!Stock(r, rows) = stock
    BY SqliteRows DEF Sqlite!Stock, Stocked
  <1>2. Sqlite!NewOrder(r, s, rows) = Put(DistrictRow(r.d), next, p2)
    BY <1>1, SqliteRows, SqliteNextOrderId, Zenon DEF Sqlite!NewOrder
  <1>3. /\ DOMAIN stock = {StockRow(n) : n \in ToSet(r.items)}
        /\ \A n \in ToSet(r.items) : stock[StockRow(n)] = Stocked(rows[StockRow(n)])
    OBVIOUS
  <1>4. /\ OrderRow(r.d, o)[1] = "orders" /\ NewRow(r.d, o)[1] = "new_order"
        /\ DistrictRow(r.d)[1] = "district" /\ \A row \in DOMAIN stock : row[1] = "stock"
    BY <1>3, RowKeys
  <1> HIDE DEF stock, next, o
  <1>5. /\ DOMAIN p1 = DOMAIN stock \cup {OrderRow(r.d, o)}
        /\ p1[OrderRow(r.d, o)] = PlacedOrder(r)
        /\ \A row \in DOMAIN stock : p1[row] = stock[row]
    BY <1>4 DEF Put
  <1> HIDE DEF p1
  <1>6. /\ DOMAIN p2 = DOMAIN stock \cup {OrderRow(r.d, o), NewRow(r.d, o)}
        /\ p2[OrderRow(r.d, o)] = PlacedOrder(r) /\ p2[NewRow(r.d, o)] = [new |-> TRUE]
        /\ \A row \in DOMAIN stock : p2[row] = stock[row]
    BY <1>4, <1>5 DEF Put
  <1> HIDE DEF p2
  <1> DEFINE w == Put(DistrictRow(r.d), next, p2)
  <1>7. /\ DOMAIN w = DOMAIN stock \cup {OrderRow(r.d, o), NewRow(r.d, o), DistrictRow(r.d)}
        /\ w[OrderRow(r.d, o)] = PlacedOrder(r) /\ w[NewRow(r.d, o)] = [new |-> TRUE]
        /\ w[DistrictRow(r.d)] = next
        /\ \A row \in DOMAIN stock : w[row] = stock[row]
    BY <1>4, <1>6 DEF Put
  <1> HIDE DEF w
  <1>8. \A n \in ToSet(r.items) : StockRow(n) \in DOMAIN stock
    BY <1>3
  <1>9. SqliteOrderWrites(w, r, o, rows)
    BY <1>3, <1>7, <1>8 DEF SqliteOrderWrites, next
  <1> QED  BY <1>2, <1>9 DEF w, o

\* The rows doPayment writes.
LEMMA SqlitePayment ==
    ASSUME NEW i, NEW r, NEW s, NEW rows, s[CustomerRow(r.d, r.c)] \in [balance : Int, paid : Int]
    PROVE  SqlitePaymentWrites(Sqlite!Payment(i, r, s, rows), HistoryRow(i, ended[i]), r, rows)
PROOF
  <1> DEFINE district == DistrictRow(r.d)
             payer    == CustomerRow(r.d, r.c)
             receipt  == HistoryRow(i, ended[i])
             W == Received(rows[WarehouseRow])
             D == Received(rows[district])
             C == Debited(s[payer])
             H == [d |-> r.d, c |-> r.c]
             p1 == Put(receipt, H, NoRows)
             p2 == Put(payer, C, p1)
             p3 == Put(district, D, p2)
             w  == Put(WarehouseRow, W, p3)
  <1>1. Sqlite!PaidBy(i, r, s) = p2
    BY SqliteRows DEF Sqlite!PaidBy, Debited
  <1>2. Sqlite!Payment(i, r, s, rows) = w
    BY <1>1, SqliteRows DEF Sqlite!Payment, Received
  <1>3. C \in [balance : Int, paid : Int]
    <2>1. 0 \in Int
      OBVIOUS
    <2> QED  BY <2>1, CustomerValues
  <1>4. /\ WarehouseRow[1] = "warehouse" /\ district[1] = "district"
        /\ payer[1] = "customer" /\ receipt[1] = "history"
    BY RowKeys
  <1>5. /\ WarehouseRow \notin {district, payer, receipt}
        /\ district \notin {payer, receipt} /\ payer # receipt
    BY <1>4
  <1> HIDE DEF district, payer, receipt, W, D, C, H
  <1>6. DOMAIN p1 = {receipt} /\ p1[receipt] = H
    BY NoRowsAre DEF Put
  <1> HIDE DEF p1
  <1>7. DOMAIN p2 = {receipt, payer} /\ p2[receipt] = H /\ p2[payer] = C
    BY <1>5, <1>6 DEF Put
  <1> HIDE DEF p2
  <1>8. /\ DOMAIN p3 = {receipt, payer, district}
        /\ p3[receipt] = H /\ p3[payer] = C /\ p3[district] = D
    BY <1>5, <1>7 DEF Put
  <1> HIDE DEF p3
  <1>9. /\ DOMAIN w = {WarehouseRow, district, payer, receipt}
        /\ w[WarehouseRow] = W /\ w[district] = D /\ w[payer] = C /\ w[receipt] = H
    BY <1>5, <1>8 DEF Put
  <1> HIDE DEF w
  <1>10. SqlitePaymentWrites(w, receipt, r, rows)
    BY <1>3, <1>9 DEF SqlitePaymentWrites, district, payer, W, D, H
  <1> QED  BY <1>2, <1>10 DEF w, receipt

\* The rows doDelivery writes for the new orders it takes.
LEMMA SqliteDelivery ==
    ASSUME NEW rows, SqliteOK(rows), NEW taken, \A row \in taken : Takeable(row, rows)
    PROVE  SqliteDeliveryWrites(Sqlite!Delivery(taken, rows), taken, rows)
PROOF
  <1> DEFINE OrderOf(row) == OrderRow(row[2], row[3])
             Payer(row) == CustomerRow(row[2], rows[OrderOf(row)].c)
             O == {OrderOf(row) : row \in taken}
             P == {Payer(row) : row \in taken}
             Of(payer) == CHOOSE n \in taken : Payer(n) = payer
             gone   == [row \in taken |-> Gone]
             orders == [order \in O |-> Carried(rows[order])]
             payers == [payer \in P |-> Credited(rows[payer], rows[OrderOf(Of(payer))].amount)]
             p1 == Overlay(orders, payers)
             w  == Overlay(gone, p1)
  <1>1. \A row : Sqlite!OrderOf(row) = OrderOf(row)
    BY SqliteRows DEF Sqlite!OrderOf
  <1>2. \A row : Sqlite!Payer(row, rows) = Payer(row)
    BY <1>1, SqliteRows DEF Sqlite!Payer
  <1>3. Sqlite!Delivery(taken, rows) = w
    BY <1>1, <1>2, SqliteRows DEF Sqlite!Delivery, Carried, Credited
  <1>4. ASSUME NEW row \in taken
        PROVE  /\ row[1] = "new_order" /\ OrderOf(row)[1] = "orders" /\ Payer(row)[1] = "customer"
               /\ rows[OrderOf(row)].amount \in Int
               /\ Payer(row) \in DOMAIN rows /\ rows[Payer(row)] \in [balance : Int, paid : Int]
    <2>1. OrderOf(row) \in DOMAIN rows /\ row[2] \in DIds /\ row[1] = "new_order"
      BY RowKeys DEF Takeable
    <2>2. OrderFits(OrderOf(row), rows[OrderOf(row)])
      BY <2>1, RowKeys DEF SqliteOK, StoreOK, Fits
    <2>3. rows[OrderOf(row)].c \in CIds /\ rows[OrderOf(row)].amount \in Int
      BY <2>2 DEF OrderFits
    <2> QED  BY <2>1, <2>3, BaseFits, RowKeys DEF SqliteOK
  <1>5. ASSUME NEW payer \in P
        PROVE  payers[payer] \in [balance : Int, paid : Int] /\ payer \in DOMAIN rows /\ payer[1] = "customer"
    <2>1. PICK row \in taken : payer = Payer(row)
      OBVIOUS
    <2>2. Of(payer) \in taken
      BY <2>1
    <2>3. rows[payer] \in [balance : Int, paid : Int] /\ payer \in DOMAIN rows /\ payer[1] = "customer"
      BY <1>4, <2>1
    <2>4. rows[OrderOf(Of(payer))].amount \in Int
      BY <1>4, <2>2
    <2>5. payers[payer] = Credited(rows[payer], rows[OrderOf(Of(payer))].amount)
      OBVIOUS
    <2> HIDE DEF payers, Of, OrderOf
    <2> QED  BY <2>3, <2>4, <2>5, CustomerValues
  <1>6. \A row \in taken : row \notin O /\ row \notin P /\ OrderOf(row) \notin P /\ OrderOf(row) \notin taken
    BY <1>4
  <1>7. /\ DOMAIN gone = taken /\ DOMAIN orders = O /\ DOMAIN payers = P
        /\ \A row \in taken : gone[row] = Gone
        /\ \A row \in taken : OrderOf(row) \in O /\ orders[OrderOf(row)] = Carried(rows[OrderOf(row)])
    OBVIOUS
  <1> HIDE DEF gone, orders, payers
  <1>8. /\ DOMAIN p1 = O \cup P
        /\ \A order \in O : p1[order] = orders[order]
        /\ \A payer \in P : payer \notin O => p1[payer] = payers[payer]
    BY <1>7 DEF Overlay
  <1>9. O \cap P = {} /\ O \cap taken = {} /\ P \cap taken = {}
    BY <1>6
  <1> HIDE DEF O, P, p1
  <1>10. /\ DOMAIN w = taken \cup O \cup P
         /\ \A row \in taken : w[row] = Gone
         /\ \A order \in O : w[order] = orders[order]
         /\ \A payer \in P : w[payer] = payers[payer]
    BY <1>7, <1>8, <1>9 DEF Overlay
  <1> HIDE DEF w
  <1>11. SqliteDeliveryWrites(w, taken, rows)
    <2>1. \A row \in O : \E n \in taken : row = OrderRow(n[2], n[3])
      BY DEF O
    <2> QED  BY <1>5, <1>7, <1>10, <2>1 DEF SqliteDeliveryWrites
  <1> QED  BY <1>3, <1>11 DEF w

-----------------------------------------------------------------------------
\* rows with the changes made to them.
Overlaid(changes, rows, then) ==
    /\ IsRows(then)
    /\ \A row : /\ row \in DOMAIN then <=>
                       \/ row \in DOMAIN changes /\ changes[row] # Gone
                       \/ row \in DOMAIN rows \ DOMAIN changes
                /\ row \in DOMAIN then =>
                       then[row] = IF row \in DOMAIN changes THEN changes[row] ELSE rows[row]

\* With them, the order is placed.
LEMMA SqliteOrderStored ==
    ASSUME NEW rows, SqliteOK(rows), NEW then, NEW r \in Orders, NEW o \in Nat \ {0},
           OrderRow(r.d, o) \notin DOMAIN rows, o = 1 \/ OrderRow(r.d, o - 1) \in DOMAIN rows,
           NEW w, SqliteOrderWrites(w, r, o, rows), Overlaid(w, rows, then)
    PROVE  SqliteOK(then) /\ Later(rows, then) /\ SameTable("history", rows, then)
PROOF
  <1> DEFINE district == DistrictRow(r.d)
             order    == OrderRow(r.d, o)
             new      == NewRow(r.d, o)
  <1>1. /\ DOMAIN w = {district, order, new} \cup {StockRow(n) : n \in ToSet(r.items)}
        /\ w[district] = Renumbered(rows[district], o + 1)
        /\ w[order] = PlacedOrder(r) /\ w[new] = [new |-> TRUE]
        /\ \A n \in ToSet(r.items) : w[StockRow(n)] = Stocked(rows[StockRow(n)])
    BY DEF SqliteOrderWrites
  <1>2. r.d \in DIds /\ ToSet(r.items) \subseteq Items /\ PlacedOrder(r) # Gone
    BY OrderIs
  <1>3. /\ district \in DOMAIN rows /\ rows[district] \in [next : Nat \ {0}, ytd : Int]
        /\ \A n \in ToSet(r.items) : /\ StockRow(n) \in DOMAIN rows
                                      /\ rows[StockRow(n)] \in [ytd : Int, count : Int]
    BY <1>2, BaseFits DEF SqliteOK
  <1>4. \A row \in DOMAIN w : w[row] # Gone
    <2>1. w[district] # Gone
      <3>1. o + 1 \in Nat \ {0}
        OBVIOUS
      <3>2. Renumbered(rows[district], o + 1) # Gone
        BY <1>3, <3>1, RenumberedValues
      <3> QED  BY <1>1, <3>2
    <2>2. w[new] # Gone
      BY <1>1, NotGone
    <2>3. \A n \in ToSet(r.items) : Stocked(rows[StockRow(n)]) # Gone
      BY <1>3, StockValues
    <2> QED  BY <1>1, <1>2, <2>1, <2>2, <2>3
  <1>5. /\ order[1] = "orders" /\ new[1] = "new_order" /\ district[1] = "district"
        /\ \A n : StockRow(n)[1] = "stock"
    BY RowKeys
  <1> HIDE DEF order, new, district
  <1>6. /\ \A row \in DOMAIN w : row \in DOMAIN then /\ then[row] = w[row]
        /\ \A row \in DOMAIN rows \ DOMAIN w : row \in DOMAIN then /\ then[row] = rows[row]
        /\ DOMAIN then \subseteq DOMAIN w \cup DOMAIN rows
    BY <1>4 DEF Overlaid
  <1>7. DOMAIN then = DOMAIN rows \cup {order, new}
    <2>1. DOMAIN w \subseteq DOMAIN rows \cup {order, new} /\ order \in DOMAIN w /\ new \in DOMAIN w
      BY <1>1, <1>3
    <2> QED  BY <1>6, <2>1
  <1>8. \A row \in DOMAIN rows : row # district /\ (\A n \in ToSet(r.items) : row # StockRow(n))
            => then[row] = rows[row]
    <2>1. order \notin DOMAIN rows /\ new \notin DOMAIN rows
      BY <1>2, OrderNumbers DEF order, new
    <2> QED  BY <1>1, <1>6, <2>1
  <1>9. SqliteAdds(r, o, rows, then)
    <2>1. /\ then[order] = PlacedOrder(r) /\ then[new] = [new |-> TRUE]
          /\ then[district] = Renumbered(rows[district], o + 1)
          /\ \A n \in ToSet(r.items) : then[StockRow(n)] = Stocked(rows[StockRow(n)])
      BY <1>1, <1>6
    <2>2. IsRows(then)
      BY DEF Overlaid
    <2> QED  BY <1>7, <1>8, <2>1, <2>2 DEF SqliteAdds, order, new, district
  <1>10. SameTable("history", rows, then)
    BY <1>1, <1>5, <1>6 DEF SameTable
  <1> QED  BY <1>9, <1>10, SqliteOrders

\* With them, the payment is made.
LEMMA SqlitePaymentStored ==
    ASSUME NEW rows, SqliteOK(rows), NEW then, NEW r, r.d \in DIds, r.c \in CIds,
           NEW receipt, receipt[1] = "history", receipt \notin DOMAIN rows,
           NEW w, SqlitePaymentWrites(w, receipt, r, rows), Overlaid(w, rows, then)
    PROVE  SqliteOK(then) /\ Later(rows, then) /\ DOMAIN then = DOMAIN rows \cup {receipt}
PROOF
  <1> DEFINE district == DistrictRow(r.d)
             payer    == CustomerRow(r.d, r.c)
  <1>1. /\ DOMAIN w = {WarehouseRow, district, payer, receipt}
        /\ w[WarehouseRow] = Received(rows[WarehouseRow])
        /\ w[district] = Received(rows[district])
        /\ w[payer] \in [balance : Int, paid : Int]
        /\ w[receipt] = [d |-> r.d, c |-> r.c]
    BY DEF SqlitePaymentWrites
  <1>2. /\ WarehouseRow \in DOMAIN rows /\ rows[WarehouseRow] \in [ytd : Int]
        /\ district \in DOMAIN rows /\ rows[district] \in [next : Nat \ {0}, ytd : Int]
        /\ payer \in DOMAIN rows
    BY BaseFits DEF SqliteOK
  <1> HIDE DEF district, payer
  <1>3. \A row \in DOMAIN w : w[row] # Gone
    <2>1. Received(rows[WarehouseRow]) # Gone
      BY <1>2, WarehouseValues
    <2>2. Received(rows[district]) # Gone
      BY <1>2, DistrictValues
    <2>3. w[payer] # Gone /\ w[receipt] # Gone
      BY <1>1, NotGone
    <2> QED  BY <1>1, <2>1, <2>2, <2>3
  <1>4. /\ \A row \in DOMAIN w : row \in DOMAIN then /\ then[row] = w[row]
        /\ \A row \in DOMAIN rows \ DOMAIN w : row \in DOMAIN then /\ then[row] = rows[row]
        /\ DOMAIN then \subseteq DOMAIN w \cup DOMAIN rows
    BY <1>3 DEF Overlaid
  <1>5. DOMAIN then = DOMAIN rows \cup {receipt}
    BY <1>1, <1>2, <1>4
  <1>6. SqlitePays(r, receipt, rows, then)
    <2>1. /\ then[WarehouseRow] = Received(rows[WarehouseRow])
          /\ then[district] = Received(rows[district])
          /\ then[payer] \in [balance : Int, paid : Int]
          /\ then[receipt] = [d |-> r.d, c |-> r.c]
          /\ \A row \in DOMAIN rows \ {WarehouseRow, district, payer} : then[row] = rows[row]
      BY <1>1, <1>4
    <2>2. IsRows(then)
      BY DEF Overlaid
    <2> QED  BY <1>5, <2>1, <2>2 DEF SqlitePays, district, payer
  <1> QED  BY <1>5, <1>6, SqlitePaid

\* With them, the orders are delivered.
LEMMA SqliteDeliveryStored ==
    ASSUME NEW rows, SqliteOK(rows), NEW then, NEW taken, \A row \in taken : Takeable(row, rows),
           NEW w, SqliteDeliveryWrites(w, taken, rows), Overlaid(w, rows, then)
    PROVE  SqliteOK(then) /\ Later(rows, then) /\ SameTable("history", rows, then)
PROOF
  <1>1. ASSUME NEW row \in taken
        PROVE  LET order == OrderRow(row[2], row[3]) IN
               /\ row[1] = "new_order" /\ row \in DOMAIN w /\ w[row] = Gone
               /\ order \in DOMAIN rows /\ order[1] = "orders" /\ order \in DOMAIN w
               /\ w[order] = Carried(rows[order]) /\ w[order] # Gone
    <2> DEFINE order == OrderRow(row[2], row[3])
    <2>1. row[1] = "new_order" /\ order \in DOMAIN rows /\ order[1] = "orders"
      BY RowKeys DEF Takeable
    <2>2. OrderFits(order, rows[order])
      BY <2>1 DEF SqliteOK, StoreOK, Fits
    <2>3. Carried(rows[order]) # Gone
      BY <2>2, OrderValues
    <2>4. row \in DOMAIN w /\ w[row] = Gone /\ order \in DOMAIN w /\ w[order] = Carried(rows[order])
      BY DEF SqliteDeliveryWrites
    <2> QED  BY <2>1, <2>3, <2>4
  <1>2. ASSUME NEW row \in DOMAIN w
        PROVE  \/ row \in taken
               \/ row \in DOMAIN rows /\ w[row] # Gone /\ \E n \in taken : row = OrderRow(n[2], n[3])
               \/ /\ row \in DOMAIN rows /\ row[1] = "customer" /\ w[row] # Gone
                  /\ w[row] \in [balance : Int, paid : Int]
    BY <1>1, NotGone DEF SqliteDeliveryWrites
  <1>3. DOMAIN then = DOMAIN rows \ taken
    BY <1>1, <1>2 DEF Overlaid
  <1>4. \A row \in taken :
            then[OrderRow(row[2], row[3])] = Carried(rows[OrderRow(row[2], row[3])])
    BY <1>1 DEF Overlaid
  <1>5. ASSUME NEW row \in DOMAIN then
        PROVE  /\ row[1] = "customer" => then[row] \in [balance : Int, paid : Int]
               /\ row[1] # "customer" /\ (\A n \in taken : row # OrderRow(n[2], n[3])) =>
                      then[row] = rows[row]
    <2>1. row \in DOMAIN rows /\ row \notin taken
      BY <1>3
    <2>2. CASE row \in DOMAIN w
      <3>1. then[row] = w[row]
        BY <2>2 DEF Overlaid
      <3> QED  BY <1>1, <1>2, <2>1, <2>2, <3>1
    <2>3. CASE row \notin DOMAIN w
      <3>1. then[row] = rows[row]
        BY <2>3 DEF Overlaid
      <3>2. row[1] = "customer" => rows[row] \in [balance : Int, paid : Int]
        BY <2>1 DEF SqliteOK, StoreOK, Fits
      <3> QED  BY <3>1, <3>2
    <2> QED  BY <2>2, <2>3
  <1>6. SqliteCarries(taken, rows, then)
    BY <1>3, <1>4, <1>5 DEF SqliteCarries, Overlaid
  <1>7. SameTable("history", rows, then)
    BY <1>1, <1>3, <1>5 DEF SameTable
  <1> QED  BY <1>6, <1>7, SqliteCarried

\* The oldest new order of a district.
LEMMA SqliteOldest ==
    ASSUME NEW rows, SqliteOK(rows), NEW d \in Sqlite!WithNew(rows)
    PROVE  /\ Takeable(NewRow(d, Sqlite!Oldest(rows, d)), rows)
           /\ NewRow(d, Sqlite!Oldest(rows, d)) \in DOMAIN rows
PROOF
  <1> DEFINE S == Numbered(rows, "new_order", d)
  <1>1. d \in DIds /\ S # {}
    BY SqliteRows DEF Sqlite!WithNew
  <1>2. \A o : o \in S <=> NewRow(d, o) \in DOMAIN rows
    <2>1. \A row \in DOMAIN rows : row[1] = "new_order" => row = NewRow(row[2], row[3])
      BY DEF SqliteOK, KeysOK
    <2> QED  BY <2>1, RowKeys DEF Numbered
  <1>3. S \subseteq Nat
    BY <1>1, <1>2, OrderNumbers
  <1>4. \E x \in S : \A y \in S : x <= y
    BY <1>1, <1>3, LeastNatural
  <1>5. Sqlite!Oldest(rows, d) = CHOOSE x \in S : \A y \in S : x <= y
    BY SqliteRows DEF Sqlite!Oldest, Sqlite!Min
  <1> DEFINE o == Sqlite!Oldest(rows, d)
  <1>6. o \in S /\ \A y \in S : o <= y
    BY <1>4, <1>5
  <1> HIDE DEF o, S
  <1>7. OrderRow(d, o) \in DOMAIN rows
    BY <1>1, <1>2, <1>6, OrderNumbers
  <1>8. NewRow(d, o)[2] = d /\ NewRow(d, o)[3] = o
    BY RowKeys
  <1> QED  BY <1>1, <1>2, <1>6, <1>7, <1>8 DEF Takeable, o

\* What the first write and those after it make of what the client sees.
LEMMA SqliteWrites ==
    ASSUME NEW i \in Clients, NEW rows, SqliteOK(rows), ReadOK(request[i], seen[i], rows),
           ~ Sqlite!Duplicate(request[i], seen[i], rows),
           HistoryRow(i, ended[i]) \notin DOMAIN rows,
           NEW then, Overlaid(Sqlite!Changes(i, rows), rows, then)
    PROVE  /\ SqliteOK(then) /\ Later(rows, then)
           /\ \A row \in DOMAIN then :
                 row[1] = "history" => row \in DOMAIN rows \/ row = HistoryRow(i, ended[i])
PROOF
  <1> DEFINE r == request[i]
             s == seen[i]
             w == Sqlite!Changes(i, rows)
  <1>1. r \in Requests /\ r.type \in {"NEW_ORDER", "PAYMENT", "DELIVERY"}
    BY RequestKinds DEF ReadOK
  <1>2. CASE r.type = "NEW_ORDER"
    <2> DEFINE o == s[DistrictRow(r.d)].next
    <2>1. r \in Orders /\ r.d \in DIds
      BY <1>1, <1>2, RequestKinds, OrderIs
    <2>2. o \in Nat \ {0} /\ (o = 1 \/ OrderRow(r.d, o - 1) \in DOMAIN rows)
      BY <1>2 DEF ReadOK
    <2>3. OrderRow(r.d, o) \notin DOMAIN rows
      BY <1>2, SqliteRows DEF Sqlite!Duplicate
    <2>4. w = Sqlite!NewOrder(r, s, rows)
      BY <1>2 DEF Sqlite!Changes
    <2>5. SqliteOrderWrites(w, r, o, rows)
      BY <2>4, SqliteOrder
    <2> HIDE DEF o, w, r
    <2>6. SqliteOK(then) /\ Later(rows, then) /\ SameTable("history", rows, then)
      BY <2>1, <2>2, <2>3, <2>5, SqliteOrderStored DEF w
    <2> QED  BY <2>6 DEF SameTable
  <1>3. CASE r.type = "PAYMENT"
    <2>1. r.d \in DIds /\ r.c \in CIds
      BY <1>1, <1>3, RequestKinds
    <2>2. w = Sqlite!Payment(i, r, s, rows)
      BY <1>3 DEF Sqlite!Changes
    <2>3. SqlitePaymentWrites(w, HistoryRow(i, ended[i]), r, rows)
      BY <1>3, <2>2, SqlitePayment DEF ReadOK
    <2>4. HistoryRow(i, ended[i])[1] = "history"
      BY RowKeys
    <2> HIDE DEF w, r
    <2>5. SqliteOK(then) /\ Later(rows, then) /\ DOMAIN then = DOMAIN rows \cup {HistoryRow(i, ended[i])}
      BY <2>1, <2>3, <2>4, SqlitePaymentStored DEF w
    <2> QED  BY <2>5
  <1>4. CASE r.type = "DELIVERY"
    <2> DEFINE taken == Sqlite!Taken(s, rows)
    <2>1. w = Sqlite!Delivery(taken, rows)
      BY <1>4 DEF Sqlite!Changes
    <2>2. \A row \in taken : Takeable(row, rows)
      <3>1. \A row \in DOMAIN s : Takeable(row, rows)
        BY <1>4 DEF ReadOK
      <3>2. \A row \in taken : row \in DOMAIN s \/ \E d \in Sqlite!WithNew(rows) : row = NewRow(d, Sqlite!Oldest(rows, d))
        BY SqliteRows DEF Sqlite!Taken
      <3> QED  BY <3>1, <3>2, SqliteOldest
    <2> HIDE DEF taken
    <2>3. SqliteDeliveryWrites(w, taken, rows)
      BY <2>1, <2>2, SqliteDelivery
    <2> HIDE DEF w
    <2>4. SqliteOK(then) /\ Later(rows, then) /\ SameTable("history", rows, then)
      BY <2>2, <2>3, SqliteDeliveryStored DEF w
    <2> QED  BY <2>4 DEF SameTable
  <1> QED  BY <1>1, <1>2, <1>3, <1>4

-----------------------------------------------------------------------------
\* Whether the n-th call of client k may have made a row of HISTORY.
Used(k, n) == n < ended[k] \/ (n = ended[k] /\ pc[k] = "commit")

HistoryUsed(rows) ==
    \A k \in Clients : \A n \in Nat : HistoryRow(k, n) \in DOMAIN rows => Used(k, n)

SqliteClientOK(i) ==
    /\ pc[i] \in {"idle", "write", "commit"}
    /\ open[i] \in {"no", "begun", "shared", "reserved"}
    /\ open[i] # "reserved" => written[i] = NoRows
    /\ SqliteOK(Visible(i))
    /\ Later(db, Visible(i))
    /\ HistoryUsed(Visible(i))
    /\ pc[i] = "write" => ReadOK(request[i], seen[i], Visible(i))
    /\ pc[i] = "commit" => open[i] = "reserved"

SqliteInv ==
    /\ driver = "sqlite" /\ driver \in Drivers
    /\ RequestsOK
    /\ EndedOK
    /\ DOMAIN written = Clients /\ DOMAIN open = Clients /\ DOMAIN seen = Clients
    /\ SqliteOK(db)
    /\ \A i, j \in Clients : open[i] = "reserved" /\ open[j] = "reserved" => i = j
    /\ \A i \in Clients : SqliteClientOK(i)

\* Who has written nothing sees what is committed.
LEMMA SqliteUnwritten ==
    ASSUME NEW rows, SqliteOK(rows)
    PROVE  Without(Overlay(NoRows, rows)) = rows
PROOF
  <1>1. \A row \in DOMAIN rows : rows[row] # Gone
    BY DEF SqliteOK, StoreOK, Fits
  <1>2. Overlay(NoRows, rows) = [row \in DOMAIN rows |-> rows[row]]
    BY NoRowsAre DEF Overlay
  <1>3. Overlay(NoRows, rows) = rows
    BY <1>2 DEF SqliteOK, IsRows
  <1>4. Without(rows) = [row \in DOMAIN rows |-> rows[row]]
    <2>1. {row \in DOMAIN rows : rows[row] # Gone} = DOMAIN rows
      BY <1>1
    <2> QED  BY <2>1 DEF Without, Restrict
  <1> QED  BY <1>3, <1>4 DEF SqliteOK, IsRows

\* What further changes make of what a client sees.
LEMMA SqliteOverlaid ==
    ASSUME NEW changes, NEW w, NEW rows
    PROVE  Overlaid(changes, Without(Overlay(w, rows)), Without(Overlay(Overlay(changes, w), rows)))
PROOF
  <1> DEFINE seen1 == Without(Overlay(w, rows))
             c == Overlay(changes, w)
             then == Without(Overlay(c, rows))
  <1>1. /\ DOMAIN c = DOMAIN changes \cup DOMAIN w
        /\ \A row \in DOMAIN c : c[row] = IF row \in DOMAIN changes THEN changes[row] ELSE w[row]
    BY DEF Overlay
  <1>2. \A row : /\ row \in DOMAIN seen1 <=> \/ row \in DOMAIN w /\ w[row] # Gone
                                             \/ row \in DOMAIN rows \ DOMAIN w /\ rows[row] # Gone
                 /\ row \in DOMAIN seen1 => seen1[row] = IF row \in DOMAIN w THEN w[row] ELSE rows[row]
    BY WrittenIs
  <1>3. \A row : /\ row \in DOMAIN then <=> \/ row \in DOMAIN c /\ c[row] # Gone
                                            \/ row \in DOMAIN rows \ DOMAIN c /\ rows[row] # Gone
                 /\ row \in DOMAIN then => then[row] = IF row \in DOMAIN c THEN c[row] ELSE rows[row]
    BY WrittenIs
  <1>4. IsRows(then)
    BY DEF IsRows, Without, Restrict
  <1> HIDE DEF seen1, c, then
  <1>5. Overlaid(changes, seen1, then)
    BY <1>1, <1>2, <1>3, <1>4 DEF Overlaid
  <1> QED  BY <1>5 DEF seen1, c, then

\* And so is what a transaction sees.
LEMMA SqliteVisible == \A i : Sqlite!Visible(i) = Visible(i)
PROOF BY SqliteRows, Zenon DEF Sqlite!Visible, Visible

\* A client that does nothing, while another one does not commit.
LEMMA SqliteOther ==
    ASSUME SqliteInv, NEW j \in Clients, db' = db,
           pc'[j] = pc[j], request'[j] = request[j], seen'[j] = seen[j],
           written'[j] = written[j], open'[j] = open[j],
           \A k \in Clients : \A n \in Nat : Used(k, n) => Used(k, n)'
    PROVE  SqliteClientOK(j)'
PROOF
  <1>1. Visible(j)' = Visible(j)
    BY DEF Visible
  <1>2. HistoryUsed(Visible(j))'
    BY <1>1 DEF SqliteInv, SqliteClientOK, HistoryUsed
  <1> QED  BY <1>1, <1>2 DEF SqliteInv, SqliteClientOK

\* The call is over.
LEMMA SqliteOver ==
    ASSUME SqliteInv, NEW i \in Clients, Sqlite!Returns(i), ended[i] < MaxTransactions
    PROVE  /\ RequestsOK' /\ EndedOK' /\ DOMAIN seen' = Clients
           /\ pc'[i] = "idle"
           /\ \A k \in Clients : \A n \in Nat : Used(k, n) => Used(k, n)'
           /\ \A j \in Clients \ {i} :
                 pc'[j] = pc[j] /\ request'[j] = request[j] /\ seen'[j] = seen[j]
PROOF
  <1>1. /\ pc' = [pc EXCEPT ![i] = "idle"] /\ request' = [request EXCEPT ![i] = NoRequest]
        /\ seen' = [seen EXCEPT ![i] = NoRows] /\ ended' = [ended EXCEPT ![i] = ended[i] + 1]
    BY SqliteRows DEF Sqlite!Returns
  <1>2. RequestsOK' /\ DOMAIN seen' = Clients
    BY <1>1 DEF SqliteInv, RequestsOK
  <1>3. EndedOK'
    BY <1>1, DurationAssumption DEF SqliteInv, EndedOK, RequestsOK
  <1>4. \A k \in Clients : \A n \in Nat : Used(k, n) => Used(k, n)'
    BY <1>1 DEF SqliteInv, EndedOK, RequestsOK, Used
  <1> QED  BY <1>1, <1>2, <1>3, <1>4 DEF SqliteInv, RequestsOK

\* It stores nothing and writes nothing.
LEMMA SqliteLeaves ==
    ASSUME SqliteInv, NEW i \in Clients, Sqlite!Returns(i), ended[i] < MaxTransactions,
           driver' = driver, db' = db, written' = written,
           open'[i] \in {"no", "begun", "shared", "reserved"},
           open'[i] = "reserved" <=> open[i] = "reserved",
           DOMAIN open' = Clients, \A j \in Clients \ {i} : open'[j] = open[j]
    PROVE  SqliteInv'
PROOF
  <1>1. /\ RequestsOK' /\ EndedOK' /\ DOMAIN seen' = Clients /\ pc'[i] = "idle"
        /\ \A k \in Clients : \A n \in Nat : Used(k, n) => Used(k, n)'
        /\ \A j \in Clients \ {i} :
              pc'[j] = pc[j] /\ request'[j] = request[j] /\ seen'[j] = seen[j]
    BY SqliteOver
  <1>2. SqliteClientOK(i)'
    <2>1. Visible(i)' = Visible(i)
      BY DEF Visible
    <2>2. HistoryUsed(Visible(i))'
      BY <1>1, <2>1 DEF SqliteInv, SqliteClientOK, HistoryUsed
    <2> QED  BY <1>1, <2>1, <2>2 DEF SqliteInv, SqliteClientOK
  <1>3. \A j \in Clients \ {i} : SqliteClientOK(j)'
    BY <1>1, SqliteOther
  <1>4. SqliteOK(db')
    BY DEF SqliteInv
  <1>5. \A k, j \in Clients : open'[k] = "reserved" /\ open'[j] = "reserved" => k = j
    BY DEF SqliteInv
  <1> QED  BY <1>1, <1>2, <1>3, <1>4, <1>5 DEF SqliteInv

\* It commits: what the client sees is what all do, and their reads still hold.
LEMMA SqliteStores ==
    ASSUME SqliteInv, NEW i \in Clients, Sqlite!Returns(i), ended[i] < MaxTransactions,
           driver' = driver, Sqlite!Commits(i)
    PROVE  SqliteInv'
PROOF
  <1>1. /\ RequestsOK' /\ EndedOK' /\ DOMAIN seen' = Clients /\ pc'[i] = "idle"
        /\ \A k \in Clients : \A n \in Nat : Used(k, n) => Used(k, n)'
        /\ \A j \in Clients \ {i} :
              pc'[j] = pc[j] /\ request'[j] = request[j] /\ seen'[j] = seen[j]
    BY SqliteOver
  <1>2. db' = Visible(i) /\ written' = [written EXCEPT ![i] = NoRows] /\ open' = [open EXCEPT ![i] = "no"]
    BY SqliteVisible, SqliteRows DEF Sqlite!Commits, Sqlite!Closes
  <1>3. /\ DOMAIN open' = Clients /\ DOMAIN written' = Clients
        /\ open'[i] = "no" /\ written'[i] = NoRows
        /\ \A j \in Clients \ {i} : open'[j] = open[j] /\ written'[j] = written[j]
    BY <1>2 DEF SqliteInv
  <1>4. SqliteOK(db') /\ Later(db, db')
    BY <1>2 DEF SqliteInv, SqliteClientOK
  <1>5. HistoryUsed(Visible(i))
    BY DEF SqliteInv, SqliteClientOK
  <1>6. Later(db', db')
    BY DEF Later
  <1>7. SqliteClientOK(i)'
    <2>1. Visible(i)' = db'
      BY <1>3, <1>4, SqliteUnwritten DEF Visible
    <2>2. HistoryUsed(Visible(i))'
      BY <1>1, <1>2, <1>5, <2>1 DEF HistoryUsed
    <2> QED  BY <1>1, <1>3, <1>4, <1>6, <2>1, <2>2 DEF SqliteClientOK
  <1>8. ASSUME NEW j \in Clients \ {i}
        PROVE  SqliteClientOK(j)'
    <2>1. CASE open[i] = "reserved"
      <3>1. open[j] # "reserved" /\ written[j] = NoRows
        BY <2>1 DEF SqliteInv, SqliteClientOK
      <3>2. Visible(j)' = db'
        BY <1>3, <1>4, <3>1, SqliteUnwritten DEF Visible
      <3>3. HistoryUsed(Visible(j))'
        BY <1>1, <1>2, <1>5, <3>2 DEF HistoryUsed
      <3>4. pc'[j] = "write" => ReadOK(request'[j], seen'[j], db')
        <4> SUFFICES ASSUME pc[j] = "write"
                     PROVE  ReadOK(request[j], seen[j], db')
          BY <1>1
        <4>1. SqliteOK(db)
          BY DEF SqliteInv
        <4>2. Visible(j) = db
          BY <3>1, <4>1, SqliteUnwritten DEF Visible
        <4>3. ReadOK(request[j], seen[j], db)
          BY <4>2 DEF SqliteInv, SqliteClientOK
        <4> QED  BY <1>4, <4>1, <4>3, StillReadOK
      <3> QED  BY <1>1, <1>3, <1>4, <1>6, <3>1, <3>2, <3>3, <3>4 DEF SqliteInv, SqliteClientOK
    <2>2. CASE open[i] # "reserved"
      <3>1. db' = db
        <4>1. written[i] = NoRows /\ SqliteOK(db)
          BY <2>2 DEF SqliteInv, SqliteClientOK
        <4> QED  BY <1>2, <4>1, SqliteUnwritten DEF Visible
      <3> QED  BY <1>1, <1>3, <3>1, SqliteOther
    <2> QED  BY <2>1, <2>2
  <1>9. \A k, j \in Clients : open'[k] = "reserved" /\ open'[j] = "reserved" => k = j
    BY <1>3 DEF SqliteInv
  <1> QED  BY <1>1, <1>3, <1>4, <1>7, <1>8, <1>9 DEF SqliteInv

-----------------------------------------------------------------------------
\* What a call reads before its first write says what it goes by.
LEMMA SqliteReads ==
    ASSUME NEW rows, SqliteOK(rows), NEW r \in Requests, r.type # "READ", ~ UnknownItem(r)
    PROVE  ReadOK(r, Restrict(rows, Sqlite!Reads(r, rows)), rows)
PROOF
  <1> DEFINE s == Restrict(rows, Sqlite!Reads(r, rows))
  <1>1. DOMAIN s = Sqlite!Reads(r, rows) /\ \A row \in Sqlite!Reads(r, rows) : s[row] = rows[row]
    BY DEF Restrict
  <1>2. /\ r.type = "NEW_ORDER" => Sqlite!Reads(r, rows) = {DistrictRow(r.d)}
        /\ r.type = "PAYMENT" => Sqlite!Reads(r, rows) = {CustomerRow(r.d, r.c)}
        /\ r.type = "DELIVERY" => Sqlite!Reads(r, rows) = Sqlite!FirstNew(rows)
    BY SqliteRows DEF Sqlite!Reads
  <1> HIDE DEF s
  <1>3. StoreOK(rows)
    BY DEF SqliteOK
  <1>4. ASSUME r.type = "NEW_ORDER"
        PROVE  LET next == s[DistrictRow(r.d)].next IN
               next \in Nat \ {0} /\ (next = 1 \/ OrderRow(r.d, next - 1) \in DOMAIN rows)
    <2>1. r.d \in DIds
      BY <1>4, RequestKinds, OrderIs
    <2>2. s[DistrictRow(r.d)] = rows[DistrictRow(r.d)] /\ rows[DistrictRow(r.d)].next \in Nat \ {0}
      BY <1>1, <1>2, <1>3, <1>4, <2>1, BaseFits
    <2>3. PICK top \in Nat : /\ \A o : OrderRow(r.d, o) \in DOMAIN rows <=> o \in 1 .. top
                             /\ rows[DistrictRow(r.d)].next <= top + 1
      BY <2>1 DEF SqliteOK, NumberedFromOne
    <2> DEFINE n == rows[DistrictRow(r.d)].next
    <2>4. n = 1 \/ n - 1 \in 1 .. top
      <3> HIDE DEF n
      <3>1. n \in Nat \ {0} /\ n <= top + 1
        BY <2>2, <2>3 DEF n
      <3> QED  BY <3>1, <2>3
    <2> QED  BY <2>2, <2>3, <2>4
  <1>5. ASSUME r.type = "PAYMENT"
        PROVE  s[CustomerRow(r.d, r.c)] \in [balance : Int, paid : Int]
    BY <1>1, <1>2, <1>3, <1>5, RequestKinds, BaseFits
  <1>6. ASSUME r.type = "DELIVERY", NEW row \in DOMAIN s
        PROVE  Takeable(row, rows)
    <2>1. row \in Sqlite!FirstNew(rows)
      BY <1>1, <1>2, <1>6
    <2>2. PICK d \in Sqlite!WithNew(rows) : row = NewRow(d, Sqlite!Oldest(rows, d))
      BY <2>1, SqliteRows DEF Sqlite!FirstNew
    <2> QED  BY <2>2, SqliteOldest
  <1> QED  BY <1>4, <1>5, <1>6 DEF ReadOK, s

\* A call begins.
LEMMA SqliteRead ==
    ASSUME SqliteInv, NEW i \in Clients, Sqlite!Read(i), driver' = driver
    PROVE  SqliteInv'
PROOF
  <1>1. PICK r \in Requests :
           /\ Sqlite!Called(i, r, "write") /\ r.type # "READ" /\ ~ UnknownItem(r)
           /\ seen' = [seen EXCEPT ![i] = Restrict(Visible(i), Sqlite!Reads(r, Visible(i)))]
    BY SqliteRows, SqliteVisible DEF Sqlite!Read
  <1>2. /\ pc[i] = "idle" /\ ended[i] < MaxTransactions
        /\ request' = [request EXCEPT ![i] = r] /\ pc' = [pc EXCEPT ![i] = "write"]
    BY <1>1 DEF Sqlite!Called
  <1>3. /\ db' = db /\ written' = written /\ ended' = ended
        /\ open'[i] \in {"no", "shared", "begun", "reserved"}
        /\ open'[i] = "reserved" <=> open[i] = "reserved"
        /\ DOMAIN open' = Clients /\ \A j \in Clients \ {i} : open'[j] = open[j]
    <2>0. DOMAIN open = Clients
      BY DEF SqliteInv
    <2>1. open[i] \in {"no", "begun", "shared", "reserved"}
      BY DEF SqliteInv, SqliteClientOK
    <2> QED  BY <2>0, <2>1 DEF Sqlite!Read, Sqlite!OpenAfterReads
  <1>4. /\ DOMAIN seen' = Clients /\ seen'[i] = Restrict(Visible(i), Sqlite!Reads(r, Visible(i)))
        /\ \A j \in Clients \ {i} : seen'[j] = seen[j]
        /\ request'[i] = r /\ \A j \in Clients \ {i} : request'[j] = request[j]
        /\ pc'[i] = "write" /\ \A j \in Clients \ {i} : pc'[j] = pc[j]
    BY <1>1, <1>2, <1>3 DEF SqliteInv, RequestsOK
  <1>5. RequestsOK' /\ EndedOK'
    <2>1. r # NoRequest
      BY RequestKinds
    <2> QED  BY <1>2, <1>3, <1>4, <2>1 DEF SqliteInv, RequestsOK, EndedOK
  <1>6. \A k \in Clients : \A n \in Nat : Used(k, n) => Used(k, n)'
    BY <1>2, <1>3, <1>4 DEF Used
  <1>7. SqliteClientOK(i)'
    <2>1. Visible(i)' = Visible(i)
      BY <1>3 DEF Visible
    <2>2. HistoryUsed(Visible(i))'
      BY <1>6, <2>1 DEF SqliteInv, SqliteClientOK, HistoryUsed
    <2>3. ReadOK(r, seen'[i], Visible(i))
      BY <1>1, <1>4, SqliteReads DEF SqliteInv, SqliteClientOK
    <2> QED  BY <1>3, <1>4, <2>1, <2>2, <2>3 DEF SqliteInv, SqliteClientOK
  <1>8. \A j \in Clients \ {i} : SqliteClientOK(j)'
    BY <1>3, <1>4, <1>6, SqliteOther
  <1>9. \A k, j \in Clients : open'[k] = "reserved" /\ open'[j] = "reserved" => k = j
    BY <1>3, <1>4 DEF SqliteInv
  <1>10. SqliteOK(db')
    BY <1>3 DEF SqliteInv
  <1> QED  BY <1>3, <1>4, <1>5, <1>7, <1>8, <1>9, <1>10 DEF SqliteInv

\* It only reads, or raises before it has written anything.
LEMMA SqliteRaises ==
    ASSUME SqliteInv, NEW i \in Clients, driver' = driver,
           \/ Sqlite!ReadOnly(i) \/ Sqlite!ReadOnlyLocked(i) \/ Sqlite!GiveUp(i)
           \/ Sqlite!WriteLocked(i) \/ Sqlite!Commit(i) \/ Sqlite!CommitLocked(i)
    PROVE  SqliteInv'
PROOF
  <1>1. open[i] \in {"no", "begun", "shared", "reserved"} /\ DOMAIN open = Clients
    BY DEF SqliteInv, SqliteClientOK
  <1>2. pc[i] # "idle" => ended[i] < MaxTransactions
    BY DEF SqliteInv, EndedOK
  <1>3. CASE Sqlite!ReadOnly(i)
    BY <1>3, SqliteStores DEF Sqlite!ReadOnly, Sqlite!CallsReadOnly
  <1>4. CASE Sqlite!ReadOnlyLocked(i)
    BY <1>1, <1>4, SqliteLeaves DEF Sqlite!ReadOnlyLocked, Sqlite!CallsReadOnly
  <1>5. CASE Sqlite!GiveUp(i)
    BY <1>1, <1>5, SqliteLeaves DEF Sqlite!GiveUp, Sqlite!OpenAfterReads
  <1>6. CASE Sqlite!WriteLocked(i)
    BY <1>1, <1>2, <1>6, SqliteLeaves DEF Sqlite!WriteLocked
  <1>7. CASE Sqlite!Commit(i)
    BY <1>2, <1>7, SqliteStores DEF Sqlite!Commit
  <1>8. CASE Sqlite!CommitLocked(i)
    BY <1>1, <1>2, <1>8, SqliteLeaves DEF Sqlite!CommitLocked
  <1> QED  BY <1>3, <1>4, <1>5, <1>6, <1>7, <1>8

\* What client i has written and not stored is another of what it sees.
LEMMA SqliteWritten ==
    ASSUME SqliteInv, NEW i \in Clients, NEW w, written' = [written EXCEPT ![i] = w], db' = db,
           open' = [open EXCEPT ![i] = "reserved"], ~ Sqlite!Reserved(i), driver' = driver,
           RequestsOK', EndedOK', DOMAIN seen' = Clients, pc'[i] \in {"idle", "commit"},
           SqliteOK(Without(Overlay(w, db))), Later(db, Without(Overlay(w, db))),
           HistoryUsed(Without(Overlay(w, db)))',
           \A k \in Clients : \A n \in Nat : Used(k, n) => Used(k, n)',
           \A j \in Clients \ {i} :
               pc'[j] = pc[j] /\ request'[j] = request[j] /\ seen'[j] = seen[j]
    PROVE  SqliteInv'
PROOF
  <1>1. /\ DOMAIN open' = Clients /\ open'[i] = "reserved" /\ \A j \in Clients \ {i} : open'[j] = open[j]
        /\ DOMAIN written' = Clients /\ written'[i] = w
        /\ \A j \in Clients \ {i} : written'[j] = written[j]
    BY DEF SqliteInv
  <1>2. Visible(i)' = Without(Overlay(w, db))
    BY <1>1 DEF Visible
  <1>3. HistoryUsed(Visible(i))'
    BY <1>2 DEF HistoryUsed
  <1>4. SqliteClientOK(i)'
    BY <1>1, <1>2, <1>3 DEF SqliteClientOK
  <1>5. \A j \in Clients \ {i} : SqliteClientOK(j)'
    BY <1>1, SqliteOther
  <1>6. \A j \in Clients \ {i} : open[j] # "reserved"
    BY SqliteRows DEF Sqlite!Reserved
  <1>7. \A k, j \in Clients : open'[k] = "reserved" /\ open'[j] = "reserved" => k = j
    BY <1>1, <1>6
  <1> QED  BY <1>1, <1>4, <1>5, <1>7 DEF SqliteInv

\* The writes of a call keep the invariant.
LEMMA SqliteWrite ==
    ASSUME SqliteInv, NEW i \in Clients, Sqlite!Write(i), driver' = driver
    PROVE  SqliteInv'
PROOF
  <1> DEFINE rows == Visible(i)
             w == Overlay(Sqlite!Changes(i, rows), written[i])
             then == Without(Overlay(w, db))
  <1>1. /\ pc[i] = "write" /\ ~ Sqlite!Reserved(i)
        /\ ~ Sqlite!Duplicate(request[i], seen[i], rows)
        /\ written' = [written EXCEPT ![i] = w] /\ open' = [open EXCEPT ![i] = "reserved"]
        /\ pc' = [pc EXCEPT ![i] = "commit"] /\ db' = db
        /\ request' = request /\ seen' = seen /\ ended' = ended
    BY SqliteRows, SqliteVisible DEF Sqlite!Write
  <1>2. Overlaid(Sqlite!Changes(i, rows), rows, then)
    BY SqliteOverlaid DEF Visible
  <1>3. /\ SqliteOK(rows) /\ ReadOK(request[i], seen[i], rows) /\ Later(db, rows)
        /\ HistoryUsed(rows)
    BY <1>1 DEF SqliteInv, SqliteClientOK
  <1>4. ended[i] \in Nat
    BY DurationAssumption DEF SqliteInv, EndedOK
  <1>5. HistoryRow(i, ended[i]) \notin DOMAIN rows
    BY <1>1, <1>3, <1>4 DEF HistoryUsed, Used
  <1> HIDE DEF w, then
  <1>6. /\ SqliteOK(then) /\ Later(rows, then)
        /\ \A row \in DOMAIN then :
              row[1] = "history" => row \in DOMAIN rows \/ row = HistoryRow(i, ended[i])
    <2> HIDE DEF rows
    <2> QED  BY <1>1, <1>2, <1>3, <1>5, SqliteWrites
  <1>7. Later(db, then)
    BY <1>3, <1>6, LaterTransitive
  <1>8. pc'[i] = "commit" /\ \A j \in Clients \ {i} : pc'[j] = pc[j]
    BY <1>1 DEF SqliteInv, RequestsOK
  <1>9. \A k \in Clients : \A n \in Nat : Used(k, n) => Used(k, n)'
    BY <1>1, <1>8 DEF Used
  <1>10. ASSUME NEW k \in Clients, NEW n \in Nat, HistoryRow(k, n) \in DOMAIN then
         PROVE  Used(k, n)'
    <2>1. HistoryRow(k, n) \in DOMAIN rows \/ HistoryRow(k, n) = HistoryRow(i, ended[i])
      BY <1>6, <1>10, RowKeys
    <2>2. CASE HistoryRow(k, n) \in DOMAIN rows
      BY <1>3, <1>9, <2>2 DEF HistoryUsed
    <2>3. CASE HistoryRow(k, n) = HistoryRow(i, ended[i])
      <3>1. k = i /\ n = ended[i]
        BY <2>3, RowKeys
      <3> QED  BY <1>1, <1>8, <3>1 DEF Used
    <2> QED  BY <2>1, <2>2, <2>3
  <1>11. RequestsOK' /\ EndedOK' /\ DOMAIN seen' = Clients
    BY <1>1, <1>8 DEF SqliteInv, RequestsOK, EndedOK
  <1>12. /\ SqliteOK(Without(Overlay(w, db))) /\ Later(db, Without(Overlay(w, db)))
         /\ \A k \in Clients : \A n \in Nat : HistoryRow(k, n) \in DOMAIN Without(Overlay(w, db)) => Used(k, n)'
    BY <1>6, <1>7, <1>10 DEF then
  <1>13. pc'[i] \in {"idle", "commit"}
    BY <1>8
  <1> QED  BY <1>1, <1>8, <1>9, <1>11, <1>12, <1>13, SqliteWritten DEF HistoryUsed

\* The increment of an order that is refused stays in the transaction.
LEMMA SqliteWriteRaises ==
    ASSUME SqliteInv, NEW i \in Clients, Sqlite!WriteRaises(i), driver' = driver
    PROVE  SqliteInv'
PROOF
  <1> DEFINE rows == Visible(i)
             e == request[i].d
             o == seen[i][DistrictRow(e)].next
             changes == [row \in {DistrictRow(e)} |-> Renumbered(rows[DistrictRow(e)], o + 1)]
             w == Overlay(changes, written[i])
             then == Without(Overlay(w, db))
  <1>1. /\ pc[i] = "write" /\ ~ Sqlite!Reserved(i)
        /\ Sqlite!Duplicate(request[i], seen[i], rows)
        /\ open' = [open EXCEPT ![i] = "reserved"] /\ Sqlite!Returns(i) /\ db' = db
    BY SqliteRows, SqliteVisible DEF Sqlite!WriteRaises
  <1>2. written' = [written EXCEPT ![i] = w]
    <2>1. written' = [written EXCEPT ![i] = Put(DistrictRow(e), Renumbered(rows[DistrictRow(e)], o + 1), written[i])]
      BY SqliteRows, SqliteVisible, SqliteNextOrderId DEF Sqlite!WriteRaises
    <2> DEFINE v == Renumbered(rows[DistrictRow(e)], o + 1)
               row0 == DistrictRow(e)
    <2>2. Put(row0, v, written[i]) = Overlay([row \in {row0} |-> v], written[i])
      <3> HIDE DEF v, row0
      <3> QED  BY DEF Put, Overlay
    <2> QED  BY <2>1, <2>2
  <1>3. Overlaid(changes, rows, then)
    BY SqliteOverlaid DEF Visible
  <1>4. SqliteOK(rows) /\ ReadOK(request[i], seen[i], rows) /\ Later(db, rows) /\ HistoryUsed(rows)
    BY <1>1 DEF SqliteInv, SqliteClientOK
  <1>5. request[i].type = "NEW_ORDER" /\ OrderRow(e, o) \in DOMAIN rows
    BY <1>1, SqliteRows DEF Sqlite!Duplicate
  <1>6. e \in DIds /\ o \in Nat \ {0}
    BY <1>4, <1>5, RequestKinds, OrderIs DEF ReadOK
  <1> HIDE DEF w, then, o, e, rows
  <1>7. SqliteRenumbers(e, o + 1, rows, then)
    <2>1. DistrictRow(e) \in DOMAIN rows /\ rows[DistrictRow(e)] \in [next : Nat \ {0}, ytd : Int]
      BY <1>4, <1>6, BaseFits DEF SqliteOK
    <2>2. Renumbered(rows[DistrictRow(e)], o + 1) # Gone
      BY <1>6, <2>1, RenumberedValues
    <2>3. DOMAIN changes = {DistrictRow(e)} /\ changes[DistrictRow(e)] = Renumbered(rows[DistrictRow(e)], o + 1)
      OBVIOUS
    <2> HIDE DEF changes
    <2>4. DOMAIN then = DOMAIN rows
      BY <1>3, <2>1, <2>2, <2>3 DEF Overlaid
    <2> QED  BY <1>3, <2>1, <2>3, <2>4 DEF Overlaid, SqliteRenumbers
  <1>8. SqliteOK(then) /\ Later(rows, then)
    BY <1>4, <1>5, <1>6, <1>7, SqliteRenumbered
  <1>9. Later(db, then)
    BY <1>4, <1>8, LaterTransitive
  <1>10. ended[i] < MaxTransactions
    BY <1>1 DEF SqliteInv, EndedOK
  <1>11. /\ RequestsOK' /\ EndedOK' /\ DOMAIN seen' = Clients /\ pc'[i] = "idle"
         /\ \A k \in Clients : \A n \in Nat : Used(k, n) => Used(k, n)'
         /\ \A j \in Clients \ {i} :
               pc'[j] = pc[j] /\ request'[j] = request[j] /\ seen'[j] = seen[j]
    BY <1>1, <1>10, SqliteOver
  <1>12. \A k \in Clients : \A n \in Nat : HistoryRow(k, n) \in DOMAIN then => Used(k, n)'
    BY <1>4, <1>7, <1>11 DEF SqliteRenumbers, HistoryUsed
  <1>13. /\ SqliteOK(Without(Overlay(w, db))) /\ Later(db, Without(Overlay(w, db)))
         /\ \A k \in Clients : \A n \in Nat : HistoryRow(k, n) \in DOMAIN Without(Overlay(w, db)) => Used(k, n)'
    BY <1>8, <1>9, <1>12 DEF then
  <1>14. pc'[i] \in {"idle", "commit"}
    BY <1>11
  <1> QED  BY <1>1, <1>2, <1>11, <1>13, <1>14, SqliteWritten DEF HistoryUsed

\* Every step of the SQLite clients keeps the invariant.
LEMMA SqliteNext ==
    ASSUME SqliteInv, Sqlite!Next, driver' = driver
    PROVE  SqliteInv'
PROOF
  <1>1. PICK i \in Clients :
           \/ Sqlite!Read(i) \/ Sqlite!ReadOnly(i) \/ Sqlite!ReadOnlyLocked(i) \/ Sqlite!GiveUp(i)
           \/ Sqlite!Write(i) \/ Sqlite!WriteRaises(i) \/ Sqlite!WriteLocked(i)
           \/ Sqlite!Commit(i) \/ Sqlite!CommitLocked(i)
    BY SqliteRows DEF Sqlite!Next
  <1> QED  BY <1>1, SqliteRead, SqliteRaises, SqliteWrite, SqliteWriteRaises

\* So does a step of none.
LEMMA SqliteStutters ==
    ASSUME SqliteInv, driver' = driver, UNCHANGED vars
    PROVE  SqliteInv'
PROOF
  <1>1. /\ db' = db /\ pc' = pc /\ request' = request /\ seen' = seen /\ written' = written
        /\ open' = open /\ ended' = ended
    BY DEF vars
  <1>2. \A k \in Clients : \A n \in Nat : Used(k, n) => Used(k, n)'
    BY <1>1 DEF Used
  <1>3. \A j \in Clients : SqliteClientOK(j)'
    BY <1>1, <1>2, SqliteOther
  <1> QED  BY <1>1, <1>3 DEF SqliteInv, RequestsOK, EndedOK

-----------------------------------------------------------------------------
\* The load, with its table of new orders.
LEMMA SqliteLoaded == SqliteOK(Loaded)
PROOF
  <1>0. NumCustomers \in Nat \ {0} /\ NumNewOrders \in 0 .. NumCustomers
    BY CustomersAssumption, NewOrdersAssumption
  <1>1. DOMAIN Loaded = LoadedRows /\ \A row \in LoadedRows : Loaded[row] = LoadedValue(row)
    BY DEF Loaded
  <1>2. \A row \in LoadedRows : row[1] = "orders" => \E d \in DIds, o \in CIds : row = OrderRow(d, o)
    BY <1>1, LoadedKinds
  <1>3. \A row \in LoadedRows : row[1] = "new_order" =>
            \E d \in DIds, o \in CIds : row = NewRow(d, o) /\ LoadedNew(o)
    BY RowKeys DEF LoadedRows
  <1>4. \A d \in DIds : \A o : OrderRow(d, o) \in LoadedRows <=> o \in CIds
    <2>1. \A d \in DIds : \A o \in CIds : OrderRow(d, o) \in LoadedRows
      BY DEF LoadedRows
    <2>2. \A d \in DIds : \A o : OrderRow(d, o) \in LoadedRows => o \in CIds
      BY <1>2, RowKeys
    <2> QED  BY <2>1, <2>2
  <1>5. \A d \in DIds : \A o : NewRow(d, o) \in LoadedRows <=> o \in CIds /\ LoadedNew(o)
    <2>1. \A d \in DIds : \A o \in CIds : LoadedNew(o) => NewRow(d, o) \in LoadedRows
      BY DEF LoadedRows
    <2>2. \A d \in DIds : \A o : NewRow(d, o) \in LoadedRows => o \in CIds /\ LoadedNew(o)
      BY <1>3, RowKeys
    <2> QED  BY <2>1, <2>2
  <1>6. StoreOK(Loaded) /\ Check1(Loaded) /\ HistoryOK(Loaded) /\ StockOK(Loaded)
    BY LoadedStore, LoadedSums
  <1>7. KeysOK(Loaded)
    BY <1>1, <1>2, <1>3, <1>4, RowKeys DEF KeysOK
  <1>8. NumberedFromOne(Loaded)
    <2>1. \A d \in DIds : Loaded[DistrictRow(d)].next = NumCustomers + 1
      BY LoadedOrders
    <2> QED  BY <1>0, <1>1, <1>4, <2>1 DEF NumberedFromOne, CIds
  <1>9. LastAreNew(Loaded)
    BY <1>0, <1>1, <1>4, <1>5 DEF LastAreNew, LoadedNew, CIds
  <1>10. NewAreOpen(Loaded)
    <2>1. \A d \in DIds : \A o \in CIds : Loaded[OrderRow(d, o)].delivered = ~ LoadedNew(o)
      BY <1>1, <1>4, LoadedValues
    <2> QED  BY <1>1, <1>4, <1>5, <2>1 DEF NewAreOpen
  <1>11. IsRows(Loaded)
    BY DEF IsRows, Loaded
  <1> QED  BY <1>6, <1>7, <1>8, <1>9, <1>10, <1>11 DEF SqliteOK

\* The load satisfies the invariant.
LEMMA SqliteInit ==
    ASSUME driver = "sqlite", driver \in Drivers, Sqlite!Init
    PROVE  SqliteInv
PROOF
  <1>1. /\ db = Loaded /\ pc = [j \in Clients |-> "idle"]
        /\ request = [j \in Clients |-> NoRequest] /\ seen = [j \in Clients |-> NoRows]
        /\ written = [j \in Clients |-> NoRows] /\ open = [j \in Clients |-> "no"]
        /\ ended = [j \in Clients |-> 0]
    <2>1. Sqlite!Loaded = Loaded
      <3>1. Sqlite!LoadedRows = LoadedRows
        <4>1. /\ Sqlite!CIds = CIds /\ Sqlite!Items = Items
              /\ \A n : Sqlite!LoadedNew(n) = LoadedNew(n)
          BY Zenon DEF Sqlite!CIds, CIds, Sqlite!Items, Items, Sqlite!LoadedNew, LoadedNew
        <4> QED  BY <4>1, SqliteRows DEF Sqlite!LoadedRows, LoadedRows
      <3>2. \A row : Sqlite!LoadedValue(row) = LoadedValue(row)
        BY Zenon DEF Sqlite!LoadedValue, LoadedValue, Sqlite!LoadedNew, LoadedNew
      <3> QED  BY <3>1, <3>2, Zenon DEF Sqlite!Loaded, Loaded
    <2> QED  BY <2>1, SqliteRows DEF Sqlite!Init, Sqlite!InitOn
  <1>2. SqliteOK(db)
    BY <1>1, SqliteLoaded
  <1>3. HistoryUsed(db)
    BY <1>1, LoadedKinds, RowKeys DEF HistoryUsed
  <1>4. RequestsOK /\ EndedOK
    BY <1>1, DurationAssumption DEF RequestsOK, EndedOK
  <1>5. ASSUME NEW i \in Clients
        PROVE  SqliteClientOK(i)
    <2>1. Visible(i) = db
      BY <1>1, <1>2, SqliteUnwritten DEF Visible
    <2> QED  BY <1>1, <1>2, <1>3, <2>1 DEF SqliteClientOK, Later
  <1> QED  BY <1>1, <1>2, <1>4, <1>5 DEF SqliteInv

\* What SQLite keeps.
LEMMA SqliteProperties ==
    ASSUME SqliteInv
    PROVE  Consistent /\ NumbersFollowOrders /\ StockCountsLines
PROOF
  <1>0. SqliteOK(db) /\ StoreOK(db)
    BY DEF SqliteInv, SqliteOK
  <1>1. TypeOK
    <2>1. BaseRows \subseteq DOMAIN db
      BY <1>0 DEF StoreOK
    <2>2. LoadedRows \ {row \in LoadedRows : row[1] = "new_order"} \subseteq BaseRows
      BY RowKeys DEF LoadedRows, BaseRows
    <2> QED  BY <2>1, <2>2 DEF SqliteInv, SqliteClientOK, TypeOK, RequestsOK, EndedOK
  <1>2. Check1(db) /\ Check9(db)
    BY <1>0 DEF SqliteOK, HistoryOK, Check9
  <1>3. \A d \in DIds : \A o : /\ o \in Numbered(db, "orders", d) <=> OrderRow(d, o) \in DOMAIN db
                               /\ o \in Numbered(db, "new_order", d) <=> NewRow(d, o) \in DOMAIN db
    BY <1>0, RowKeys DEF SqliteOK, KeysOK, Numbered
  <1>4. Check3(db)
    <2> SUFFICES ASSUME NEW d \in DIds, NEW o \in Numbered(db, "new_order", d),
                        NEW p \in Numbered(db, "new_order", d), NEW q \in o .. p
                 PROVE  q \in Numbered(db, "new_order", d)
      BY DEF Check3
    <2>1. NewRow(d, o) \in DOMAIN db /\ NewRow(d, p) \in DOMAIN db
      BY <1>3
    <2>2. OrderRow(d, p) \in DOMAIN db /\ o \in Nat \ {0} /\ p \in Nat \ {0}
      BY <1>0, <2>1, OrderNumbers
    <2>3. OrderRow(d, q) \in DOMAIN db /\ o <= q
      BY <1>0, <2>2, OrderNumbers
    <2>4. NewRow(d, q) \in DOMAIN db
      BY <1>0, <2>1, <2>3 DEF SqliteOK, LastAreNew
    <2> QED  BY <1>3, <2>4
  <1>5. Check5(db)
    BY <1>0, <1>3 DEF SqliteOK, NewAreOpen, Check5
  <1>6. ASSUME NEW d \in DIds
        PROVE  LET orders == Numbered(db, "orders", d)
                   next   == db[DistrictRow(d)].next
               IN  /\ Cardinality(OrdersOf(db, d)) = Cardinality(orders)
                   /\ orders = 1 .. Max(orders)
                   /\ next <= Max(orders) + 1
    <2>1. PICK top \in Nat : /\ \A o : OrderRow(d, o) \in DOMAIN db <=> o \in 1 .. top
                             /\ db[DistrictRow(d)].next <= top + 1
      BY <1>0 DEF SqliteOK, NumberedFromOne
    <2>2. Numbered(db, "orders", d) = 1 .. top
      BY <1>3, <2>1
    <2>3. top >= 1
      <3>1. NumCustomers \in Nat \ {0}
        BY CustomersAssumption
      <3>2. OrderRow(d, 1) \in DOMAIN db
        BY <1>0, <3>1 DEF StoreOK, BaseRows, CIds
      <3> QED  BY <2>1, <3>2
    <2>4. Max(1 .. top) = top
      <3>1. \A x \in 1 .. top : x >= top => x = top
        BY <2>1
      <3>2. top \in 1 .. top /\ \A y \in 1 .. top : top >= y
        BY <2>1, <2>3
      <3> QED  BY <3>1, <3>2, Zenon DEF Max
    <2>5. IsFiniteSet(1 .. top)
      BY FS_Interval
    <2>6. Cardinality(OrdersOf(db, d)) = Cardinality(1 .. top)
      <3> DEFINE f == [o \in 1 .. top |-> OrderRow(d, o)]
      <3>1. OrdersOf(db, d) = {OrderRow(d, o) : o \in 1 .. top}
        <4>1. \A row \in OrdersOf(db, d) : row = OrderRow(d, row[3]) /\ OrderRow(d, row[3]) \in DOMAIN db
          BY <1>0 DEF OrdersOf, SqliteOK, KeysOK
        <4> QED  BY <2>1, <4>1, RowKeys DEF OrdersOf
      <3>2. \A o, p \in 1 .. top : f[o] = f[p] => o = p
        BY RowKeys
      <3>3. f \in [1 .. top -> OrdersOf(db, d)] /\ \A row \in OrdersOf(db, d) : \E o \in 1 .. top : f[o] = row
        BY <3>1
      <3> HIDE DEF f
      <3>4. f \in Bijection(1 .. top, OrdersOf(db, d))
        BY <3>2, <3>3 DEF Bijection, Injection, IsInjective, Surjection
      <3>5. ExistsBijection(1 .. top, OrdersOf(db, d))
        BY <3>4 DEF ExistsBijection
      <3> QED  BY <2>5, <3>5, FS_Bijection
    <2> QED  BY <2>1, <2>2, <2>4, <2>6
  <1>7. StockCountsLines
    BY <1>0 DEF SqliteOK, StockOK, StockCountsLines, LinesIn, LinesOf
  <1>8. driver = "sqlite"
    BY DEF SqliteInv
  <1> QED  BY <1>1, <1>2, <1>4, <1>5, <1>6, <1>7, <1>8 DEF Consistent, NumbersFollowOrders

-----------------------------------------------------------------------------
(***************************************************************************)
(* Neo4j.  Where the transactions are, and what each has added by then to  *)
(* rows that no other one may write.                                       *)
(***************************************************************************)
Ordered    == {"getStock", "updateStock", "createLine"}
Ordering   == {"placeOrder"} \cup Ordered
Paid       == {"updateCustomer", "commit"}
PaidOnce   == {"updateDistrict"} \cup Paid
Paying     == {"updateWarehouse"} \cup PaidOnce
Delivering == {"getNewOrder", "updateOrder"}

\* What sets a property of a node leaves its other properties.
Live(value) == DOMAIN value \cap {"ytd", "balance", "c"} # {}

NeoFits(row, value) ==
    /\ Live(value)
    /\ row[1] = "warehouse" => value \in [ytd : Int]
    /\ row[1] = "district" => value \in [next : Int, ytd : Int]
    /\ row[1] = "orders" => row[2] \in DIds /\ "c" \in DOMAIN value /\ value.c \in CIds

NeoStore(rows) ==
    /\ BaseRows \subseteq DOMAIN rows
    /\ \A row \in DOMAIN rows : NeoFits(row, rows[row])

\* Of orders a transaction has made one, if it has come to that.
NeoAdds(i) ==
    /\ pc[i] \in Ordered =>
          \E o : /\ OrderNode(i, request[i].d, o) \in DOMAIN written[i]
                 /\ \A row \in DOMAIN written[i] \ DOMAIN db :
                        row[1] = "stock" \/ row = OrderNode(i, request[i].d, o)
    /\ pc[i] \notin Ordered => \A row \in DOMAIN written[i] \ DOMAIN db : row[1] = "stock"

NeoPhase(i) ==
    /\ pc[i] \in {"idle"} \cup Ordering \cup Paying \cup Delivering
    /\ open[i] = IF pc[i] = "idle" THEN "no" ELSE "yes"
    /\ pc[i] = "idle" => written[i] = NoRows
    /\ pc[i] \in Ordering => request[i] \in Orders
    /\ pc[i] \in Paying => request[i].d \in DIds /\ request[i].c \in CIds

NeoAdded(i) ==
    /\ WarehouseRow \in DOMAIN written[i] <=> pc[i] \in PaidOnce
    /\ \A d : DistrictRow(d) \in DOMAIN written[i] <=> pc[i] \in Paid \cup Ordered /\ d = request[i].d
    /\ pc[i] \in PaidOnce => written[i][WarehouseRow] = Received(db[WarehouseRow])
    /\ pc[i] \in Paid =>
          written[i][DistrictRow(request[i].d)] = Received(db[DistrictRow(request[i].d)])
    /\ pc[i] \in Ordered =>
          written[i][DistrictRow(request[i].d)] = Increased(db[DistrictRow(request[i].d)])

NeoClientOK(i) ==
    /\ NeoPhase(i)
    /\ NeoAdds(i)
    /\ NeoAdded(i)
    /\ \A row \in DOMAIN written[i] : NeoFits(row, written[i][row])

NeoInv ==
    /\ driver = "neo4j" /\ driver \in Drivers
    /\ RequestsOK
    /\ EndedOK
    /\ NeoStore(db) /\ Check1(db) /\ Counted(db)
    /\ Fresh(db)
    /\ DOMAIN written = Clients /\ DOMAIN open = Clients
    /\ \A i, j \in Clients : i # j => DOMAIN written[i] \cap DOMAIN written[j] = {}
    /\ \A i \in Clients : NeoClientOK(i)

-----------------------------------------------------------------------------
\* The operators of the instance are those of this module.
LEMMA NeoRows ==
    /\ Neo4j!WarehouseRow = WarehouseRow
    /\ \A d : Neo4j!DistrictRow(d) = DistrictRow(d)
    /\ \A d, c : Neo4j!CustomerRow(d, c) = CustomerRow(d, c)
    /\ \A n : Neo4j!StockRow(n) = StockRow(n)
    /\ \A i, d, o : Neo4j!OrderNode(i, d, o) = OrderNode(i, d, o)
    /\ \A row, value, rows : Neo4j!Put(row, value, rows) = Put(row, value, rows)
    /\ \A changes, rows : Neo4j!Overlay(changes, rows) = Overlay(changes, rows)
    /\ \A f, S : Neo4j!Restrict(f, S) = Restrict(f, S)
    /\ \A i : Neo4j!Visible(i) = Visible(i)
    /\ \A r : Neo4j!PlacedOrder(r) = PlacedOrder(r)
    /\ \A rows, d : Neo4j!OrdersOf(rows, d) = OrdersOf(rows, d)
    /\ Neo4j!NoRows = NoRows /\ Neo4j!DIds = DIds /\ Neo4j!Clients = Clients
    /\ Neo4j!CIds = CIds /\ Neo4j!NoRequest = NoRequest
    /\ Neo4j!Orders = Orders
PROOF
  <1>1. /\ Neo4j!WarehouseRow = WarehouseRow
        /\ \A d : Neo4j!DistrictRow(d) = DistrictRow(d)
        /\ \A d, c : Neo4j!CustomerRow(d, c) = CustomerRow(d, c)
        /\ \A n : Neo4j!StockRow(n) = StockRow(n)
        /\ \A i, d, o : Neo4j!OrderNode(i, d, o) = OrderNode(i, d, o)
    BY DEF Neo4j!WarehouseRow, WarehouseRow, Neo4j!DistrictRow, DistrictRow,
           Neo4j!CustomerRow, CustomerRow, Neo4j!StockRow, StockRow, Neo4j!OrderNode, OrderNode
  <1>2. /\ \A row, value, rows : Neo4j!Put(row, value, rows) = Put(row, value, rows)
        /\ \A changes, rows : Neo4j!Overlay(changes, rows) = Overlay(changes, rows)
        /\ \A f, S : Neo4j!Restrict(f, S) = Restrict(f, S)
    BY DEF Neo4j!Put, Put, Neo4j!Overlay, Overlay, Neo4j!Restrict, Restrict
  <1>3. \A r : Neo4j!PlacedOrder(r) = PlacedOrder(r)
    BY Zenon DEF Neo4j!PlacedOrder, PlacedOrder
  <1>4. /\ Neo4j!NoRows = NoRows /\ Neo4j!DIds = DIds /\ Neo4j!Clients = Clients
        /\ Neo4j!Gone = Gone /\ Neo4j!NoRequest = NoRequest
        /\ Neo4j!CIds = CIds /\ Neo4j!Items = Items
    BY DEF Neo4j!NoRows, NoRows, Neo4j!DIds, DIds, Neo4j!Clients, Clients,
           Neo4j!Gone, Gone, Neo4j!NoRequest, NoRequest, Neo4j!CIds, CIds, Neo4j!Items, Items
  <1>5. \A rows : Neo4j!Without(rows) = Without(rows)
    BY <1>2, <1>4, Zenon DEF Neo4j!Without, Without
  <1>6. \A i : Neo4j!Visible(i) = Visible(i)
    BY <1>2, <1>5, Zenon DEF Neo4j!Visible, Visible
  <1>7. \A rows, d : Neo4j!OrdersOf(rows, d) = OrdersOf(rows, d)
    BY Zenon DEF Neo4j!OrdersOf, OrdersOf
  <1>8. Neo4j!Orders = Orders
    <2>1. \A S, T : Neo4j!Injection(S, T) = Injection(S, T)
      BY Zenon DEF Neo4j!Injection, Injection, Neo4j!IsInjective, IsInjective
    <2> QED  BY <1>4, <2>1, Zenon DEF Neo4j!Orders, Orders
  <1> QED  BY <1>1, <1>2, <1>3, <1>4, <1>6, <1>7, <1>8, Zenon

\* What the client sees of its own writes, and of what is committed.
LEMMA NeoVisible ==
    ASSUME NeoInv, NEW i \in Clients
    PROVE  /\ DOMAIN Visible(i) = DOMAIN db \cup DOMAIN written[i]
           /\ \A row \in DOMAIN Visible(i) :
                 /\ Visible(i)[row] = IF row \in DOMAIN written[i] THEN written[i][row] ELSE db[row]
                 /\ NeoFits(row, Visible(i)[row])
PROOF
  <1>1. \A row : /\ row \in DOMAIN Visible(i) <=>
                       \/ row \in DOMAIN written[i] /\ written[i][row] # Gone
                       \/ row \in DOMAIN db \ DOMAIN written[i] /\ db[row] # Gone
                 /\ row \in DOMAIN Visible(i) =>
                       Visible(i)[row] = IF row \in DOMAIN written[i] THEN written[i][row] ELSE db[row]
    BY WrittenIs DEF Visible
  <1>2. \A row \in DOMAIN written[i] : NeoFits(row, written[i][row])
    BY DEF NeoInv, NeoClientOK
  <1>3. \A row \in DOMAIN db : NeoFits(row, db[row])
    BY DEF NeoInv, NeoStore
  <1>4. \A row, value : NeoFits(row, value) => value # Gone
    BY NotGone DEF NeoFits, Live
  <1> QED  BY <1>1, <1>2, <1>3, <1>4

\* Values with some field set.
LEMMA NeoValues ==
    ASSUME NEW row, NEW value, NeoFits(row, value)
    PROVE  /\ row[1] \in {"warehouse", "district"} => NeoFits(row, Received(value))
           /\ row[1] = "district" => NeoFits(row, Increased(value))
           /\ row[1] = "orders" => \A x : /\ NeoFits(row, [value EXCEPT !.amount = x])
                                          /\ NeoFits(row, [value EXCEPT !.delivered = x])
           /\ row[1] = "customer" => \A x : NeoFits(row, [value EXCEPT !.balance = x])
PROOF
  <1>1. ASSUME row[1] = "warehouse"
        PROVE  NeoFits(row, Received(value))
    BY <1>1 DEF NeoFits, Live, Received
  <1>2. ASSUME row[1] = "district"
        PROVE  NeoFits(row, Received(value)) /\ NeoFits(row, Increased(value))
    BY <1>2 DEF NeoFits, Live, Received, Increased
  <1>3. ASSUME row[1] = "orders", NEW x
        PROVE  /\ NeoFits(row, [value EXCEPT !.amount = x])
               /\ NeoFits(row, [value EXCEPT !.delivered = x])
    BY <1>3 DEF NeoFits, Live
  <1>4. ASSUME row[1] = "customer", NEW x
        PROVE  NeoFits(row, [value EXCEPT !.balance = x])
    BY <1>4 DEF NeoFits, Live
  <1> QED  BY <1>1, <1>2, <1>3, <1>4

-----------------------------------------------------------------------------
\* The others, as long as nothing is committed.
LEMMA NeoOther ==
    ASSUME NeoInv, NEW j \in Clients, db' = db, ended'[j] = ended[j],
           pc'[j] = pc[j], request'[j] = request[j], written'[j] = written[j], open'[j] = open[j]
    PROVE  NeoClientOK(j)'
PROOF
  <1>1. NeoPhase(j)' /\ NeoAdded(j)'
    BY DEF NeoInv, NeoClientOK, NeoPhase, NeoAdded
  <1>2. NeoAdds(j)'
    <2>1. NeoAdds(j)
      BY DEF NeoInv, NeoClientOK
    <2>2. CASE pc[j] \in Ordered
      <3>1. PICK o : /\ OrderNode(j, request[j].d, o) \in DOMAIN written[j]
                     /\ \A row \in DOMAIN written[j] \ DOMAIN db :
                            row[1] = "stock" \/ row = OrderNode(j, request[j].d, o)
        BY <2>1, <2>2 DEF NeoAdds
      <3>2. (OrderNode(j, request[j].d, o))' = OrderNode(j, request[j].d, o)
        BY DEF OrderNode
      <3> QED  BY <2>2, <3>1, <3>2, Zenon DEF NeoAdds
    <2>3. CASE pc[j] \notin Ordered
      BY <2>1, <2>3 DEF NeoAdds
    <2> QED  BY <2>2, <2>3
  <1>3. \A row \in DOMAIN written'[j] : NeoFits(row, written'[j][row])
    BY DEF NeoInv, NeoClientOK
  <1> QED  BY <1>1, <1>2, <1>3 DEF NeoClientOK

\* A client that has a transaction goes on with it.
LEMMA NeoGoesOn ==
    ASSUME NeoInv, NEW i \in Clients, driver' = driver, db' = db, ended' = ended, open' = open,
           request' = request, DOMAIN pc' = Clients, pc[i] # "idle", pc'[i] # "idle",
           \A j \in Clients \ {i} : pc'[j] = pc[j],
           DOMAIN written' = Clients, \A j \in Clients \ {i} : written'[j] = written[j],
           NeoPhase(i)', NeoAdds(i)', NeoAdded(i)',
           \A row \in DOMAIN written'[i] : NeoFits(row, written'[i][row]),
           \A j \in Clients \ {i} : DOMAIN written'[i] \cap DOMAIN written[j] = {}
    PROVE  NeoInv'
PROOF
  <1>1. NeoClientOK(i)'
    BY DEF NeoClientOK
  <1>2. \A j \in Clients \ {i} : NeoClientOK(j)'
    BY NeoOther
  <1>3. RequestsOK' /\ EndedOK'
    BY DEF NeoInv, RequestsOK, EndedOK
  <1>4. Fresh(db)'
    BY DEF NeoInv, Fresh
  <1>5. \A k, j \in Clients : k # j => DOMAIN written'[k] \cap DOMAIN written'[j] = {}
    BY DEF NeoInv
  <1>6. (NeoStore(db) /\ Check1(db) /\ Counted(db))'
    BY DEF NeoInv
  <1> QED  BY <1>1, <1>2, <1>3, <1>4, <1>5, <1>6 DEF NeoInv

-----------------------------------------------------------------------------
\* A query that writes.
LEMMA NeoWritten ==
    ASSUME NeoInv, NEW i \in Clients, NEW changes, NEW to, Neo4j!Writes(i, changes, to)
    PROVE  /\ db' = db /\ request' = request /\ open' = open /\ ended' = ended
           /\ DOMAIN pc' = Clients /\ pc'[i] = to /\ \A j \in Clients \ {i} : pc'[j] = pc[j]
           /\ DOMAIN written' = Clients
           /\ \A j \in Clients \ {i} : written'[j] = written[j]
           /\ DOMAIN written'[i] = DOMAIN written[i] \cup DOMAIN changes
           /\ \A row \in DOMAIN written'[i] :
                 written'[i][row] = IF row \in DOMAIN changes THEN changes[row] ELSE written[i][row]
PROOF
  <1>1. /\ db' = db /\ request' = request /\ open' = open /\ ended' = ended
        /\ pc' = [pc EXCEPT ![i] = to] /\ written' = [written EXCEPT ![i] = Overlay(changes, written[i])]
    BY NeoRows DEF Neo4j!Writes
  <1>2. /\ DOMAIN written' = Clients /\ written'[i] = Overlay(changes, written[i]) /\ pc'[i] = to
        /\ DOMAIN pc' = Clients
        /\ \A j \in Clients \ {i} : written'[j] = written[j] /\ pc'[j] = pc[j]
    BY <1>1 DEF NeoInv, RequestsOK
  <1>3. /\ DOMAIN Overlay(changes, written[i]) = DOMAIN written[i] \cup DOMAIN changes
        /\ \A row \in DOMAIN Overlay(changes, written[i]) :
               Overlay(changes, written[i])[row] =
                   IF row \in DOMAIN changes THEN changes[row] ELSE written[i][row]
    BY DEF Overlay
  <1> QED  BY <1>1, <1>2, <1>3

\* It writes nodes it does not wait for, and an order of its own.
LEMMA NeoWrites ==
    ASSUME NeoInv, NEW i \in Clients, NEW changes, NEW to, Neo4j!Writes(i, changes, to),
           driver' = driver, pc[i] # "idle", to # "idle",
           \A row \in DOMAIN changes :
               NeoFits(row, changes[row]) /\ (row \in Neo4j!Wants(i) \/ \E d, o : row = OrderNode(i, d, o)),
           NeoPhase(i)', NeoAdds(i)', NeoAdded(i)'
    PROVE  NeoInv'
PROOF
  <1>1. /\ db' = db /\ request' = request /\ open' = open /\ ended' = ended
        /\ DOMAIN pc' = Clients /\ pc'[i] = to /\ \A j \in Clients \ {i} : pc'[j] = pc[j]
        /\ DOMAIN written' = Clients
        /\ \A j \in Clients \ {i} : written'[j] = written[j]
        /\ DOMAIN written'[i] = DOMAIN written[i] \cup DOMAIN changes
        /\ \A row \in DOMAIN written'[i] :
               written'[i][row] = IF row \in DOMAIN changes THEN changes[row] ELSE written[i][row]
    BY NeoWritten
  <1>2. \A row \in DOMAIN written'[i] : NeoFits(row, written'[i][row])
    BY <1>1 DEF NeoInv, NeoClientOK
  <1>3. ASSUME NEW j \in Clients \ {i}, NEW row \in DOMAIN changes
        PROVE  row \notin DOMAIN written[j]
    <2>1. CASE row \in Neo4j!Wants(i)
      BY <2>1, NeoRows DEF Neo4j!Writes, Neo4j!Waits, Neo4j!Locked
    <2>2. CASE \E d, o : row = OrderNode(i, d, o)
      <3>1. PICK d, o : row = <<"orders", d, o, i, ended[i]>>
        BY <2>2 DEF OrderNode
      <3>2. row \notin DOMAIN db
        <4>1. ended[i] \in Nat
          BY DurationAssumption DEF NeoInv, EndedOK
        <4> QED  BY <3>1, <4>1 DEF NeoInv, Fresh
      <3>3. row[1] = "orders" /\ \A e, p : row # OrderNode(j, e, p)
        BY <3>1 DEF OrderNode
      <3> QED  BY <3>2, <3>3 DEF NeoInv, NeoClientOK, NeoAdds
    <2> QED  BY <1>3, <2>1, <2>2
  <1>4. \A j \in Clients \ {i} : DOMAIN written'[i] \cap DOMAIN written[j] = {}
    BY <1>1, <1>3 DEF NeoInv
  <1> QED  BY <1>1, <1>2, <1>4, NeoGoesOn

\* What it writes is in neither sum, and counts no order.
LEMMA NeoWritesMore ==
    ASSUME NeoInv, NEW i \in Clients, NEW changes, NEW to, Neo4j!Writes(i, changes, to),
           driver' = driver,
           \/ pc[i] \in Ordered /\ to \in Ordered
           \/ pc[i] \in Delivering /\ to \in Delivering
           \/ pc[i] \in Paid /\ to \in Paid,
           \A row \in DOMAIN changes :
               /\ NeoFits(row, changes[row]) /\ row \in Neo4j!Wants(i)
               /\ row \in DOMAIN Visible(i) \/ row[1] = "stock"
               /\ row[1] \notin {"warehouse", "district"}
    PROVE  NeoInv'
PROOF
  <1>1. /\ db' = db /\ request' = request /\ open' = open /\ ended' = ended /\ pc'[i] = to
        /\ DOMAIN written'[i] = DOMAIN written[i] \cup DOMAIN changes
        /\ \A row \in DOMAIN written'[i] :
               written'[i][row] = IF row \in DOMAIN changes THEN changes[row] ELSE written[i][row]
    BY NeoWritten
  <1>2. /\ pc[i] # "idle" /\ to # "idle"
        /\ pc[i] \in Ordered <=> to \in Ordered
        /\ pc[i] \in Ordering <=> to \in Ordering
        /\ pc[i] \in Paid <=> to \in Paid
        /\ pc[i] \in PaidOnce <=> to \in PaidOnce
        /\ pc[i] \in Paying <=> to \in Paying
        /\ to \in {"idle"} \cup Ordering \cup Paying \cup Delivering
    BY DEF Ordered, Ordering, Paid, PaidOnce, Paying, Delivering
  <1>3. NeoPhase(i)'
    BY <1>1, <1>2 DEF NeoInv, NeoClientOK, NeoPhase
  <1>4. NeoAdds(i)'
    <2>1. \A row \in DOMAIN changes : row \in DOMAIN db \cup DOMAIN written[i] \/ row[1] = "stock"
      BY NeoVisible
    <2>2. NeoAdds(i)
      BY DEF NeoInv, NeoClientOK
    <2>3. \A row \in DOMAIN written'[i] \ DOMAIN db' :
              row[1] = "stock" \/ row \in DOMAIN written[i] \ DOMAIN db
      BY <1>1, <2>1
    <2>4. CASE pc[i] \in Ordered
      <3>1. PICK o : /\ OrderNode(i, request[i].d, o) \in DOMAIN written[i]
                     /\ \A row \in DOMAIN written[i] \ DOMAIN db :
                            row[1] = "stock" \/ row = OrderNode(i, request[i].d, o)
        BY <2>2, <2>4 DEF NeoAdds
      <3>2. (OrderNode(i, request[i].d, o))' = OrderNode(i, request[i].d, o)
        BY <1>1 DEF OrderNode
      <3>3. OrderNode(i, request[i].d, o) \in DOMAIN written'[i]
        BY <1>1, <3>1
      <3>4. pc'[i] \in Ordered
        BY <1>1, <1>2, <2>4
      <3> QED  BY <2>3, <3>1, <3>2, <3>3, <3>4, Zenon DEF NeoAdds
    <2>5. CASE pc[i] \notin Ordered
      <3>1. pc'[i] \notin Ordered
        BY <1>1, <1>2, <2>5
      <3> QED  BY <2>2, <2>3, <2>5, <3>1 DEF NeoAdds
    <2> QED  BY <2>4, <2>5
  <1>5. NeoAdded(i)'
    <2>1. WarehouseRow \notin DOMAIN changes /\ \A d : DistrictRow(d) \notin DOMAIN changes
      BY RowKeys
    <2>2. WarehouseRow \in DOMAIN written'[i] <=> WarehouseRow \in DOMAIN written[i]
      BY <1>1, <2>1
    <2>3. \A d : DistrictRow(d) \in DOMAIN written'[i] <=> DistrictRow(d) \in DOMAIN written[i]
      BY <1>1, <2>1
    <2>4. /\ WarehouseRow \in DOMAIN written[i] => written'[i][WarehouseRow] = written[i][WarehouseRow]
          /\ \A d : DistrictRow(d) \in DOMAIN written[i] =>
                        written'[i][DistrictRow(d)] = written[i][DistrictRow(d)]
      BY <1>1, <2>1
    <2>5. NeoAdded(i)
      BY DEF NeoInv, NeoClientOK
    <2> HIDE DEF Ordered, Ordering, Paid, PaidOnce, Paying, Delivering
    <2> QED  BY <1>1, <1>2, <2>2, <2>3, <2>4, <2>5 DEF NeoAdded
  <1> QED  BY <1>2, <1>3, <1>4, <1>5, NeoWrites

\* Nodes the warehouse always has.
LEMMA NeoBase ==
    ASSUME NeoInv, NEW i \in Clients
    PROVE  /\ WarehouseRow \in DOMAIN db \cap DOMAIN Visible(i)
           /\ \A d \in DIds : DistrictRow(d) \in DOMAIN db \cap DOMAIN Visible(i)
           /\ \A d \in DIds, c \in CIds : CustomerRow(d, c) \in DOMAIN db \cap DOMAIN Visible(i)
           /\ \A d, o : Neo4j!Matching(i, d, o) \subseteq OrdersOf(Visible(i), d)
           /\ \A d, o : Neo4j!Matching(i, d, o) \subseteq DOMAIN Visible(i)
           /\ \A d, o : \A row \in Neo4j!Matching(i, d, o) : row[1] = "orders"
           /\ db[WarehouseRow] \in [ytd : Int]
           /\ \A d \in DIds : db[DistrictRow(d)] \in [next : Int, ytd : Int]
PROOF
  <1>1. BaseRows \subseteq DOMAIN db /\ DOMAIN db \subseteq DOMAIN Visible(i)
    BY NeoVisible DEF NeoInv, NeoStore
  <1>2. \A d, o : Neo4j!Matching(i, d, o) \subseteq OrdersOf(Visible(i), d)
    BY NeoRows DEF Neo4j!Matching
  <1>3. \A d, o : \A row \in Neo4j!Matching(i, d, o) : row \in DOMAIN Visible(i) /\ row[1] = "orders"
    BY <1>2 DEF OrdersOf
  <1>4. /\ WarehouseRow \in DOMAIN db
        /\ \A d \in DIds : DistrictRow(d) \in DOMAIN db
        /\ \A d \in DIds, c \in CIds : CustomerRow(d, c) \in DOMAIN db
    BY <1>1 DEF BaseRows
  <1>5. db[WarehouseRow] \in [ytd : Int] /\ \A d \in DIds : db[DistrictRow(d)] \in [next : Int, ytd : Int]
    BY <1>4, RowKeys DEF NeoInv, NeoStore, NeoFits
  <1> QED  BY <1>1, <1>2, <1>3, <1>4, <1>5

\* The stock is set from what was read.
LEMMA NeoUpdateStock ==
    ASSUME NeoInv, NEW i \in Clients, Neo4j!UpdateStock(i), driver' = driver
    PROVE  NeoInv'
PROOF
  <1> DEFINE row == StockRow(Head(todo[i]))
             value == [ytd |-> seen[i][row].ytd + 1, count |-> seen[i][row].count + 1]
             changes == Put(row, value, NoRows)
  <1>1. pc[i] = "updateStock" /\ Neo4j!Writes(i, changes, "createLine")
    BY NeoRows DEF Neo4j!UpdateStock
  <1>2. DOMAIN changes = {row} /\ changes[row] = value
    BY DEF Put, NoRows
  <1>3. row[1] = "stock"
    BY RowKeys
  <1>4. Live(value)
    BY DEF Live
  <1>5. row \in Neo4j!Wants(i)
    BY <1>1, NeoRows DEF Neo4j!Wants
  <1> HIDE DEF changes, value, row
  <1>6. NeoFits(row, value)
    BY <1>3, <1>4 DEF NeoFits
  <1>7. pc[i] \in Ordered /\ "createLine" \in Ordered
    BY <1>1 DEF Ordered
  <1> QED  BY <1>1, <1>2, <1>3, <1>5, <1>6, <1>7, NeoWritesMore

\* A line is created, and the amount of its order set.
LEMMA NeoCreateLine ==
    ASSUME NeoInv, NEW i \in Clients, Neo4j!CreateLine(i), driver' = driver
    PROVE  NeoInv'
PROOF
  <1> DEFINE orders == Neo4j!Matching(i, request[i].d, Neo4j!NumberRead(i))
             changes == [row \in orders |-> [Visible(i)[row] EXCEPT !.amount = Visible(i)[row].amount + 1]]
  <1>1. pc[i] = "createLine" /\ Neo4j!Writes(i, changes, "getStock")
    BY NeoRows DEF Neo4j!CreateLine
  <1>2. orders = Neo4j!Wants(i)
    BY <1>1 DEF Neo4j!Wants
  <1>3. \A row \in orders : row \in DOMAIN Visible(i) /\ row[1] = "orders"
    BY NeoBase
  <1>4. \A row \in orders : NeoFits(row, Visible(i)[row])
    BY <1>3, NeoVisible
  <1>5. \A row \in orders : NeoFits(row, changes[row])
    BY <1>3, <1>4, NeoValues
  <1>6. DOMAIN changes = orders
    OBVIOUS
  <1> HIDE DEF changes, orders
  <1>7. pc[i] \in Ordered /\ "getStock" \in Ordered
    BY <1>1 DEF Ordered
  <1>8. \A row \in DOMAIN changes :
               /\ NeoFits(row, changes[row]) /\ row \in Neo4j!Wants(i)
               /\ row \in DOMAIN Visible(i) \/ row[1] = "stock"
               /\ row[1] \notin {"warehouse", "district"}
    BY <1>2, <1>3, <1>5, <1>6
  <1> QED  BY <1>1, <1>7, <1>8, NeoWritesMore

\* The customer is set from what was read.
LEMMA NeoUpdateCustomer ==
    ASSUME NeoInv, NEW i \in Clients, Neo4j!UpdateCustomer(i), driver' = driver
    PROVE  NeoInv'
PROOF
  <1> DEFINE row == CustomerRow(request[i].d, request[i].c)
             value == [balance |-> seen[i][row].balance - 1, paid |-> seen[i][row].paid + 1]
             changes == Put(row, value, NoRows)
  <1>1. pc[i] = "updateCustomer" /\ Neo4j!Writes(i, changes, "commit")
    BY NeoRows DEF Neo4j!UpdateCustomer
  <1>2. DOMAIN changes = {row} /\ changes[row] = value
    BY DEF Put, NoRows
  <1>3. row[1] = "customer"
    BY RowKeys
  <1>4. Live(value)
    BY DEF Live
  <1>5. row \in Neo4j!Wants(i)
    BY <1>1, NeoRows DEF Neo4j!Wants
  <1>6. row \in DOMAIN Visible(i)
    BY <1>1, NeoBase DEF NeoInv, NeoClientOK, NeoPhase, Paying, PaidOnce, Paid
  <1> HIDE DEF changes, value, row
  <1>7. NeoFits(row, value)
    BY <1>3, <1>4 DEF NeoFits
  <1>8. pc[i] \in Paid /\ "commit" \in Paid
    BY <1>1 DEF Paid
  <1> QED  BY <1>1, <1>2, <1>3, <1>5, <1>6, <1>7, <1>8, NeoWritesMore

\* The order is delivered, and its customers are credited.
LEMMA NeoUpdateOrder ==
    ASSUME NeoInv, NEW i \in Clients, Neo4j!UpdateOrder(i), driver' = driver
    PROVE  NeoInv'
PROOF
  <1> DEFINE d == Head(todo[i])
             orders == Neo4j!Matching(i, d, Neo4j!DeliveryRead(i).o)
             payers == Neo4j!Payers(i, orders)
             V == Neo4j!Visible(i)
             Of(payer) == {row \in orders : Neo4j!CustomerRow(d, V[row].c) = payer}
             Credit(payer) == V[payer].balance + Neo4j!Cardinality(Of(payer)) * Neo4j!DeliveryRead(i).total
             delivered == [row \in orders |-> [V[row] EXCEPT !.delivered = TRUE]]
             credited == [payer \in payers |-> [V[payer] EXCEPT !.balance = Credit(payer)]]
             changes == Neo4j!Overlay(delivered, credited)
  <1>1. pc[i] = "updateOrder" /\ Neo4j!Writes(i, changes, "getNewOrder")
    BY Zenon DEF Neo4j!UpdateOrder
  <1>0. V = Visible(i)
    BY NeoRows
  <1> HIDE DEF V
  <1>2. orders \cup payers = Neo4j!Wants(i)
    BY <1>1 DEF Neo4j!Wants
  <1>3. \A row \in orders : row \in DOMAIN Visible(i) /\ row[1] = "orders"
    BY NeoBase
  <1>4. \A row \in orders : NeoFits(row, Visible(i)[row])
    BY <1>3, NeoVisible
  <1>5. \A row \in orders : NeoFits(row, delivered[row])
    BY <1>0, <1>3, <1>4, NeoValues
  <1>6. \A payer \in payers : payer \in DOMAIN Visible(i) /\ payer[1] = "customer"
    <2>1. \A row \in orders : row[2] \in DIds /\ Visible(i)[row].c \in CIds
      BY <1>3, <1>4 DEF NeoFits
    <2>2. payers = {CustomerRow(row[2], Visible(i)[row].c) : row \in orders}
      BY NeoRows DEF Neo4j!Payers
    <2> QED  BY <2>1, <2>2, NeoBase, RowKeys
  <1>7. \A payer \in payers : NeoFits(payer, Visible(i)[payer])
    BY <1>6, NeoVisible
  <1>8. \A payer \in payers : NeoFits(payer, credited[payer])
    <2> HIDE DEF Credit, payers
    <2> QED  BY <1>0, <1>6, <1>7, NeoValues
  <1>9. DOMAIN delivered = orders /\ DOMAIN credited = payers
    OBVIOUS
  <1> HIDE DEF delivered, credited, orders, payers
  <1>10. /\ DOMAIN changes = orders \cup payers
         /\ \A row \in DOMAIN changes : changes[row] = delivered[row] \/ (row \notin orders /\ changes[row] = credited[row])
    BY <1>9, NeoRows DEF Overlay
  <1>11. \A row \in DOMAIN changes : row \in orders => changes[row] = delivered[row]
    BY <1>9, NeoRows DEF Overlay
  <1>12. \A row \in DOMAIN changes : row \notin orders => changes[row] = credited[row]
    BY <1>9, NeoRows DEF Overlay
  <1> HIDE DEF changes
  <1>13. pc[i] \in Delivering /\ "getNewOrder" \in Delivering
    BY <1>1 DEF Delivering
  <1>14. \A row \in DOMAIN changes :
               /\ NeoFits(row, changes[row]) /\ row \in Neo4j!Wants(i)
               /\ row \in DOMAIN Visible(i) \/ row[1] = "stock"
               /\ row[1] \notin {"warehouse", "district"}
    BY <1>2, <1>3, <1>5, <1>6, <1>8, <1>10, <1>11, <1>12
  <1> QED  BY <1>1, <1>13, <1>14, NeoWritesMore

-----------------------------------------------------------------------------
\* W_YTD is increased, by the one that may.
LEMMA NeoUpdateWarehouse ==
    ASSUME NeoInv, NEW i \in Clients, Neo4j!UpdateWarehouse(i), driver' = driver
    PROVE  NeoInv'
PROOF
  <1> DEFINE value == Received(Visible(i)[WarehouseRow])
             changes == Put(WarehouseRow, value, NoRows)
  <1>1. pc[i] = "updateWarehouse" /\ Neo4j!Writes(i, changes, "updateDistrict")
    BY NeoRows DEF Neo4j!UpdateWarehouse, Received
  <1>2. DOMAIN changes = {WarehouseRow} /\ changes[WarehouseRow] = value
    BY DEF Put, NoRows
  <1>3. NeoPhase(i) /\ NeoAdds(i) /\ NeoAdded(i)
    BY DEF NeoInv, NeoClientOK
  <1>4. WarehouseRow \in DOMAIN db /\ Visible(i)[WarehouseRow] = db[WarehouseRow]
    <2>1. WarehouseRow \notin DOMAIN written[i]
      BY <1>1, <1>3 DEF NeoAdded, PaidOnce, Paid
    <2> QED  BY <2>1, NeoBase, NeoVisible
  <1>5. NeoFits(WarehouseRow, value)
    BY <1>4, NeoValues, RowKeys DEF NeoInv, NeoStore
  <1> HIDE DEF changes
  <1>6. /\ db' = db /\ request' = request /\ open' = open /\ ended' = ended /\ pc'[i] = "updateDistrict"
        /\ DOMAIN written'[i] = DOMAIN written[i] \cup DOMAIN changes
        /\ \A row \in DOMAIN written'[i] :
               written'[i][row] = IF row \in DOMAIN changes THEN changes[row] ELSE written[i][row]
    BY <1>1, NeoWritten
  <1>7. NeoPhase(i)'
    BY <1>1, <1>3, <1>6 DEF NeoPhase, Ordering, Ordered, Paying, PaidOnce, Paid, Delivering
  <1>8. NeoAdds(i)'
    BY <1>1, <1>2, <1>3, <1>4, <1>6 DEF NeoAdds, Ordered
  <1>9. NeoAdded(i)'
    <2>1. \A d : DistrictRow(d) # WarehouseRow
      BY RowKeys
    <2> QED  BY <1>1, <1>2, <1>3, <1>4, <1>6, <2>1 DEF NeoAdded, Ordered, PaidOnce, Paid
  <1>10. WarehouseRow \in Neo4j!Wants(i)
    BY <1>1, NeoRows DEF Neo4j!Wants
  <1> QED  BY <1>1, <1>2, <1>5, <1>7, <1>8, <1>9, <1>10, NeoWrites

\* And then D_YTD.
LEMMA NeoUpdateDistrict ==
    ASSUME NeoInv, NEW i \in Clients, Neo4j!UpdateDistrict(i), driver' = driver
    PROVE  NeoInv'
PROOF
  <1> DEFINE district == DistrictRow(request[i].d)
             value == Received(Visible(i)[district])
             changes == Put(district, value, NoRows)
  <1>1. pc[i] = "updateDistrict" /\ Neo4j!Writes(i, changes, "updateCustomer")
    BY NeoRows DEF Neo4j!UpdateDistrict, Received
  <1>2. DOMAIN changes = {district} /\ changes[district] = value
    BY DEF Put, NoRows
  <1>3. NeoPhase(i) /\ NeoAdds(i) /\ NeoAdded(i)
    BY DEF NeoInv, NeoClientOK
  <1>4. district \in DOMAIN db /\ Visible(i)[district] = db[district]
    <2>1. district \notin DOMAIN written[i]
      BY <1>1, <1>3 DEF NeoAdded, Paid, Ordered
    <2>2. request[i].d \in DIds
      BY <1>1, <1>3 DEF NeoPhase, Paying, PaidOnce
    <2> QED  BY <2>1, <2>2, NeoBase, NeoVisible
  <1>5. NeoFits(district, value)
    BY <1>4, NeoValues, RowKeys DEF NeoInv, NeoStore
  <1> HIDE DEF changes
  <1>6. /\ db' = db /\ request' = request /\ open' = open /\ ended' = ended /\ pc'[i] = "updateCustomer"
        /\ DOMAIN written'[i] = DOMAIN written[i] \cup DOMAIN changes
        /\ \A row \in DOMAIN written'[i] :
               written'[i][row] = IF row \in DOMAIN changes THEN changes[row] ELSE written[i][row]
    BY <1>1, NeoWritten
  <1>7. NeoPhase(i)'
    BY <1>1, <1>3, <1>6 DEF NeoPhase, Ordering, Ordered, Paying, PaidOnce, Paid, Delivering
  <1>8. NeoAdds(i)'
    BY <1>1, <1>2, <1>3, <1>4, <1>6 DEF NeoAdds, Ordered
  <1>9. NeoAdded(i)'
    <2>1. \A d : DistrictRow(d) # WarehouseRow /\ (DistrictRow(d) = district <=> d = request[i].d)
      BY RowKeys
    <2>2. "updateCustomer" \in Paid /\ "updateCustomer" \in PaidOnce /\ "updateCustomer" \notin Ordered
      BY DEF Paid, PaidOnce, Ordered
    <2>3. pc[i] \notin Paid /\ pc[i] \in PaidOnce /\ pc[i] \notin Ordered
      BY <1>1 DEF Paid, PaidOnce, Ordered
    <2> HIDE DEF value
    <2>4. written'[i][district] = value /\ district \in DOMAIN written'[i]
      BY <1>2, <1>6
    <2>5. value = Received(db[district])
      BY <1>4 DEF value
    <2>6. WarehouseRow \in DOMAIN written'[i] /\ written'[i][WarehouseRow] = written[i][WarehouseRow]
      BY <1>2, <1>3, <1>6, <2>1, <2>3 DEF NeoAdded
    <2>7. \A d : DistrictRow(d) \in DOMAIN written'[i] <=> d = request[i].d
      BY <1>2, <1>3, <1>6, <2>1, <2>3 DEF NeoAdded
    <2>8. written[i][WarehouseRow] = Received(db[WarehouseRow])
      BY <1>3, <2>3 DEF NeoAdded
    <2> QED  BY <1>6, <2>2, <2>4, <2>5, <2>6, <2>7, <2>8 DEF NeoAdded
  <1>10. district \in Neo4j!Wants(i)
    BY <1>1, NeoRows DEF Neo4j!Wants
  <1> QED  BY <1>1, <1>2, <1>5, <1>7, <1>8, <1>9, <1>10, NeoWrites

\* D_NEXT_O_ID is increased, and there is an order.
LEMMA NeoPlaceOrder ==
    ASSUME NeoInv, NEW i \in Clients, Neo4j!PlaceOrder(i), driver' = driver
    PROVE  NeoInv'
PROOF
  <1>0. PICK o : o = Neo4j!NumberRead(i)
    OBVIOUS
  <1> DEFINE district == DistrictRow(request[i].d)
             customer == CustomerRow(request[i].d, request[i].c)
             node == OrderNode(i, request[i].d, o)
             value == Increased(Visible(i)[district])
             order == [PlacedOrder(request[i]) EXCEPT !.amount = 0]
             changes == Put(district, value, Put(customer, Visible(i)[customer], Put(node, order, NoRows)))
  <1>1. pc[i] = "placeOrder" /\ Neo4j!Writes(i, changes, "getStock")
    BY <1>0, NeoRows DEF Neo4j!PlaceOrder, Increased
  <1>2. district[1] = "district" /\ customer[1] = "customer" /\ node[1] = "orders" /\ node[2] = request[i].d
    BY RowKeys DEF OrderNode
  <1>3. NeoPhase(i) /\ NeoAdds(i) /\ NeoAdded(i)
    BY DEF NeoInv, NeoClientOK
  <1>4. request[i] \in Orders /\ request[i].d \in DIds /\ request[i].c \in CIds
    BY <1>1, <1>3, OrderIs DEF NeoPhase, Ordering
  <1>5. /\ district \in DOMAIN db /\ Visible(i)[district] = db[district]
        /\ customer \in DOMAIN db /\ customer \in DOMAIN Visible(i)
    <2>1. district \notin DOMAIN written[i]
      BY <1>1, <1>3 DEF NeoAdded, Paid, Ordered
    <2> QED  BY <1>4, <2>1, NeoBase, NeoVisible
  <1>6. NeoFits(district, value)
    BY <1>2, <1>5, NeoValues DEF NeoInv, NeoStore
  <1>7. NeoFits(customer, Visible(i)[customer])
    BY <1>5, NeoVisible
  <1>8. NeoFits(node, order)
    <2>1. "c" \in DOMAIN PlacedOrder(request[i]) /\ PlacedOrder(request[i]).c \in CIds
      BY <1>4 DEF PlacedOrder
    <2> HIDE DEF node
    <2>2. NeoFits(node, PlacedOrder(request[i]))
      BY <1>2, <1>4, <2>1 DEF NeoFits, Live
    <2> QED  BY <1>2, <2>2, NeoValues
  <1> HIDE DEF node, order, value, district, customer
  <1>9. DOMAIN changes = {district, customer, node}
    BY DEF Put, NoRows
  <1>10. /\ changes[district] = value /\ changes[customer] = Visible(i)[customer]
         /\ changes[node] = order
    BY <1>2 DEF Put, NoRows
  <1> HIDE DEF changes
  <1>11. /\ db' = db /\ request' = request /\ open' = open /\ ended' = ended /\ pc'[i] = "getStock"
        /\ DOMAIN written'[i] = DOMAIN written[i] \cup DOMAIN changes
        /\ \A row \in DOMAIN written'[i] :
               written'[i][row] = IF row \in DOMAIN changes THEN changes[row] ELSE written[i][row]
    BY <1>1, NeoWritten
  <1>12. NeoPhase(i)'
    BY <1>1, <1>3, <1>11 DEF NeoPhase, Ordering, Ordered, Paying, PaidOnce, Paid, Delivering
  <1>13. NeoAdds(i)'
    <2>1. node = (OrderNode(i, request[i].d, o))' /\ node = OrderNode(i, request[i].d, o)
      <3>1. ended' = ended /\ request' = request
        BY <1>11
      <3> QED  BY <3>1 DEF node, OrderNode
    <2> QED  BY <1>1, <1>3, <1>5, <1>9, <1>11 DEF NeoAdds, Ordered, node, OrderNode
  <1>14. NeoAdded(i)'
    <2>1. WarehouseRow \notin {district, customer, node}
      BY <1>2, RowKeys
    <2>2. \A d : DistrictRow(d) \in {district, customer, node} <=> d = request[i].d
      BY <1>2, RowKeys DEF district
    <2>3. "getStock" \notin Paid /\ "getStock" \notin PaidOnce /\ "getStock" \in Ordered
      BY DEF Paid, PaidOnce, Ordered
    <2>4. pc[i] \notin Paid /\ pc[i] \notin PaidOnce /\ pc[i] \notin Ordered
      BY <1>1 DEF Paid, PaidOnce, Ordered
    <2>5. WarehouseRow \notin DOMAIN written'[i]
      BY <1>3, <1>9, <1>11, <2>1, <2>4 DEF NeoAdded
    <2>6. \A d : DistrictRow(d) \in DOMAIN written'[i] <=> d = request[i].d
      BY <1>3, <1>9, <1>11, <2>2, <2>4 DEF NeoAdded
    <2>7. written'[i][district] = Increased(db[district])
      BY <1>5, <1>9, <1>10, <1>11 DEF value
    <2> QED  BY <1>11, <2>3, <2>5, <2>6, <2>7 DEF NeoAdded, district
  <1>15. district \in Neo4j!Wants(i) /\ customer \in Neo4j!Wants(i)
    BY <1>1, NeoRows DEF Neo4j!Wants, district, customer
  <1>16. \E d, p : node = OrderNode(i, d, p)
    BY DEF node
  <1>17. pc[i] # "idle" /\ "getStock" # "idle"
    BY <1>1
  <1> QED  BY <1>1, <1>6, <1>7, <1>8, <1>9, <1>10, <1>12, <1>13, <1>14, <1>15, <1>16, <1>17, NeoWrites

-----------------------------------------------------------------------------
\* A call that begins has written nothing.
LEMMA NeoBegins ==
    ASSUME NeoInv, NEW i \in Clients, driver' = driver, db' = db, written' = written, ended' = ended,
           NEW r \in Requests, NEW to, Neo4j!Called(i, r, to), open' = [open EXCEPT ![i] = "yes"],
           \/ to = "placeOrder" /\ r \in Orders
           \/ to = "updateWarehouse" /\ r.d \in DIds /\ r.c \in CIds
           \/ to = "getNewOrder"
    PROVE  NeoInv'
PROOF
  <1>1. /\ pc[i] = "idle" /\ ended[i] < MaxTransactions
        /\ request' = [request EXCEPT ![i] = r] /\ pc' = [pc EXCEPT ![i] = to]
    BY DEF Neo4j!Called
  <1>2. /\ DOMAIN open' = Clients /\ open'[i] = "yes" /\ \A j \in Clients \ {i} : open'[j] = open[j]
        /\ request'[i] = r /\ \A j \in Clients \ {i} : request'[j] = request[j]
        /\ pc'[i] = to /\ \A j \in Clients \ {i} : pc'[j] = pc[j]
    BY <1>1 DEF NeoInv, RequestsOK
  <1>3. to \notin Ordered /\ to \notin Paid /\ to \notin PaidOnce /\ to # "idle"
    BY DEF Ordered, PaidOnce, Paid
  <1>4. written[i] = NoRows
    BY <1>1 DEF NeoInv, NeoClientOK, NeoPhase
  <1>5. DOMAIN written'[i] = {}
    BY <1>4 DEF NoRows
  <1>6. NeoClientOK(i)'
    <2>1. NeoPhase(i)'
      BY <1>2, <1>3 DEF NeoPhase, Ordering, Ordered, Paying, PaidOnce, Paid, Delivering
    <2>2. NeoAdds(i)'
      BY <1>2, <1>3, <1>5 DEF NeoAdds
    <2>3. NeoAdded(i)'
      BY <1>2, <1>3, <1>5 DEF NeoAdded
    <2> QED  BY <1>5, <2>1, <2>2, <2>3 DEF NeoClientOK
  <1>7. \A j \in Clients \ {i} : NeoClientOK(j)'
    BY <1>2, NeoOther
  <1>8. RequestsOK'
    BY <1>1, <1>2, <1>3, RequestKinds DEF NeoInv, RequestsOK
  <1>9. EndedOK'
    BY <1>1, <1>2 DEF NeoInv, EndedOK
  <1>10. Fresh(db)'
    BY DEF NeoInv, Fresh
  <1> QED  BY <1>2, <1>6, <1>7, <1>8, <1>9, <1>10 DEF NeoInv

\* The calls that write begin.
LEMMA NeoBegin ==
    ASSUME NeoInv, NEW i \in Clients, driver' = driver,
           Neo4j!BeginNewOrder(i) \/ Neo4j!BeginPayment(i) \/ Neo4j!BeginDelivery(i)
    PROVE  NeoInv'
PROOF
  <1>1. CASE Neo4j!BeginNewOrder(i)
    <2>1. PICK r \in Orders : Neo4j!Called(i, r, "placeOrder")
      BY <1>1, NeoRows DEF Neo4j!BeginNewOrder
    <2>2. /\ open' = [open EXCEPT ![i] = "yes"] /\ db' = db /\ written' = written /\ ended' = ended
      BY <1>1 DEF Neo4j!BeginNewOrder
    <2>3. r \in Requests
      BY DEF Requests
    <2> QED  BY <2>1, <2>2, <2>3, NeoBegins
  <1>2. CASE Neo4j!BeginPayment(i)
    <2>1. PICK r \in [type : {"PAYMENT"}, d : DIds, c : CIds] : Neo4j!Called(i, r, "updateWarehouse")
      BY <1>2, NeoRows DEF Neo4j!BeginPayment
    <2>2. /\ open' = [open EXCEPT ![i] = "yes"] /\ db' = db /\ written' = written /\ ended' = ended
      BY <1>2 DEF Neo4j!BeginPayment
    <2>3. r \in Requests /\ r.d \in DIds /\ r.c \in CIds
      BY DEF Requests
    <2> QED  BY <2>1, <2>2, <2>3, NeoBegins
  <1>3. CASE Neo4j!BeginDelivery(i)
    <2>1. Neo4j!Called(i, [type |-> "DELIVERY"], "getNewOrder")
      BY <1>3 DEF Neo4j!BeginDelivery
    <2>2. /\ open' = [open EXCEPT ![i] = "yes"] /\ db' = db /\ written' = written /\ ended' = ended
      BY <1>3 DEF Neo4j!BeginDelivery
    <2>3. [type |-> "DELIVERY"] \in Requests
      BY DEF Requests
    <2> QED  BY <2>1, <2>2, <2>3, NeoBegins
  <1> QED  BY <1>1, <1>2, <1>3

\* A query that only reads.
LEMMA NeoReads ==
    ASSUME NeoInv, NEW i \in Clients, driver' = driver,
           Neo4j!GetStock(i) \/ Neo4j!GetNewOrder(i) \/ Neo4j!SkipDistrict(i)
    PROVE  NeoInv'
PROOF
  <1>1. /\ \/ pc[i] = "getStock" /\ pc'[i] = "updateStock"
           \/ pc[i] = "getNewOrder" /\ pc'[i] \in {"getNewOrder", "updateOrder"}
        /\ DOMAIN pc' = Clients /\ \A j \in Clients \ {i} : pc'[j] = pc[j]
        /\ db' = db /\ ended' = ended /\ open' = open /\ request' = request /\ written' = written
    <2>1. DOMAIN pc = Clients
      BY DEF NeoInv, RequestsOK
    <2> QED  BY <2>1 DEF Neo4j!GetStock, Neo4j!GetNewOrder, Neo4j!SkipDistrict, Neo4j!Reads
  <1>2. /\ pc[i] # "idle" /\ pc'[i] # "idle"
        /\ pc[i] \in Ordered <=> pc'[i] \in Ordered
        /\ pc[i] \in Ordering <=> pc'[i] \in Ordering
        /\ pc[i] \in Paid <=> pc'[i] \in Paid
        /\ pc[i] \in PaidOnce <=> pc'[i] \in PaidOnce
        /\ pc[i] \in Paying <=> pc'[i] \in Paying
        /\ pc'[i] \in {"idle"} \cup Ordering \cup Paying \cup Delivering
    BY <1>1 DEF Ordered, Ordering, Paid, PaidOnce, Paying, Delivering
  <1>3. NeoPhase(i) /\ NeoAdds(i) /\ NeoAdded(i)
    BY DEF NeoInv, NeoClientOK
  <1>4. NeoPhase(i)'
    BY <1>1, <1>2, <1>3 DEF NeoPhase
  <1>5. NeoAdded(i)'
    BY <1>1, <1>2, <1>3 DEF NeoAdded
  <1>6. NeoAdds(i)'
    <2>1. CASE pc[i] \in Ordered
      <3>1. PICK o : /\ OrderNode(i, request[i].d, o) \in DOMAIN written[i]
                     /\ \A row \in DOMAIN written[i] \ DOMAIN db :
                            row[1] = "stock" \/ row = OrderNode(i, request[i].d, o)
        BY <1>3, <2>1 DEF NeoAdds
      <3>2. (OrderNode(i, request[i].d, o))' = OrderNode(i, request[i].d, o)
        BY <1>1 DEF OrderNode
      <3> QED  BY <1>1, <1>2, <2>1, <3>1, <3>2 DEF NeoAdds
    <2>2. CASE pc[i] \notin Ordered
      BY <1>1, <1>2, <1>3, <2>2 DEF NeoAdds
    <2> QED  BY <2>1, <2>2
  <1>7. \A row \in DOMAIN written'[i] : NeoFits(row, written'[i][row])
    BY <1>1 DEF NeoInv, NeoClientOK
  <1>8. DOMAIN written' = Clients /\ \A j \in Clients \ {i} : DOMAIN written'[i] \cap DOMAIN written[j] = {}
    BY <1>1 DEF NeoInv
  <1> QED  BY <1>1, <1>2, <1>4, <1>5, <1>6, <1>7, <1>8, NeoGoesOn

-----------------------------------------------------------------------------
\* A call is over, and its transaction; what is committed is db'.
LEMMA NeoEnds ==
    ASSUME NeoInv, NEW i \in Clients, driver' = driver, Neo4j!Returns(i), ended[i] < MaxTransactions,
           (NeoStore(db) /\ Check1(db) /\ Counted(db))', Fresh(db)',
           DOMAIN written' = Clients, written'[i] = NoRows, DOMAIN open' = Clients, open'[i] = "no",
           \A j \in Clients \ {i} : written'[j] = written[j] /\ open'[j] = open[j],
           DOMAIN db \subseteq DOMAIN db',
           \A row \in DOMAIN db \ DOMAIN written[i] : db'[row] = db[row]
    PROVE  NeoInv'
PROOF
  <1>1. /\ pc' = [pc EXCEPT ![i] = "idle"] /\ request' = [request EXCEPT ![i] = NoRequest]
        /\ ended' = [ended EXCEPT ![i] = ended[i] + 1]
    BY NeoRows DEF Neo4j!Returns
  <1>2. /\ pc'[i] = "idle" /\ \A j \in Clients \ {i} : pc'[j] = pc[j] /\ request'[j] = request[j]
        /\ \A j \in Clients \ {i} : ended'[j] = ended[j]
    BY <1>1 DEF NeoInv, RequestsOK, EndedOK
  <1>3. RequestsOK'
    BY <1>1 DEF NeoInv, RequestsOK
  <1>4. EndedOK'
    BY <1>1, DurationAssumption DEF NeoInv, EndedOK, RequestsOK
  <1>5. DOMAIN written'[i] = {}
    BY DEF NoRows
  <1>6. NeoClientOK(i)'
    <2>1. "idle" \notin Ordered /\ "idle" \notin Ordering /\ "idle" \notin Paid /\ "idle" \notin PaidOnce /\ "idle" \notin Paying
      BY DEF Ordered, Ordering, Paid, PaidOnce, Paying
    <2>2. NeoPhase(i)'
      BY <1>2, <2>1 DEF NeoPhase
    <2>3. NeoAdds(i)' /\ NeoAdded(i)'
      BY <1>2, <1>5, <2>1 DEF NeoAdds, NeoAdded
    <2> QED  BY <1>5, <2>2, <2>3 DEF NeoClientOK
  <1>7. ASSUME NEW j \in Clients \ {i}
        PROVE  NeoClientOK(j)'
    <2>1. NeoPhase(j) /\ NeoAdds(j) /\ NeoAdded(j) /\ \A row \in DOMAIN written[j] : NeoFits(row, written[j][row])
      BY DEF NeoInv, NeoClientOK
    <2>2. NeoPhase(j)'
      BY <1>2, <2>1 DEF NeoPhase
    <2>3. NeoAdds(j)'
      <3>1. CASE pc[j] \in Ordered
        <4>1. PICK o : /\ OrderNode(j, request[j].d, o) \in DOMAIN written[j]
                       /\ \A row \in DOMAIN written[j] \ DOMAIN db :
                              row[1] = "stock" \/ row = OrderNode(j, request[j].d, o)
          BY <2>1, <3>1 DEF NeoAdds
        <4>2. (OrderNode(j, request[j].d, o))' = OrderNode(j, request[j].d, o)
          BY <1>2 DEF OrderNode
        <4> QED  BY <1>2, <3>1, <4>1, <4>2 DEF NeoAdds
      <3>2. CASE pc[j] \notin Ordered
        BY <1>2, <2>1, <3>2 DEF NeoAdds
      <3> QED  BY <3>1, <3>2
    <2>4. DOMAIN written[i] \cap DOMAIN written[j] = {}
      BY DEF NeoInv
    <2>5. \A row \in DOMAIN written[j] \cap DOMAIN db : db'[row] = db[row]
      BY <2>4
    <2>6. NeoAdded(j)'
      <3>1. pc[j] \in PaidOnce => db'[WarehouseRow] = db[WarehouseRow]
        BY <2>1, <2>5, NeoBase DEF NeoAdded
      <3>2. pc[j] \in Paid \cup Ordered => db'[DistrictRow(request[j].d)] = db[DistrictRow(request[j].d)]
        <4> SUFFICES ASSUME pc[j] \in Paid \cup Ordered
                     PROVE  db'[DistrictRow(request[j].d)] = db[DistrictRow(request[j].d)]
          OBVIOUS
        <4>1. DistrictRow(request[j].d) \in DOMAIN written[j]
          BY <2>1 DEF NeoAdded
        <4>2. request[j].d \in DIds
          BY <2>1, OrderIs DEF NeoPhase, Ordering, Paying, PaidOnce
        <4> QED  BY <2>5, <4>1, <4>2, NeoBase
      <3> QED  BY <1>2, <2>1, <3>1, <3>2 DEF NeoAdded
    <2> QED  BY <2>1, <2>2, <2>3, <2>6 DEF NeoClientOK
  <1>8. \A k, j \in Clients : k # j => DOMAIN written'[k] \cap DOMAIN written'[j] = {}
    BY <1>5 DEF NeoInv
  <1> QED  BY <1>3, <1>4, <1>6, <1>7, <1>8 DEF NeoInv

-----------------------------------------------------------------------------
\* It has read only, or is rolled back: nothing is stored.
LEMMA NeoLeaves ==
    ASSUME NeoInv, NEW i \in Clients, driver' = driver,
           Neo4j!GiveUp(i) \/ Neo4j!ReadOnly(i) \/ Neo4j!Deadlock(i)
    PROVE  NeoInv'
PROOF
  <1>1. Neo4j!Returns(i) /\ db' = db
    BY DEF Neo4j!GiveUp, Neo4j!ReadOnly, Neo4j!Deadlock
  <1>2. DOMAIN written = Clients /\ DOMAIN open = Clients /\ NeoPhase(i)
    BY DEF NeoInv, NeoClientOK
  <1>3. /\ ended[i] < MaxTransactions
        /\ DOMAIN written' = Clients /\ written'[i] = NoRows
        /\ DOMAIN open' = Clients /\ open'[i] = "no"
        /\ \A j \in Clients \ {i} : written'[j] = written[j] /\ open'[j] = open[j]
    <2>1. CASE Neo4j!GiveUp(i) \/ Neo4j!ReadOnly(i)
      <3>1. pc[i] = "idle" /\ ended[i] < MaxTransactions /\ written' = written /\ open' = open
        BY <2>1 DEF Neo4j!GiveUp, Neo4j!ReadOnly
      <3> QED  BY <1>2, <3>1 DEF NeoPhase
    <2>2. CASE Neo4j!Deadlock(i)
      <3>1. pc[i] # "idle"
        BY <2>2 DEF Neo4j!Deadlock, Neo4j!WaitsFor, Neo4j!Wants
      <3>2. /\ written' = [written EXCEPT ![i] = NoRows] /\ open' = [open EXCEPT ![i] = "no"]
        BY <2>2, NeoRows DEF Neo4j!Deadlock, Neo4j!Closes
      <3> QED  BY <1>2, <3>1, <3>2 DEF NeoInv, EndedOK
    <2> QED  BY <2>1, <2>2
  <1>4. Fresh(db)'
    <2>1. ended' = [ended EXCEPT ![i] = ended[i] + 1]
      BY <1>1 DEF Neo4j!Returns
    <2>2. \A j \in Clients, n \in Nat : n >= ended'[j] => n >= ended[j]
      BY <2>1, DurationAssumption DEF NeoInv, EndedOK
    <2> QED  BY <1>1, <2>2 DEF NeoInv, Fresh
  <1>5. (NeoStore(db) /\ Check1(db) /\ Counted(db))'
    BY <1>1 DEF NeoInv
  <1> QED  BY <1>1, <1>3, <1>4, <1>5, NeoEnds

\* What it has added is what is added now, as no other one has committed these rows.
LEMMA NeoCommitted ==
    ASSUME NeoInv, NEW i \in Clients, Neo4j!Commit(i)
    PROVE  (NeoStore(db) /\ Check1(db) /\ Counted(db))'
PROOF
  <1> DEFINE then == Visible(i)
             d == request[i].d
             district == DistrictRow(request[i].d)
  <1>1. db' = then /\ pc[i] \in {"getStock", "getNewOrder", "commit"}
    BY NeoRows DEF Neo4j!Commit
  <1>2. /\ DOMAIN then = DOMAIN db \cup DOMAIN written[i]
        /\ \A row \in DOMAIN then :
              /\ then[row] = IF row \in DOMAIN written[i] THEN written[i][row] ELSE db[row]
              /\ NeoFits(row, then[row])
    BY NeoVisible
  <1>3. NeoPhase(i) /\ NeoAdds(i) /\ NeoAdded(i) /\ NeoStore(db) /\ Check1(db) /\ Counted(db)
    BY DEF NeoInv, NeoClientOK
  <1>4. NeoStore(then)
    BY <1>2, <1>3 DEF NeoStore
  <1>5. /\ WarehouseRow \in DOMAIN db /\ db[WarehouseRow] \in [ytd : Int]
        /\ \A e \in DIds : DistrictRow(e) \in DOMAIN db /\ db[DistrictRow(e)] \in [next : Int, ytd : Int]
    BY NeoBase
  <1>6. \A e \in DIds : DistrictRow(e) = district <=> e = d
    BY RowKeys
  <1> HIDE DEF then
  <1>7. Check1(then) /\ Counted(then)
    <2>1. CASE pc[i] = "commit"
      <3>1. pc[i] \in Paid /\ pc[i] \in PaidOnce /\ pc[i] \in Paying /\ pc[i] \notin Ordered
        BY <2>1 DEF Paid, PaidOnce, Paying, Ordered
      <3>2. d \in DIds
        BY <1>3, <3>1 DEF NeoPhase
      <3>3. then[WarehouseRow] = Received(db[WarehouseRow])
        BY <1>2, <1>3, <1>5, <3>1 DEF NeoAdded
      <3>4. then[district] = Received(db[district])
        BY <1>2, <1>3, <1>5, <3>1, <3>2 DEF NeoAdded
      <3>5. \A e \in DIds \ {d} : then[DistrictRow(e)] = db[DistrictRow(e)]
        BY <1>2, <1>3, <1>5, <3>1 DEF NeoAdded
      <3>6. \A e \in DIds : db[DistrictRow(e)].ytd \in Int
        BY <1>5
      <3>7. then[WarehouseRow].ytd = db[WarehouseRow].ytd + 1
        BY <1>5, <3>3 DEF Received
      <3>8. then[district].ytd = db[district].ytd + 1 /\ then[district].next = db[district].next
        BY <1>5, <3>2, <3>4 DEF Received
      <3>9. Check1(then)
        <4> HIDE DEF d
        <4> QED  BY <1>3, <3>2, <3>5, <3>6, <3>7, <3>8, PaidCheck1 DEF d
      <3>10. \A row : row[1] = "orders" => (row \in DOMAIN then <=> row \in DOMAIN db)
        BY <1>2, <1>3, <3>1 DEF NeoAdds
      <3>11. \A e \in DIds : then[DistrictRow(e)].next = db[DistrictRow(e)].next
        BY <3>5, <3>8
      <3> QED  BY <1>3, <3>9, <3>10, <3>11, SameCount
    <2>2. CASE pc[i] = "getNewOrder"
      <3>1. pc[i] \notin Paid /\ pc[i] \notin PaidOnce /\ pc[i] \notin Ordered
        BY <2>2 DEF Paid, PaidOnce, Ordered
      <3>2. then[WarehouseRow] = db[WarehouseRow] /\ \A e \in DIds : then[DistrictRow(e)] = db[DistrictRow(e)]
        BY <1>2, <1>3, <1>5, <3>1 DEF NeoAdded
      <3>3. \A row : row[1] = "orders" => (row \in DOMAIN then <=> row \in DOMAIN db)
        BY <1>2, <1>3, <3>1 DEF NeoAdds
      <3> QED  BY <1>3, <3>2, <3>3, SameCheck1, SameCount
    <2>3. CASE pc[i] = "getStock"
      <3>1. pc[i] \notin Paid /\ pc[i] \notin PaidOnce /\ pc[i] \in Ordered /\ pc[i] \in Ordering
        BY <2>3 DEF Paid, PaidOnce, Ordered, Ordering
      <3>2. d \in DIds
        BY <1>3, <3>1, OrderIs DEF NeoPhase
      <3>3. then[WarehouseRow] = db[WarehouseRow]
        BY <1>2, <1>3, <1>5, <3>1 DEF NeoAdded
      <3>4. then[district] = Increased(db[district])
        BY <1>2, <1>3, <1>5, <3>1, <3>2 DEF NeoAdded
      <3>5. \A e \in DIds \ {d} : then[DistrictRow(e)] = db[DistrictRow(e)]
        BY <1>2, <1>3, <1>5, <3>1 DEF NeoAdded
      <3>6. then[district].next = db[district].next + 1 /\ then[district].ytd = db[district].ytd
        BY <1>5, <3>2, <3>4 DEF Increased
      <3>7. Check1(then)
        BY <1>3, <3>3, <3>5, <3>6, SameCheck1
      <3>8. PICK o : /\ OrderNode(i, d, o) \in DOMAIN written[i]
                     /\ \A row \in DOMAIN written[i] \ DOMAIN db :
                            row[1] = "stock" \/ row = OrderNode(i, d, o)
        BY <1>3, <3>1 DEF NeoAdds
      <3> DEFINE node == OrderNode(i, d, o)
      <3>9. node[1] = "orders" /\ node[2] = d
        BY DEF OrderNode
      <3>10. node \notin DOMAIN db
        <4>1. ended[i] \in Nat
          BY DurationAssumption DEF NeoInv, EndedOK
        <4> QED  BY <4>1 DEF NeoInv, Fresh, OrderNode
      <3> HIDE DEF node
      <3>11. node \in DOMAIN then
        BY <1>2, <3>8 DEF node
      <3>12. \A row : row[1] = "orders" /\ row # node => (row \in DOMAIN then <=> row \in DOMAIN db)
        BY <1>2, <3>8 DEF node
      <3>13. Counted(then)
        <4> HIDE DEF d
        <4> QED  BY <1>3, <3>2, <3>5, <3>6, <3>9, <3>10, <3>11, <3>12, PlacedCount DEF d
      <3> QED  BY <3>7, <3>13
    <2> QED  BY <1>1, <2>1, <2>2, <2>3
  <1> QED  BY <1>1, <1>4, <1>7

\* A commit keeps the invariant.
LEMMA NeoCommit ==
    ASSUME NeoInv, NEW i \in Clients, Neo4j!Commit(i), driver' = driver
    PROVE  NeoInv'
PROOF
  <1>1. /\ db' = Visible(i) /\ Neo4j!Returns(i) /\ pc[i] # "idle"
        /\ written' = [written EXCEPT ![i] = NoRows] /\ open' = [open EXCEPT ![i] = "no"]
    BY NeoRows DEF Neo4j!Commit, Neo4j!Closes
  <1>2. /\ DOMAIN written' = Clients /\ written'[i] = NoRows
        /\ DOMAIN open' = Clients /\ open'[i] = "no"
        /\ \A j \in Clients \ {i} : written'[j] = written[j] /\ open'[j] = open[j]
    BY <1>1 DEF NeoInv
  <1>3. ended[i] < MaxTransactions
    BY <1>1 DEF NeoInv, EndedOK
  <1>4. /\ DOMAIN db' = DOMAIN db \cup DOMAIN written[i]
        /\ \A row \in DOMAIN db \ DOMAIN written[i] : db'[row] = db[row]
    BY <1>1, NeoVisible
  <1>5. Fresh(db)'
    <2>1. ended' = [ended EXCEPT ![i] = ended[i] + 1]
      BY <1>1 DEF Neo4j!Returns
    <2>2. \A j \in Clients, n \in Nat : n >= ended'[j] => n >= ended[j] /\ (j = i => n # ended[i])
      BY <2>1, DurationAssumption DEF NeoInv, EndedOK
    <2>3. ASSUME NEW row \in DOMAIN db' \ DOMAIN db
          PROVE  row[1] = "stock" \/ \E d, o : row = <<"orders", d, o, i, ended[i]>>
      <3>1. row \in DOMAIN written[i] \ DOMAIN db /\ NeoAdds(i)
        BY <1>4, <2>3 DEF NeoInv, NeoClientOK
      <3>2. row[1] = "stock" \/ \E o : row = OrderNode(i, request[i].d, o)
        BY <3>1 DEF NeoAdds
      <3> QED  BY <3>2 DEF OrderNode
    <2>4. ASSUME NEW j \in Clients, NEW n \in Nat, n >= ended'[j]
          PROVE  /\ HistoryRow(j, n) \notin DOMAIN db'
                 /\ \A d, o : <<"orders", d, o, j, n>> \notin DOMAIN db'
      <3>1. n >= ended[j] /\ (j = i => n # ended[i])
        BY <2>2, <2>4
      <3>2. HistoryRow(j, n) \notin DOMAIN db /\ \A d, o : <<"orders", d, o, j, n>> \notin DOMAIN db
        BY <3>1 DEF NeoInv, Fresh
      <3>3. HistoryRow(j, n)[1] = "history" /\ \A d, o : HistoryRow(j, n) # <<"orders", d, o, i, ended[i]>>
        BY DEF HistoryRow
      <3>4. \A d, o : /\ <<"orders", d, o, j, n>>[1] = "orders"
                      /\ \A e, p : <<"orders", d, o, j, n>> # <<"orders", e, p, i, ended[i]>>
        BY <3>1
      <3> QED  BY <2>3, <3>2, <3>3, <3>4
    <2> QED  BY <2>4 DEF Fresh
  <1>6. (NeoStore(db) /\ Check1(db) /\ Counted(db))'
    BY NeoCommitted
  <1> QED  BY <1>1, <1>2, <1>3, <1>4, <1>5, <1>6, NeoEnds

-----------------------------------------------------------------------------
\* The load satisfies the invariant.
LEMMA NeoInit ==
    ASSUME driver = "neo4j", driver \in Drivers, Neo4j!Init
    PROVE  NeoInv
PROOF
  <1>1. /\ db = FlaggedRows /\ pc = [j \in Clients |-> "idle"]
        /\ request = [j \in Clients |-> NoRequest]
        /\ written = [j \in Clients |-> NoRows] /\ open = [j \in Clients |-> "no"]
        /\ ended = [j \in Clients |-> 0]
    <2>1. Neo4j!FlaggedRows = FlaggedRows
      <3>1. Neo4j!LoadedRows = LoadedRows
        <4>1. /\ Neo4j!Items = Items
              /\ \A d, o : Neo4j!OrderRow(d, o) = OrderRow(d, o)
              /\ \A d, o : Neo4j!NewRow(d, o) = NewRow(d, o)
              /\ \A n : Neo4j!LoadedNew(n) = LoadedNew(n)
          BY Zenon DEF Neo4j!Items, Items, Neo4j!OrderRow, OrderRow,
                 Neo4j!NewRow, NewRow, Neo4j!LoadedNew, LoadedNew
        <4> QED  BY <4>1, NeoRows DEF Neo4j!LoadedRows, LoadedRows
      <3>2. \A row : Neo4j!LoadedValue(row) = LoadedValue(row)
        BY Zenon DEF Neo4j!LoadedValue, LoadedValue, Neo4j!LoadedNew, LoadedNew
      <3>3. Neo4j!Loaded = Loaded
        BY <3>1, <3>2, Zenon DEF Neo4j!Loaded, Loaded
      <3> QED  BY <3>1, <3>3, NeoRows DEF Neo4j!FlaggedRows, FlaggedRows
    <2> QED  BY <2>1, NeoRows DEF Neo4j!Init, Neo4j!InitOn
  <1>2. NeoStore(db) /\ Check1(db) /\ Counted(db)
    <2>1. StoreOK(db) /\ Check1(db) /\ Counted(db)
      BY <1>1, LoadedStore, LoadedSums, LoadedOrders
    <2>2. ASSUME NEW row \in DOMAIN db
          PROVE  NeoFits(row, db[row])
      <3>1. Fits(row, db[row])
        BY <2>1 DEF StoreOK
      <3>2. row \in LoadedRows /\ row[1] # "new_order" /\ db[row] = LoadedValue(row)
        BY <1>1, LoadedKinds DEF FlaggedRows, Restrict
      <3>3. Live(db[row])
        <4>1. row[1] \in {"warehouse", "district", "customer", "orders", "stock"}
          BY <3>2, RowKeys DEF LoadedRows
        <4> QED  BY <3>2, <4>1 DEF LoadedValue, Live
      <3> QED  BY <3>1, <3>3 DEF Fits, NeoFits, OrderFits
    <2> QED  BY <2>1, <2>2 DEF StoreOK, NeoStore
  <1>3. Fresh(db)
    <2>1. \A row \in DOMAIN db : row[1] # "history" /\ (row[1] = "orders" => Len(row) = 3)
      BY <1>1, LoadedKinds DEF OrderRow
    <2>2. \A d, o, j, n : <<"orders", d, o, j, n>>[1] = "orders" /\ Len(<<"orders", d, o, j, n>>) = 5
      OBVIOUS
    <2> QED  BY <2>1, <2>2, RowKeys DEF Fresh
  <1>4. RequestsOK /\ EndedOK
    BY <1>1, DurationAssumption DEF RequestsOK, EndedOK
  <1>5. ASSUME NEW i \in Clients
        PROVE  NeoClientOK(i)
    <2>1. pc[i] = "idle" /\ written[i] = NoRows /\ open[i] = "no" /\ DOMAIN written[i] = {}
      BY <1>1 DEF NoRows
    <2>2. "idle" \notin Ordered /\ "idle" \notin Ordering /\ "idle" \notin Paid /\ "idle" \notin PaidOnce /\ "idle" \notin Paying
      BY DEF Ordered, Ordering, Paid, PaidOnce, Paying
    <2> QED  BY <2>1, <2>2 DEF NeoClientOK, NeoPhase, NeoAdds, NeoAdded
  <1>6. \A i, j \in Clients : i # j => DOMAIN written[i] \cap DOMAIN written[j] = {}
    BY <1>1 DEF NoRows
  <1> QED  BY <1>1, <1>2, <1>3, <1>4, <1>5, <1>6 DEF NeoInv

\* Every step of the Neo4j clients keeps the invariant.
LEMMA NeoNext ==
    ASSUME NeoInv, Neo4j!Next, driver' = driver
    PROVE  NeoInv'
PROOF
  <1>1. PICK i \in Clients :
           \/ Neo4j!BeginNewOrder(i) \/ Neo4j!GiveUp(i) \/ Neo4j!PlaceOrder(i) \/ Neo4j!GetStock(i)
           \/ Neo4j!UpdateStock(i) \/ Neo4j!CreateLine(i)
           \/ Neo4j!BeginPayment(i) \/ Neo4j!UpdateWarehouse(i) \/ Neo4j!UpdateDistrict(i)
           \/ Neo4j!UpdateCustomer(i)
           \/ Neo4j!BeginDelivery(i) \/ Neo4j!GetNewOrder(i) \/ Neo4j!SkipDistrict(i)
           \/ Neo4j!UpdateOrder(i)
           \/ Neo4j!ReadOnly(i) \/ Neo4j!Commit(i) \/ Neo4j!Deadlock(i)
    BY NeoRows DEF Neo4j!Next
  <1> QED  BY <1>1, NeoBegin, NeoLeaves, NeoPlaceOrder, NeoReads, NeoUpdateStock, NeoCreateLine,
              NeoUpdateWarehouse, NeoUpdateDistrict, NeoUpdateCustomer, NeoUpdateOrder, NeoCommit

\* So does a step of none.
LEMMA NeoStutters ==
    ASSUME NeoInv, driver' = driver, UNCHANGED vars
    PROVE  NeoInv'
PROOF
  <1>1. /\ db' = db /\ pc' = pc /\ request' = request /\ written' = written
        /\ open' = open /\ ended' = ended
    BY DEF vars
  <1>2. \A j \in Clients : NeoClientOK(j)'
    BY <1>1, NeoOther
  <1>3. RequestsOK' /\ EndedOK' /\ Fresh(db)'
    BY <1>1 DEF NeoInv, RequestsOK, EndedOK, Fresh
  <1> QED  BY <1>1, <1>2, <1>3 DEF NeoInv

\* What Neo4j keeps.
LEMMA NeoProperties ==
    ASSUME NeoInv
    PROVE  Consistent /\ NumbersFollowOrders /\ StockCountsLines
PROOF
  <1>1. TypeOK
    <2>1. BaseRows \subseteq DOMAIN db
      BY DEF NeoInv, NeoStore
    <2>2. LoadedRows \ {row \in LoadedRows : row[1] = "new_order"} \subseteq BaseRows
      BY RowKeys DEF LoadedRows, BaseRows
    <2>3. \A i \in Clients : open[i] \in {"no", "yes"} /\ (written[i] # NoRows => open[i] # "no")
      BY DEF NeoInv, NeoClientOK, NeoPhase
    <2> QED  BY <2>1, <2>2, <2>3 DEF NeoInv, TypeOK, RequestsOK, EndedOK
  <1>2. driver = "neo4j" /\ Check1(db) /\ Counted(db)
    BY DEF NeoInv
  <1> QED  BY <1>1, <1>2 DEF Consistent, NumbersFollowOrders, StockCountsLines, Counted

-----------------------------------------------------------------------------
(***************************************************************************)
(* With TypeDB 2 a commit is a step of the numbering.                      *)
(***************************************************************************)
Open(rows, d) == {row[3] : row \in Flagged(rows, d)}

\* An order is placed.
LEMMA TypedbPlaces ==
    ASSUME TypedbInv, NEW r \in Orders, NEW node,
           node[1] = "orders", node[2] = r.d, node[3] = db[DistrictRow(r.d)].next,
           Adds(r, node, db, db')
    PROVE  Numbers!Next
PROOF
  <1> DEFINE e == r.d
             n == db[DistrictRow(e)].next
  <1>1. /\ e \in DIds /\ DistrictRow(e) \in DOMAIN db
        /\ db[DistrictRow(e)] \in [next : Nat \ {0}, ytd : Int]
    BY OrderIs, BaseFits DEF TypedbInv, TypedbOK
  <1>2. db'[DistrictRow(e)].next = n + 1
    <2>1. db'[DistrictRow(e)] = Increased(db[DistrictRow(e)])
      BY DEF Adds
    <2> QED  BY <1>1, <2>1, DistrictValues
  <1>3. \A d \in DIds \ {e} : db'[DistrictRow(d)].next = db[DistrictRow(d)].next
    <2>1. \A d \in DIds \ {e} : DistrictRow(d) \in DOMAIN db
      BY BaseFits DEF TypedbInv, TypedbOK
    <2>2. \A d \in DIds \ {e} : DistrictRow(d) # DistrictRow(e) /\ \A x \in ToSet(r.items) : DistrictRow(d) # StockRow(x)
      BY RowKeys
    <2>3. \A d \in DIds \ {e} : db'[DistrictRow(d)] = db[DistrictRow(d)]
      BY <2>1, <2>2 DEF Adds
    <2> QED  BY <2>3
  <1>4. \A row : row[1] = "orders" /\ row # node =>
            /\ row \in DOMAIN db' <=> row \in DOMAIN db
            /\ row \in DOMAIN db => db'[row] = db[row]
    <2>1. \A row : row[1] = "orders" => row # DistrictRow(e) /\ \A x \in ToSet(r.items) : row # StockRow(x)
      BY RowKeys
    <2> QED  BY <2>1 DEF Adds
  <1>5. node \in DOMAIN db' /\ node \notin DOMAIN db /\ ~ db'[node].delivered
    BY OrderIs DEF Adds
  <1> HIDE DEF n
  <1>6. \A d \in DIds : Numbered(db', "orders", d) =
                            IF d = e THEN Numbered(db, "orders", d) \cup {n} ELSE Numbered(db, "orders", d)
    BY <1>4, <1>5 DEF Numbered, n
  <1>7. \A d \in DIds : Flagged(db', d) = IF d = e THEN Flagged(db, d) \cup {node} ELSE Flagged(db, d)
    BY <1>4, <1>5 DEF Flagged
  <1>8. \A d \in DIds : Open(db', d) = IF d = e THEN Open(db, d) \cup {n} ELSE Open(db, d)
    BY <1>7 DEF Open, n
  <1>9. Numbers!Place(e)
    <2> HIDE DEF e
    <2>1. /\ [d \in DIds |-> db'[DistrictRow(d)].next] =
                 [[d \in DIds |-> db[DistrictRow(d)].next] EXCEPT ![e] = n + 1]
          /\ [d \in DIds |-> db[DistrictRow(d)].next][e] = n
      BY <1>1, <1>2, <1>3 DEF n
    <2>2. [d \in DIds |-> Numbered(db', "orders", d)] =
                 [[d \in DIds |-> Numbered(db, "orders", d)] EXCEPT ![e] = Numbered(db, "orders", e) \cup {n}]
      BY <1>1, <1>6
    <2>3. [d \in DIds |-> Open(db', d)] =
                 [[d \in DIds |-> Open(db, d)] EXCEPT ![e] = Open(db, e) \cup {n}]
      BY <1>1, <1>8
    <2> QED  BY <1>1, <2>1, <2>2, <2>3 DEF Numbers!Place, Open
  <1> QED  BY <1>1, <1>9 DEF Numbers!Next

\* A payment is none of its business.
LEMMA TypedbPaysOnly ==
    ASSUME TypedbInv, NEW r, r.d \in DIds, r.c \in CIds, NEW receipt, receipt[1] = "history",
           Pays(r, receipt, db, db')
    PROVE  UNCHANGED Numbers!vars
PROOF
  <1>1. \A d \in DIds : db'[DistrictRow(d)].next = db[DistrictRow(d)].next
    <2>1. \A d \in DIds : /\ DistrictRow(d) \in DOMAIN db
                          /\ db[DistrictRow(d)] \in [next : Nat \ {0}, ytd : Int]
      BY BaseFits DEF TypedbInv, TypedbOK
    <2>2. \A d \in DIds : db'[DistrictRow(d)] \in {db[DistrictRow(d)], Received(db[DistrictRow(d)])}
      BY <2>1, RowKeys DEF Pays
    <2> QED  BY <2>1, <2>2, DistrictValues
  <1>2. \A row : row[1] = "orders" =>
            /\ row \in DOMAIN db' <=> row \in DOMAIN db
            /\ row \in DOMAIN db => db'[row] = db[row]
    BY RowKeys DEF Pays
  <1>3. \A d \in DIds : Numbered(db', "orders", d) = Numbered(db, "orders", d)
    BY <1>2 DEF Numbered
  <1>4. \A d \in DIds : Flagged(db', d) = Flagged(db, d)
    BY <1>2 DEF Flagged
  <1> QED  BY <1>1, <1>3, <1>4 DEF Numbers!vars

\* A delivery takes an order of each district, or none.
LEMMA TypedbDelivers ==
    ASSUME TypedbInv, TypedbOK(db'), NEW pick, Picked(pick, db), Carries(pick, db, db')
    PROVE  Numbers!Next
PROOF
  <1>1. \A q \in pick : /\ q \in DOMAIN db /\ q[1] = "orders" /\ q[2] \in DIds /\ ~ db[q].delivered
                        /\ db'[q].delivered = TRUE
    <2>1. \A q \in pick : /\ q \in DOMAIN db /\ q[1] = "orders" /\ q[2] \in DIds
                          /\ ~ db[q].delivered
      BY DEF Picked
    <2>2. \A q \in pick : OrderFits(q, db[q]) /\ db'[q] = Carried(db[q])
      BY <2>1 DEF TypedbInv, TypedbOK, StoreOK, Fits, Carries
    <2>3. ASSUME NEW q \in pick
          PROVE  db'[q].delivered = TRUE
      <3>1. OrderFits(q, db[q])
        BY <2>2
      <3>2. Carried(db[q]).delivered = TRUE
        BY <3>1, OrderValues
      <3> QED  BY <2>2, <3>2
    <2> QED  BY <2>1, <2>3
  <1>2. \A row \in DOMAIN db \ pick : row[1] # "customer" => db'[row] = db[row]
    BY RowKeys DEF Carries
  <1>3. DOMAIN db' = DOMAIN db
    BY DEF Carries
  <1>4. \A d \in DIds : db'[DistrictRow(d)].next = db[DistrictRow(d)].next
    <2>1. \A d \in DIds : DistrictRow(d) \in DOMAIN db
      BY BaseFits DEF TypedbInv, TypedbOK
    <2>2. \A d \in DIds : db'[DistrictRow(d)] = db[DistrictRow(d)]
      BY <1>1, <1>2, <2>1, RowKeys
    <2> QED  BY <2>2
  <1>5. \A d \in DIds : Numbered(db', "orders", d) = Numbered(db, "orders", d)
    BY <1>3 DEF Numbered
  <1>6. \A d \in DIds : Flagged(db', d) = Flagged(db, d) \ pick
    BY <1>1, <1>2, <1>3 DEF Flagged
  <1>7. \A d \in DIds : Open(db', d) \subseteq Open(db, d) /\ Open(db', d) \subseteq Nat
    <2>1. \A row \in DOMAIN db' : row[1] = "orders" => row[3] \in Nat
      BY DEF TypedbOK, StoreOK, Fits, OrderFits
    <2>2. \A d \in DIds : Open(db', d) \subseteq Nat
      BY <2>1 DEF Flagged, Open
    <2> QED  BY <1>6, <2>2 DEF Open
  <1>8. \A d \in DIds : \A o, p \in Open(db, d) \ Open(db', d) : o = p
    <2> SUFFICES ASSUME NEW d \in DIds, NEW o \in Open(db, d) \ Open(db', d),
                        NEW p \in Open(db, d) \ Open(db', d)
                 PROVE  o = p
      OBVIOUS
    <2>1. PICK q \in Flagged(db, d) : q[3] = o
      BY DEF Open
    <2>2. PICK row \in Flagged(db, d) : row[3] = p
      BY DEF Open
    <2>3. q \in pick /\ row \in pick
      BY <1>6, <2>1, <2>2 DEF Open
    <2>4. q[2] = d /\ row[2] = d
      BY DEF Flagged
    <2> QED  BY <2>1, <2>2, <2>3, <2>4 DEF Picked
  <1>9. Numbers!Deliver
    <2> DEFINE next == [d \in DIds |-> db[DistrictRow(d)].next]
               orders == [d \in DIds |-> Numbered(db, "orders", d)]
               un == [d \in DIds |-> Open(db, d)]
               unthen == [d \in DIds |-> Open(db', d)]
    <2>1. /\ [d \in DIds |-> db'[DistrictRow(d)].next] = next
          /\ [d \in DIds |-> Numbered(db', "orders", d)] = orders
      BY <1>4, <1>5
    <2>2. unthen \in [DIds -> SUBSET Nat]
      BY <1>7
    <2>3. \A d \in DIds : un[d] = Open(db, d) /\ unthen[d] = Open(db', d)
      OBVIOUS
    <2>4. \A d \in DIds : /\ unthen[d] \subseteq un[d]
                          /\ \A o, p \in un[d] \ unthen[d] : o = p
      BY <1>7, <1>8, <2>3
    <2> QED  BY <2>1, <2>2, <2>4 DEF Numbers!Deliver, Open
  <1> QED  BY <1>9 DEF Numbers!Next

\* Every step of the TypeDB 2 clients is one of the numbering, or none.
LEMMA TypedbNumbers ==
    ASSUME TypedbInv, TypedbInv', Typedb2!Next
    PROVE  Numbers!Next \/ UNCHANGED Numbers!vars
PROOF
  <1>1. PICK i \in Clients : Typedb2!Run(i) \/ Typedb2!Commit(i) \/ Typedb2!CommitRaises(i)
    BY TypedbRows DEF Typedb2!Next
  <1>2. db' = db => UNCHANGED Numbers!vars
    BY DEF Numbers!vars, Flagged, Numbered
  <1>3. CASE Typedb2!Run(i) \/ Typedb2!CommitRaises(i)
    BY <1>2, <1>3 DEF Typedb2!Run, Typedb2!CommitRaises
  <1>4. CASE Typedb2!Commit(i)
    <2>1. CASE \E r \in Orders : Adds(r, OrderNode(i, r.d, db[DistrictRow(r.d)].next), db, db')
      BY <2>1, NodeIs, TypedbPlaces
    <2>2. CASE \E r : r.d \in DIds /\ r.c \in CIds /\ Pays(r, HistoryRow(i, ended[i]), db, db')
      BY <2>2, RowKeys, TypedbPaysOnly
    <2>3. CASE \E pick : Picked(pick, db) /\ Carries(pick, db, db')
      BY <2>3, TypedbDelivers DEF TypedbInv
    <2> QED  BY <1>4, <2>1, <2>2, <2>3, TypedbCommits
  <1> QED  BY <1>1, <1>3, <1>4

-----------------------------------------------------------------------------
(***************************************************************************)
(* Whichever the driver.                                                   *)
(***************************************************************************)
IInv == TypedbInv \/ SqliteInv \/ NeoInv

\* It holds after the load.
LEMMA InitIInv == Init => IInv
PROOF BY TypedbInit, SqliteInit, NeoInit DEF Init, IInv

\* Every step keeps it.
LEMMA NextIInv == IInv /\ [Next]_<<driver, vars>> => IInv'
PROOF
  <1> SUFFICES ASSUME IInv, [Next]_<<driver, vars>>
               PROVE  IInv'
    OBVIOUS
  <1>1. /\ TypedbInv => driver = "typedb2"
        /\ SqliteInv => driver = "sqlite"
        /\ NeoInv => driver = "neo4j"
    BY DEF TypedbInv, SqliteInv, NeoInv
  <1>2. CASE Next
    <2>1. /\ driver' = driver
          /\ \/ driver = "sqlite" /\ Sqlite!Next
             \/ driver = "neo4j" /\ Neo4j!Next
             \/ driver = "typedb2" /\ Typedb2!Next
      BY <1>2 DEF Next
    <2> QED  BY <1>1, <2>1, TypedbNext, SqliteNext, NeoNext DEF IInv
  <1>3. CASE UNCHANGED <<driver, vars>>
    BY <1>3, TypedbStutters, SqliteStutters, NeoStutters DEF IInv
  <1> QED  BY <1>2, <1>3

\* The properties follow from it.
LEMMA IInvIs == IInv => Consistent /\ NumbersFollowOrders /\ StockCountsLines
PROOF BY TypedbProperties, SqliteProperties, NeoProperties DEF IInv

\* What every open transaction has read, has written and may still write, in
\* relation to the committed rows.
THEOREM Invariant == Spec => []IInv
PROOF BY InitIInv, NextIInv, PTL DEF Spec

\* Consistent: the consistency checks of TPC-C each driver keeps, with any number
\* of its clients at once.
THEOREM StaysConsistent == Spec => []Consistent
PROOF BY Invariant, IInvIs, PTL

\* NumbersFollowOrders: D_NEXT_O_ID counts the orders with TypeDB 2 and Neo4j, and
\* with TypeDB 2 and SQLite no number is left out or given twice.
THEOREM OrdersAreNumbered == Spec => []NumbersFollowOrders
PROOF BY Invariant, IInvIs, PTL

\* StockCountsLines: S_ORDER_CNT counts the lines, with TypeDB 2 and SQLite.
THEOREM CountsLines == Spec => []StockCountsLines
PROOF BY Invariant, IInvIs, PTL

\* Typedb2NumbersOrders: what a client of TypeDB 2 commits is a step of the
\* abstract numbering of orders, or none.
THEOREM Typedb2ImplementsNumbering == Spec => Typedb2NumbersOrders
PROOF
  <1>1. IInv /\ IInv' /\ [Next]_<<driver, vars>> =>
            [driver = "typedb2" => (Numbers!Next \/ UNCHANGED Numbers!vars)]_<<driver, vars>>
    <2> SUFFICES ASSUME IInv, IInv', Next, driver = "typedb2"
                 PROVE  Numbers!Next \/ UNCHANGED Numbers!vars
      OBVIOUS
    <2>1. Typedb2!Next /\ driver' = driver
      BY DEF Next
    <2>2. TypedbInv /\ TypedbInv'
      BY <2>1 DEF IInv, SqliteInv, NeoInv
    <2> QED  BY <2>1, <2>2, TypedbNumbers
  <1> QED  BY <1>1, Invariant, PTL DEF Spec, Typedb2NumbersOrders
=============================================================================
