------------------------- MODULE MongodbClients_proofs -------------------------
(***************************************************************************)
(* Any number of MongoDB clients, districts, customers and items, with any *)
(* number of transactions and failures of their connections: what they     *)
(* keep of TPC-C's consistency, what the stock counts, and that they       *)
(* number orders as OrderNumbering says.                                   *)
(*                                                                         *)
(* A transaction that commits has read from a snapshot that may be old by  *)
(* then, but every document it was to write is as it was in the snapshot.  *)
(* The argument is that this is enough.                                    *)
(***************************************************************************)
EXTENDS MongodbClients, SumFacts, SequenceTheorems

-----------------------------------------------------------------------------
(***************************************************************************)
(* The rows there may be, and their values.                                *)
(***************************************************************************)
OrderRows    == {"orders"} \X DIds \X Nat
NewRows      == {"new_order"} \X DIds \X Nat
CustomerRows == {"customer"} \X DIds \X CIds
StockRows    == {"stock"} \X {0} \X Items
HistoryRows  == {"history"} \X Clients \X Nat

Rows ==
    {WarehouseRow} \cup {DistrictRow(d) : d \in DIds}
        \cup OrderRows \cup NewRows \cup CustomerRows \cup StockRows \cup HistoryRows

Lines == [item : Items, quantity : Nat, amount : Int]

LoadedOrders == [c : CIds, amount : Int, delivered : BOOLEAN]
PlacedOrders == [c : CIds, amount : Int, delivered : BOOLEAN, lines : Seq(Lines)]

Fits(row, value) ==
    /\ row[1] = "warehouse" => value \in [ytd : Nat]
    /\ row[1] = "district" => value \in [next : Nat \ {0}, ytd : Nat]
    /\ row[1] = "customer" => value \in [balance : Int, paid : Nat]
    /\ row[1] = "orders" =>
          value \in IF row[3] \in CIds THEN LoadedOrders ELSE PlacedOrders
    /\ row[1] = "stock" => value \in [ytd : Nat, count : Nat]
    /\ row[1] = "new_order" => value = [new |-> TRUE]
    /\ row[1] = "history" => value \in [d : DIds]

\* What is committed, and so what a snapshot has: documents of the collections,
\* the orders of a district under the numbers before D_NEXT_O_ID, the new ones
\* among them.
StoreOK(rows) ==
    /\ DOMAIN rows \subseteq Rows
    /\ WarehouseRow \in DOMAIN rows
    /\ \A d \in DIds : DistrictRow(d) \in DOMAIN rows
    /\ CustomerRows \cup StockRows \subseteq DOMAIN rows
    /\ \A row \in DOMAIN rows : Fits(row, rows[row])
    /\ \A d \in DIds, o \in Nat :
          /\ OrderRow(d, o) \in DOMAIN rows <=> o \in 1 .. rows[DistrictRow(d)].next - 1
          /\ NewRow(d, o) \in DOMAIN rows => OrderRow(d, o) \in DOMAIN rows
    /\ \A d \in DIds : NumCustomers < rows[DistrictRow(d)].next

\* The payments of a client, those whose commit went unanswered included, have
\* the numbers before its next.
HistoryOK ==
    /\ \A row \in DOMAIN db : row[1] = "history" => row[3] < ended[row[2]] + failures[row[2]]
    /\ \A d \in DIds : IsFiniteSet(History(db, d))

-----------------------------------------------------------------------------
(***************************************************************************)
(* A running transaction and its snapshot s.                               *)
(***************************************************************************)

\* Behind the snapshot only stale documents have changed; orders are added to
\* the orders of a district, and new orders are only taken from those it has.
Agrees(i, s) ==
    /\ \A row \in Rows \ stale[i] :
          /\ row \in DOMAIN s <=> row \in DOMAIN db
          /\ row \in DOMAIN s => s[row] = db[row]
    /\ \A d \in DIds : s[DistrictRow(d)].next <= db[DistrictRow(d)].next
    /\ \A d \in DIds, o \in Nat :
          o < s[DistrictRow(d)].next /\ NewRow(d, o) \in DOMAIN db => NewRow(d, o) \in DOMAIN s

\* The first n writes are done, the others are still to do.
Divides(i, all, n) ==
    /\ todo[i] = [k \in 1 .. Len(all) - n |-> all[n + k]]
    /\ DOMAIN done[i] = {all[k][1] : k \in 1 .. n}
    /\ \A k \in 1 .. n : done[i][all[k][1]] = all[k][2]

RunsOn(i, s) ==
    /\ StoreOK(s)
    /\ Agrees(i, s)
    /\ \E n \in 0 .. Len(WritesOf(s, i)) : Divides(i, WritesOf(s, i), n)

-----------------------------------------------------------------------------
StateOK ==
    /\ DOMAIN request = Clients /\ DOMAIN todo = Clients
    /\ DOMAIN done = Clients /\ DOMAIN stale = Clients
    /\ \A i \in Clients : pc[i] # "idle" => ended[i] < MaxTransactions

\* The new orders of a district are the last ones: without this, check 3 would not
\* outlast the next order.
LastAreNew ==
    \A d \in DIds, o, p \in Nat :
        NewRow(d, o) \in DOMAIN db /\ o <= p /\ p < db[DistrictRow(d)].next =>
            NewRow(d, p) \in DOMAIN db

ChecksOK == Check1(db) /\ LastAreNew /\ Check5(db) /\ Check9(db) /\ Check12(db)

LinesOK == IsFiniteSet(AllLines) /\ StockCountsLines

IInv ==
    /\ StateOK
    /\ TypeOK
    /\ StoreOK(db)
    /\ HistoryOK
    /\ ChecksOK
    /\ LinesOK
    /\ \A i \in Clients : pc[i] = "running" => \E s : RunsOn(i, s)

-----------------------------------------------------------------------------
(***************************************************************************)
(* Sets in ascending order, and the items of an order.                     *)
(***************************************************************************)

\* Every finite set of naturals has an order of its elements: a minimal set
\* without one would be more than its greatest element, and be without it one
\* with an order.
LEMMA SortedExists ==
    ASSUME NEW S, S \subseteq Nat, IsFiniteSet(S)
    PROVE  \E s \in SetToSeqs(S) : \A j, k \in DOMAIN s : j < k => s[j] < s[k]
PROOF
  <1> DEFINE Ordered(T) == \E s \in SetToSeqs(T) : \A j, k \in DOMAIN s : j < k => s[j] < s[k]
             Bad == {T \in SUBSET S : ~ Ordered(T)}
  <1>1. ASSUME NEW T \in SUBSET S
        PROVE  IsFiniteSet(T) /\ Cardinality(T) \in Nat
    BY FS_Subset, FS_CardinalityType
  <1>2. Ordered({})
    <2>1. <<>> \in SetToSeqs({})
      BY FS_EmptySet DEF SetToSeqs
    <2> QED  BY <2>1
  <1>3. ASSUME NEW T \in SUBSET S, NEW m \in T, \A x \in T : x <= m, Ordered(T \ {m})
        PROVE  Ordered(T)
    <2> DEFINE n == Cardinality(T \ {m})
    <2>1. n \in Nat /\ Cardinality(T) = n + 1
      <3>1. T \ {m} \in SUBSET S
        OBVIOUS
      <3>2. n = Cardinality(T) - 1
        BY <1>1, FS_RemoveElement
      <3> QED  BY <1>1, <3>1, <3>2
    <2>2. PICK s \in SetToSeqs(T \ {m}) : \A j, k \in DOMAIN s : j < k => s[j] < s[k]
      BY <1>3
    <2>3. s \in [1 .. n -> T \ {m}] /\ \A i, j \in 1 .. n : i # j => s[i] # s[j]
      BY <2>2 DEF SetToSeqs
    <2> DEFINE t == [k \in 1 .. n + 1 |-> IF k = n + 1 THEN m ELSE s[k]]
    <2> HIDE DEF n
    <2>4. ASSUME NEW k \in 1 .. n + 1
          PROVE  t[k] \in T /\ (k # n + 1 => k \in 1 .. n /\ t[k] = s[k] /\ t[k] < m)
      <3>1. k # n + 1 => k \in 1 .. n
        BY <2>1
      <3>2. \A x \in T \ {m} : x < m
        BY <1>3
      <3> QED  BY <2>3, <3>1, <3>2
    <2>5. \A i, j \in 1 .. n + 1 : i # j => t[i] # t[j]
      <3>1. \A x \in T : ~ (x < x)
        OBVIOUS
      <3> QED  BY <2>3, <2>4, <3>1
    <2>6. t \in SetToSeqs(T)
      BY <2>1, <2>4, <2>5 DEF SetToSeqs
    <2>7. ASSUME NEW j \in 1 .. n + 1, NEW k \in 1 .. n + 1, j < k
          PROVE  t[j] < t[k]
      <3>1. j # n + 1
        BY <2>1, <2>7
      <3>2. CASE k = n + 1
        BY <2>4, <3>1, <3>2
      <3>3. CASE k # n + 1
        <4>1. t[j] = s[j] /\ t[k] = s[k] /\ j \in DOMAIN s /\ k \in DOMAIN s
          BY <2>3, <2>4, <3>1, <3>3
        <4> QED  BY <2>2, <2>7, <4>1
      <3> QED  BY <3>2, <3>3
    <2> QED  BY <2>6, <2>7
  <1> HIDE DEF Ordered
  <1>4. Bad = {}
    <2> SUFFICES ASSUME Bad # {} PROVE FALSE
      OBVIOUS
    <2>1. PICK U \in Bad : \A V \in Bad : V \subseteq U => V = U
      <3> HIDE DEF Bad
      <3>1. Bad \subseteq SUBSET S
        BY DEF Bad
      <3>2. IsFiniteSet(S) /\ Bad # {}
        OBVIOUS
      <3> QED  BY ONLY <3>1, <3>2, MinimalSubset
    <2>2. U # {}
      BY <1>2
    <2>3. PICK m \in U : \A x \in U : x <= m
      BY <1>1, <2>2, GreatestNatural
    <2>4. U \ {m} \notin Bad
      BY <2>1
    <2> QED  BY <1>3, <2>3, <2>4
  <1>5. Ordered(S)
    BY <1>4
  <1> QED  BY <1>5 DEF Ordered

\* Such an order has each element once.
LEMMA SortedIs ==
    ASSUME NEW S, S \subseteq Nat, IsFiniteSet(S)
    PROVE  /\ Cardinality(S) \in Nat
           /\ Sorted(S) \in [1 .. Cardinality(S) -> S]
           /\ \A j, k \in 1 .. Cardinality(S) : Sorted(S)[j] = Sorted(S)[k] => j = k
           /\ \A x \in S : \E k \in 1 .. Cardinality(S) : Sorted(S)[k] = x
PROOF
  <1> DEFINE n == Cardinality(S)
  <1>1. Sorted(S) \in SetToSeqs(S)
    BY SortedExists DEF Sorted
  <1>2. n \in Nat
    BY FS_CardinalityType
  <1>3. Sorted(S) \in [1 .. n -> S] /\ \A j, k \in 1 .. n : Sorted(S)[j] = Sorted(S)[k] => j = k
    BY <1>1 DEF SetToSeqs
  <1>4. Sorted(S) \in Injection(1 .. n, S)
    BY <1>3 DEF Injection, IsInjective
  <1>5. Cardinality(1 .. n) = n
    BY <1>2, FS_Interval
  <1>6. Sorted(S) \in Surjection(1 .. n, S)
    BY <1>4, <1>5, FS_Injection
  <1> QED  BY <1>2, <1>3, <1>6 DEF Surjection

\* The items of an order are different, and the k-th ones found are those.
LEMMA ItemsFound ==
    ASSUME NEW r \in Orders
    PROVE  LET n == Len(r.items) IN
           /\ r.d \in DIds /\ r.c \in CIds /\ r.type = "NEW_ORDER"
           /\ n \in Nat
           /\ r.items \in [1 .. n -> Items]
           /\ \A j, k \in 1 .. n : r.items[j] = r.items[k] => j = k
           /\ r.quantities \in [1 .. n -> Nat]
           /\ Found(r.items) \in [1 .. n -> Items]
           /\ \A j, k \in 1 .. n : Found(r.items)[j] = Found(r.items)[k] => j = k
           /\ ToSet(r.items) = {Found(r.items)[k] : k \in 1 .. n}
PROOF
  <1> DEFINE items == r.items
             S == ToSet(items)
  <1>1. /\ items \in SetToAllKPermutations(Items)
        /\ r.d \in DIds /\ r.c \in CIds /\ r.type = "NEW_ORDER"
        /\ r.quantities \in [DOMAIN items -> 1 .. MaxQuantity]
    BY DEF Orders
  <1>2. PICK T \in SUBSET Items : items \in SetToSeqs(T)
    BY <1>1 DEF SetToAllKPermutations
  <1>3. IsFiniteSet(T) /\ Items \subseteq Nat /\ IsFiniteSet(Items)
    <2>1. Items \subseteq Nat /\ IsFiniteSet(Items)
      BY ItemsAssumption, FS_Interval DEF Items
    <2> QED  BY <2>1, FS_Subset
  <1> DEFINE n == Cardinality(T)
  <1>4. n \in Nat
    BY <1>3, FS_CardinalityType
  <1>5. items \in [1 .. n -> T] /\ \A j, k \in 1 .. n : items[j] = items[k] => j = k
    BY <1>2 DEF SetToSeqs
  <1>6. items \in Injection(1 .. n, T)
    BY <1>5 DEF Injection, IsInjective
  <1>7. Cardinality(1 .. n) = n
    BY <1>4, FS_Interval
  <1>8. items \in Surjection(1 .. n, T)
    BY <1>3, <1>6, <1>7, FS_Injection
  <1> HIDE DEF n, items
  <1>9. S = T
    BY <1>5, <1>8 DEF Surjection, ToSet
  <1>10. Len(items) = n
    BY <1>4, <1>5
  <1>11. /\ Found(items) \in [1 .. n -> T]
         /\ \A j, k \in 1 .. n : Found(items)[j] = Found(items)[k] => j = k
         /\ \A x \in T : \E k \in 1 .. n : Found(items)[k] = x
    BY <1>3, <1>9, SortedIs DEF Found, n
  <1>12. T = {Found(items)[k] : k \in 1 .. n}
    BY <1>11
  <1>13. r.quantities \in [1 .. n -> Nat]
    <2>1. 1 .. MaxQuantity \subseteq Nat
      BY QuantityAssumption
    <2>2. DOMAIN items = 1 .. n
      BY <1>5
    <2> QED  BY <1>1, <2>1, <2>2 DEF items
  <1> QED  BY <1>1, <1>4, <1>5, <1>9, <1>10, <1>11, <1>12, <1>13 DEF items

\* The parameters of a call.
LEMMA RequestKinds ==
    /\ \A r \in Requests :
          \/ r.type = "NEW_ORDER" /\ r \in Orders
          \/ r.type = "PAYMENT" /\ r.d \in DIds /\ r.c \in CIds
          \/ r.type = "DELIVERY"
    /\ NoRequest \notin Requests
PROOF
  <1>1. \A r \in Orders : r.type = "NEW_ORDER"
    BY DEF Orders
  <1>2. \A r \in Requests :
          \/ r.type = "NEW_ORDER" /\ r \in Orders
          \/ r.type = "PAYMENT" /\ r.d \in DIds /\ r.c \in CIds
          \/ r.type = "DELIVERY"
    BY <1>1 DEF Requests
  <1>3. NoRequest.type = "NONE"
    BY DEF NoRequest
  <1> QED  BY <1>2, <1>3

-----------------------------------------------------------------------------
(***************************************************************************)
(* Rows.                                                                   *)
(***************************************************************************)

\* The tables are different, and so are the rows of a table with different keys.
LEMMA RowKinds ==
    /\ WarehouseRow[1] = "warehouse"
    /\ \A d : DistrictRow(d)[1] = "district" /\ DistrictRow(d)[2] = d
    /\ \A d, o : OrderRow(d, o)[1] = "orders" /\ OrderRow(d, o)[2] = d /\ OrderRow(d, o)[3] = o
    /\ \A d, o : NewRow(d, o)[1] = "new_order" /\ NewRow(d, o)[2] = d /\ NewRow(d, o)[3] = o
    /\ \A d, c : /\ CustomerRow(d, c)[1] = "customer" /\ CustomerRow(d, c)[2] = d
                 /\ CustomerRow(d, c)[3] = c
    /\ \A i, n : HistoryRow(i, n)[1] = "history" /\ HistoryRow(i, n)[2] = i /\ HistoryRow(i, n)[3] = n
    /\ \A n : StockRow(n)[1] = "stock" /\ StockRow(n)[3] = n
PROOF
  BY DEF WarehouseRow, DistrictRow, OrderRow, NewRow, CustomerRow, HistoryRow, StockRow

\* A row is the one its table's operator names.
LEMMA RowsOfTables ==
    \A row \in Rows :
        \/ row[1] = "warehouse" /\ row = WarehouseRow
        \/ row[1] = "district" /\ row[2] \in DIds /\ row = DistrictRow(row[2])
        \/ row[1] = "orders" /\ row[2] \in DIds /\ row[3] \in Nat /\ row = OrderRow(row[2], row[3])
        \/ row[1] = "new_order" /\ row[2] \in DIds /\ row[3] \in Nat /\ row = NewRow(row[2], row[3])
        \/ row[1] = "customer" /\ row[2] \in DIds /\ row[3] \in CIds
              /\ row = CustomerRow(row[2], row[3])
        \/ row[1] = "stock" /\ row[3] \in Items /\ row = StockRow(row[3])
        \/ row[1] = "history" /\ row[2] \in Clients /\ row[3] \in Nat
              /\ row = HistoryRow(row[2], row[3])
PROOF
  BY DEF WarehouseRow, DistrictRow, OrderRow, NewRow, CustomerRow, HistoryRow, StockRow,
         OrderRows, NewRows, CustomerRows, StockRows, HistoryRows, Rows

\* And they are all rows there may be.
LEMMA RowsThereMayBe ==
    /\ WarehouseRow \in Rows
    /\ \A d \in DIds : DistrictRow(d) \in Rows
    /\ \A d \in DIds, o \in Nat : OrderRow(d, o) \in Rows /\ NewRow(d, o) \in Rows
    /\ \A d \in DIds, c \in CIds : CustomerRow(d, c) \in CustomerRows
    /\ \A n \in Items : StockRow(n) \in StockRows
    /\ \A i \in Clients, n \in Nat : HistoryRow(i, n) \in Rows
    /\ CustomerRows \cup StockRows \subseteq Rows
PROOF
  BY DEF WarehouseRow, DistrictRow, OrderRow, NewRow, CustomerRow, HistoryRow, StockRow,
         OrderRows, NewRows, CustomerRows, StockRows, HistoryRows, Rows

\* The orders, and the new orders, of a district are those that have a row.
LEMMA NumberedRows ==
    ASSUME NEW rows, DOMAIN rows \subseteq Rows, NEW d \in DIds
    PROVE  /\ \A o : o \in Numbered(rows, "orders", d) <=> OrderRow(d, o) \in DOMAIN rows
           /\ \A o : o \in Numbered(rows, "new_order", d) <=> NewRow(d, o) \in DOMAIN rows
           /\ Numbered(rows, "orders", d) \subseteq Nat
           /\ Numbered(rows, "new_order", d) \subseteq Nat
PROOF
  <1>1. \A row \in Rows : row[1] = "orders" => row[3] \in Nat /\ row = OrderRow(row[2], row[3])
    BY RowsOfTables
  <1>2. \A row \in Rows : row[1] = "new_order" => row[3] \in Nat /\ row = NewRow(row[2], row[3])
    BY RowsOfTables
  <1>3. \A o : OrderRow(d, o)[1] = "orders" /\ OrderRow(d, o)[2] = d /\ OrderRow(d, o)[3] = o
    BY RowKinds
  <1>4. \A o : NewRow(d, o)[1] = "new_order" /\ NewRow(d, o)[2] = d /\ NewRow(d, o)[3] = o
    BY RowKinds
  <1> HIDE DEF Rows
  <1> QED  BY <1>1, <1>2, <1>3, <1>4 DEF Numbered

\* The values of a store that is one, by table.
LEMMA StoreFits ==
    ASSUME NEW rows, StoreOK(rows)
    PROVE  /\ rows[WarehouseRow] \in [ytd : Nat]
           /\ \A d \in DIds : rows[DistrictRow(d)] \in [next : Nat \ {0}, ytd : Nat]
           /\ \A d \in DIds, c \in CIds :
                 /\ CustomerRow(d, c) \in DOMAIN rows
                 /\ rows[CustomerRow(d, c)] \in [balance : Int, paid : Nat]
           /\ \A n \in Items : /\ StockRow(n) \in DOMAIN rows
                               /\ rows[StockRow(n)] \in [ytd : Nat, count : Nat]
           /\ \A d \in DIds, o \in Nat : OrderRow(d, o) \in DOMAIN rows =>
                 rows[OrderRow(d, o)] \in IF o \in CIds THEN LoadedOrders ELSE PlacedOrders
PROOF
  <1>1. \A d \in DIds, c \in CIds : CustomerRow(d, c) \in DOMAIN rows
    BY RowsThereMayBe DEF StoreOK
  <1>2. \A n \in Items : StockRow(n) \in DOMAIN rows
    BY RowsThereMayBe DEF StoreOK
  <1> QED  BY <1>1, <1>2, RowKinds DEF StoreOK, Fits

\* The oldest new order of a district is one of them.
LEMMA OldestIs ==
    ASSUME NEW rows, DOMAIN rows \subseteq Rows, NEW d \in DIds,
           Numbered(rows, "new_order", d) # {}
    PROVE  /\ Oldest(rows, d) \in Numbered(rows, "new_order", d)
           /\ Oldest(rows, d) \in Nat
           /\ NewRow(d, Oldest(rows, d)) \in DOMAIN rows
           /\ \A o \in Numbered(rows, "new_order", d) : Oldest(rows, d) <= o
PROOF
  <1> DEFINE S == Numbered(rows, "new_order", d)
  <1>1. S \subseteq Nat /\ \A o : o \in S <=> NewRow(d, o) \in DOMAIN rows
    BY NumberedRows
  <1> HIDE DEF S
  <1>2. \E x \in S : \A y \in S : x <= y
    BY <1>1, LeastNatural DEF S
  <1>3. Min(S) \in S /\ \A y \in S : Min(S) <= y
    BY <1>2 DEF Min
  <1> QED  BY <1>1, <1>3 DEF Oldest, S

-----------------------------------------------------------------------------
(***************************************************************************)
(* The writes of a transaction.                                            *)
(***************************************************************************)

\* Two elements, a sequence, and one more.
LEMMA Surrounded ==
    ASSUME NEW m \in Nat, NEW f, f = [k \in 1 .. m |-> f[k]], NEW a, NEW b, NEW c
    PROVE  LET s == <<a, b>> \o f \o <<c>> IN
           /\ Len(s) = m + 3
           /\ s = [k \in 1 .. m + 3 |-> s[k]]
           /\ s[1] = a /\ s[2] = b /\ s[m + 3] = c
           /\ \A k \in 1 .. m : s[k + 2] = f[k]
PROOF
  <1> DEFINE S == {a, b, c} \cup {f[k] : k \in 1 .. m}
  <1>1. <<a, b>> \in Seq(S) /\ <<c>> \in Seq(S) /\ f \in Seq(S) /\ Len(f) = m
    OBVIOUS
  <1> HIDE DEF S
  <1>2. /\ <<a, b>> \o f \in Seq(S) /\ Len(<<a, b>> \o f) = m + 2
        /\ \A k \in 1 .. m + 2 : (<<a, b>> \o f)[k] = IF k <= 2 THEN <<a, b>>[k] ELSE f[k - 2]
    BY <1>1, ConcatProperties
  <1> QED  BY <1>1, <1>2, ConcatProperties

\* Those of an order: the district, the row of NEW_ORDER, the stock of each
\* item, and the order.
LEMMA NewOrderEntries ==
    ASSUME NEW s, NEW r \in Orders, ~ Invalid(r)
    PROVE  LET m == Len(r.items)
               o == s[DistrictRow(r.d)].next
               W == NewOrderWrites(s, r)
           IN
           /\ m \in Nat
           /\ Len(W) = m + 3
           /\ W = [k \in 1 .. m + 3 |-> W[k]]
           /\ W[1] = <<DistrictRow(r.d), [s[DistrictRow(r.d)] EXCEPT !.next = o + 1]>>
           /\ W[2] = <<NewRow(r.d, o), [new |-> TRUE]>>
           /\ \A k \in 1 .. m : W[k + 2] = StockWrite(s, r, k)
           /\ W[m + 3] = <<OrderRow(r.d, o), NewOrder(r)>>
           /\ W[1][1] = DistrictRow(r.d) /\ W[2][1] = NewRow(r.d, o)
           /\ W[m + 3][1] = OrderRow(r.d, o)
           /\ W[2][2] = [new |-> TRUE] /\ W[m + 3][2] = NewOrder(r)
PROOF
  <1> DEFINE m == Len(r.items)
             f == [k \in 1 .. m |-> StockWrite(s, r, k)]
  <1>1. m \in Nat
    BY ItemsFound
  <1> HIDE DEF m
  <1>2. f = [k \in 1 .. m |-> f[k]] /\ \A k \in 1 .. m : f[k] = StockWrite(s, r, k)
    OBVIOUS
  <1> DEFINE o == s[DistrictRow(r.d)].next
             first  == <<DistrictRow(r.d), [s[DistrictRow(r.d)] EXCEPT !.next = o + 1]>>
             second == <<NewRow(r.d, o), [new |-> TRUE]>>
             last   == <<OrderRow(r.d, o), NewOrder(r)>>
             W      == NewOrderWrites(s, r)
  <1>3. W = <<first, second>> \o f \o <<last>>
    BY DEF NewOrderWrites, m
  <1>4. first[1] = DistrictRow(r.d) /\ second[1] = NewRow(r.d, o) /\ last[1] = OrderRow(r.d, o)
    OBVIOUS
  <1>5. second[2] = [new |-> TRUE] /\ last[2] = NewOrder(r)
    OBVIOUS
  <1> HIDE DEF f, W, first, second, last
  <1>6. /\ Len(W) = m + 3 /\ W = [k \in 1 .. m + 3 |-> W[k]]
        /\ W[1] = first /\ W[2] = second /\ W[m + 3] = last
        /\ \A k \in 1 .. m : W[k + 2] = f[k]
    BY <1>1, <1>2, <1>3, Surrounded
  <1>7. W[1][1] = DistrictRow(r.d) /\ W[2][1] = NewRow(r.d, o) /\ W[m + 3][1] = OrderRow(r.d, o)
    BY <1>6, <1>4
  <1>8. W[2][2] = [new |-> TRUE] /\ W[m + 3][2] = NewOrder(r)
    BY <1>6, <1>5
  <1> QED  BY <1>1, <1>2, <1>6, <1>7, <1>8 DEF m, W, first, second, last

\* Three writes for each of the districts.
LEMMA InThrees ==
    ASSUME NEW n \in Nat, NEW k \in 1 .. 3 * n
    PROVE  /\ (k + 2) \div 3 \in 1 .. n
           /\ ((k - 1) % 3) + 1 \in 1 .. 3
           /\ k = 3 * ((k + 2) \div 3) + (((k - 1) % 3) + 1) - 3
PROOF OBVIOUS

\* and every such pair of positions is one of 1 .. 3n.
LEMMA FromThrees ==
    ASSUME NEW n \in Nat, NEW q \in 1 .. n, NEW t \in 1 .. 3
    PROVE  LET k == 3 * q + t - 3 IN
           /\ k \in 1 .. 3 * n
           /\ (k + 2) \div 3 = q
           /\ ((k - 1) % 3) + 1 = t
PROOF OBVIOUS

\* The districts of a delivery.
Due(rows) == {d \in DIds : Numbered(rows, "new_order", d) # {}}

\* The writes of a delivery are those for the districts that have new orders.
LEMMA DeliveryEntries ==
    ASSUME NEW s
    PROVE  LET W  == DeliveryWrites(s)
               n  == Cardinality(Due(s))
               ds == Sorted(Due(s))
           IN
           /\ n \in Nat
           /\ Len(W) = 3 * n
           /\ W = [k \in 1 .. 3 * n |-> W[k]]
           /\ ds \in [1 .. n -> Due(s)]
           /\ \A j, k \in 1 .. n : ds[j] = ds[k] => j = k
           /\ \A k \in 1 .. 3 * n :
                 /\ W[k] = DistrictDelivery(s, ds[(k + 2) \div 3])[((k - 1) % 3) + 1]
                 /\ (k + 2) \div 3 \in 1 .. n
           /\ \A d \in Due(s) : \E q \in 1 .. n : \A t \in 1 .. 3 :
                 /\ 3 * q + t - 3 \in 1 .. 3 * n
                 /\ W[3 * q + t - 3] = DistrictDelivery(s, d)[t]
PROOF
  <1> DEFINE W  == DeliveryWrites(s)
             n  == Cardinality(Due(s))
             ds == Sorted(Due(s))
  <1>1. DIds \subseteq Nat /\ IsFiniteSet(DIds) /\ Due(s) \subseteq DIds
    BY DistrictsAssumption, FS_Interval DEF DIds, Due
  <1>2. IsFiniteSet(Due(s))
    BY <1>1, FS_Subset
  <1>3. /\ n \in Nat /\ ds \in [1 .. n -> Due(s)]
        /\ \A j, k \in 1 .. n : ds[j] = ds[k] => j = k
        /\ \A d \in Due(s) : \E q \in 1 .. n : ds[q] = d
    BY <1>1, <1>2, SortedIs
  <1> HIDE DEF n
  <1>4. Len(ds) = n
    BY <1>3
  <1>5. W = [k \in 1 .. 3 * n |-> DistrictDelivery(s, ds[(k + 2) \div 3])[((k - 1) % 3) + 1]]
    BY <1>4 DEF DeliveryWrites, Due
  <1> HIDE DEF W, ds
  <1>6. \A k \in 1 .. 3 * n :
           /\ W[k] = DistrictDelivery(s, ds[(k + 2) \div 3])[((k - 1) % 3) + 1]
           /\ (k + 2) \div 3 \in 1 .. n
    BY <1>3, <1>5, InThrees
  <1>7. ASSUME NEW d \in Due(s)
        PROVE  \E q \in 1 .. n : \A t \in 1 .. 3 :
                  3 * q + t - 3 \in 1 .. 3 * n /\ W[3 * q + t - 3] = DistrictDelivery(s, d)[t]
    <2>1. PICK q \in 1 .. n : ds[q] = d
      BY <1>3
    <2>2. ASSUME NEW t \in 1 .. 3
          PROVE  3 * q + t - 3 \in 1 .. 3 * n /\ W[3 * q + t - 3] = DistrictDelivery(s, d)[t]
      <3> DEFINE k == 3 * q + t - 3
      <3>1. k \in 1 .. 3 * n /\ (k + 2) \div 3 = q /\ ((k - 1) % 3) + 1 = t
        BY <1>3, FromThrees
      <3> HIDE DEF k
      <3> QED  BY <1>6, <2>1, <3>1 DEF k
    <2> QED  BY <2>2
  <1>8. Len(W) = 3 * n /\ W = [k \in 1 .. 3 * n |-> W[k]]
    BY <1>3, <1>5
  <1> QED  BY <1>3, <1>6, <1>7, <1>8 DEF W, ds, n

\* The oldest new order of a district, and its customer, are there.
LEMMA DueOrder ==
    ASSUME NEW s, StoreOK(s), NEW d \in Due(s)
    PROVE  LET o == Oldest(s, d)
               order == s[OrderRow(d, o)]
           IN
           /\ d \in DIds /\ o \in Nat
           /\ NewRow(d, o) \in DOMAIN s /\ OrderRow(d, o) \in DOMAIN s
           /\ \A p \in Nat : NewRow(d, p) \in DOMAIN s => o <= p
           /\ order \in IF o \in CIds THEN LoadedOrders ELSE PlacedOrders
           /\ order.c \in CIds /\ order.amount \in Int
           /\ CustomerRow(d, order.c) \in DOMAIN s
           /\ s[CustomerRow(d, order.c)] \in [balance : Int, paid : Nat]
PROOF
  <1> DEFINE o == Oldest(s, d)
             order == s[OrderRow(d, o)]
  <1>1. d \in DIds /\ DOMAIN s \subseteq Rows /\ Numbered(s, "new_order", d) # {}
    BY DEF Due, StoreOK
  <1>2. /\ o \in Nat /\ NewRow(d, o) \in DOMAIN s
        /\ \A p \in Numbered(s, "new_order", d) : o <= p
    BY <1>1, OldestIs
  <1>3. \A p : p \in Numbered(s, "new_order", d) <=> NewRow(d, p) \in DOMAIN s
    BY <1>1, NumberedRows
  <1> HIDE DEF o
  <1>4. OrderRow(d, o) \in DOMAIN s
    BY <1>1, <1>2 DEF StoreOK
  <1>5. order \in IF o \in CIds THEN LoadedOrders ELSE PlacedOrders
    BY <1>1, <1>2, <1>4, StoreFits
  <1> HIDE DEF order
  <1>6. order.c \in CIds /\ order.amount \in Int
    BY <1>5 DEF LoadedOrders, PlacedOrders
  <1>7. CustomerRow(d, order.c) \in DOMAIN s /\ s[CustomerRow(d, order.c)] \in [balance : Int, paid : Nat]
    BY <1>1, <1>6, StoreFits
  <1> QED  BY <1>1, <1>2, <1>3, <1>4, <1>5, <1>6, <1>7 DEF o, order

\* What is written for it.
LEMMA DistrictRows ==
    ASSUME NEW s, NEW d
    PROVE  LET o == Oldest(s, d)
               payer == CustomerRow(d, s[OrderRow(d, o)].c)
               W == DistrictDelivery(s, d)
           IN
           /\ W[1] = <<OrderRow(d, o), [s[OrderRow(d, o)] EXCEPT !.delivered = TRUE]>>
           /\ W[2] = <<payer, [s[payer] EXCEPT !.balance = @ + s[OrderRow(d, o)].amount]>>
           /\ W[3] = <<NewRow(d, o), Gone>>
PROOF BY DEF DistrictDelivery

\* A list of writes, of which no two are of one document.
Distinct(W) ==
    /\ Len(W) \in Nat
    /\ W = [k \in 1 .. Len(W) |-> W[k]]
    /\ \A k \in 1 .. Len(W) : W[k][1] \in Rows
    /\ \A j, k \in 1 .. Len(W) : W[j][1] = W[k][1] => j = k

\* What a new order writes is a sequence of different documents: its district, the
\* order, its new order, and the stock of each of its items, which are different.
LEMMA NewOrderDistinct ==
    ASSUME NEW s, StoreOK(s), NEW r \in Orders
    PROVE  Distinct(NewOrderWrites(s, r))
PROOF
  <1> DEFINE o == s[DistrictRow(r.d)].next
             W == NewOrderWrites(s, r)
             m == Len(r.items)
  <1>1. r.d \in DIds
    BY ItemsFound
  <1>2. o \in Nat
    BY <1>1, StoreFits
  <1>3. CASE Invalid(r)
    <2>1. W = <<<<DistrictRow(r.d), [s[DistrictRow(r.d)] EXCEPT !.next = o + 1]>>>>
      BY <1>3 DEF NewOrderWrites
    <2> HIDE DEF W
    <2>2. Len(W) = 1 /\ W = [k \in 1 .. 1 |-> W[k]] /\ W[1][1] = DistrictRow(r.d)
      BY <2>1
    <2>3. W[1][1] \in Rows
      BY <1>1, <2>2, RowsThereMayBe
    <2> QED  BY <2>2, <2>3 DEF Distinct, W
  <1>4. CASE ~ Invalid(r)
    <2>1. /\ m \in Nat /\ Len(W) = m + 3 /\ W = [k \in 1 .. m + 3 |-> W[k]]
          /\ W[1][1] = DistrictRow(r.d) /\ W[2][1] = NewRow(r.d, o)
          /\ \A k \in 1 .. m : W[k + 2][1] = StockRow(Found(r.items)[k])
          /\ W[m + 3][1] = OrderRow(r.d, o)
      <3>1. /\ m \in Nat /\ Len(W) = m + 3 /\ W = [k \in 1 .. m + 3 |-> W[k]]
            /\ \A k \in 1 .. m : W[k + 2] = StockWrite(s, r, k)
            /\ W[1][1] = DistrictRow(r.d) /\ W[2][1] = NewRow(r.d, o)
            /\ W[m + 3][1] = OrderRow(r.d, o)
        BY <1>4, NewOrderEntries
      <3>2. \A k : StockWrite(s, r, k)[1] = StockRow(Found(r.items)[k])
        BY DEF StockWrite
      <3> HIDE DEF W, m
      <3>3. \A k \in 1 .. m : W[k + 2][1] = StockRow(Found(r.items)[k])
        BY <3>1, <3>2
      <3> QED  BY <3>1, <3>3
    <2>2. /\ \A k \in 1 .. m : Found(r.items)[k] \in Items
          /\ \A j, k \in 1 .. m : Found(r.items)[j] = Found(r.items)[k] => j = k
      BY ItemsFound
    <2> HIDE DEF W, m
    <2>3. ASSUME NEW k \in 1 .. m + 3
          PROVE  \/ k = 1 \/ k = 2 \/ k = m + 3
                 \/ /\ k - 2 \in 1 .. m /\ W[k][1] = StockRow(Found(r.items)[k - 2])
      <3> SUFFICES ASSUME k # 1, k # 2, k # m + 3
                   PROVE  k - 2 \in 1 .. m /\ W[k][1] = StockRow(Found(r.items)[k - 2])
        OBVIOUS
      <3>1. k - 2 \in 1 .. m /\ (k - 2) + 2 = k
        BY <2>1
      <3> QED  BY <2>1, <3>1
    <2>4. \A k \in 1 .. m + 3 : W[k][1] \in Rows
      BY <1>1, <1>2, <2>1, <2>2, <2>3, RowsThereMayBe
    <2>5. ASSUME NEW j \in 1 .. m + 3, NEW k \in 1 .. m + 3, W[j][1] = W[k][1]
          PROVE  j = k
      <3>1. CASE k - 2 \in 1 .. m /\ W[k][1] = StockRow(Found(r.items)[k - 2])
        <4>1. j - 2 \in 1 .. m /\ W[j][1] = StockRow(Found(r.items)[j - 2])
          BY <2>1, <2>3, <2>5, <3>1, RowKinds
        <4>2. Found(r.items)[j - 2] = Found(r.items)[k - 2]
          BY <2>5, <3>1, <4>1, RowKinds
        <4> QED  BY <2>2, <3>1, <4>1, <4>2
      <3>2. CASE j - 2 \in 1 .. m /\ W[j][1] = StockRow(Found(r.items)[j - 2])
        <4>1. k - 2 \in 1 .. m /\ W[k][1] = StockRow(Found(r.items)[k - 2])
          BY <2>1, <2>3, <2>5, <3>2, RowKinds
        <4> QED  BY <3>1, <4>1
      <3>3. CASE j \in {1, 2, m + 3} /\ k \in {1, 2, m + 3}
        BY <2>1, <2>5, <3>3, RowKinds
      <3> QED  BY <2>3, <3>1, <3>2, <3>3
    <2> QED  BY <2>1, <2>4, <2>5 DEF Distinct, W
  <1> QED  BY <1>3, <1>4

\* A payment writes four: the district, the warehouse, the customer, the receipt.
LEMMA PaymentDistinct ==
    ASSUME NEW s, NEW i \in Clients, ended[i] + failures[i] \in Nat,
           NEW r, r.d \in DIds, r.c \in CIds
    PROVE  Distinct(PaymentWrites(s, i, r))
PROOF
  <1> DEFINE W == PaymentWrites(s, i, r)
  <1>1. /\ Len(W) = 4 /\ W = [k \in 1 .. 4 |-> W[k]]
        /\ W[1][1] = DistrictRow(r.d) /\ W[2][1] = WarehouseRow
        /\ W[3][1] = CustomerRow(r.d, r.c) /\ W[4][1] = HistoryRow(i, ended[i] + failures[i])
    BY DEF PaymentWrites
  <1> HIDE DEF W
  <1>2. \A k \in 1 .. 4 : W[k][1] \in Rows
    BY <1>1, RowsThereMayBe
  <1>3. \A j, k \in 1 .. 4 : W[j][1] = W[k][1] => j = k
    BY <1>1, RowKinds
  <1> QED  BY <1>1, <1>2, <1>3 DEF Distinct, W

\* A delivery writes three for each district it delivers from.
LEMMA DeliveryDistinct ==
    ASSUME NEW s, StoreOK(s)
    PROVE  Distinct(DeliveryWrites(s))
PROOF
  <1> DEFINE W  == DeliveryWrites(s)
             n  == Cardinality(Due(s))
             ds == Sorted(Due(s))
             At(k) == ds[(k + 2) \div 3]
             Of(k) == ((k - 1) % 3) + 1
  <1>1. /\ n \in Nat /\ Len(W) = 3 * n /\ W = [k \in 1 .. 3 * n |-> W[k]]
        /\ ds \in [1 .. n -> Due(s)]
        /\ \A j, k \in 1 .. n : ds[j] = ds[k] => j = k
        /\ \A k \in 1 .. 3 * n : W[k] = DistrictDelivery(s, At(k))[Of(k)] /\ (k + 2) \div 3 \in 1 .. n
    BY DeliveryEntries
  <1>2. ASSUME NEW k \in 1 .. 3 * n
        PROVE  /\ At(k) \in Due(s) /\ Of(k) \in 1 .. 3
               /\ k = 3 * ((k + 2) \div 3) + Of(k) - 3
    BY <1>1, InThrees
  <1> HIDE DEF W, n, ds
  <1>3. ASSUME NEW d \in Due(s), NEW t \in 1 .. 3
        PROVE  /\ DistrictDelivery(s, d)[t][1] \in Rows /\ DistrictDelivery(s, d)[t][1][2] = d
               /\ DistrictDelivery(s, d)[t][1][1] =
                     IF t = 1 THEN "orders" ELSE IF t = 2 THEN "customer" ELSE "new_order"
    <2>1. /\ DistrictDelivery(s, d)[1][1] = OrderRow(d, Oldest(s, d))
          /\ DistrictDelivery(s, d)[2][1] = CustomerRow(d, s[OrderRow(d, Oldest(s, d))].c)
          /\ DistrictDelivery(s, d)[3][1] = NewRow(d, Oldest(s, d))
      BY DEF DistrictDelivery
    <2>2. d \in DIds /\ Oldest(s, d) \in Nat /\ s[OrderRow(d, Oldest(s, d))].c \in CIds
      BY DueOrder
    <2> QED  BY <2>1, <2>2, RowKinds, RowsThereMayBe
  <1> HIDE DEF At, Of
  <1>6. ASSUME NEW k \in 1 .. 3 * n
        PROVE  /\ W[k][1] \in Rows /\ W[k][1][2] = At(k)
               /\ W[k][1][1] = IF Of(k) = 1 THEN "orders" ELSE IF Of(k) = 2 THEN "customer" ELSE "new_order"
    <2>1. At(k) \in Due(s) /\ Of(k) \in 1 .. 3 /\ W[k] = DistrictDelivery(s, At(k))[Of(k)]
      BY <1>1, <1>2
    <2> QED  BY <1>3, <2>1
  <1>4. \A k \in 1 .. 3 * n : W[k][1] \in Rows
    BY <1>6
  <1>5. ASSUME NEW j \in 1 .. 3 * n, NEW k \in 1 .. 3 * n, W[j][1] = W[k][1]
        PROVE  j = k
    <2>1. At(j) = At(k) /\ Of(j) = Of(k)
      BY <1>2, <1>5, <1>6
    <2>2. (j + 2) \div 3 = (k + 2) \div 3
      BY <1>1, <2>1 DEF At
    <2> QED  BY <1>2, <2>1, <2>2
  <1> QED  BY <1>1, <1>4, <1>5 DEF Distinct, W

\* Whatever it does, a transaction writes a document once.
LEMMA WritesAreDistinct ==
    ASSUME NEW s, StoreOK(s), NEW i \in Clients, request[i] \in Requests,
           ended[i] + failures[i] \in Nat
    PROVE  Distinct(WritesOf(s, i))
PROOF
  <1>1. CASE request[i].type = "NEW_ORDER"
    <2>1. request[i] \in Orders
      BY <1>1, RequestKinds
    <2>2. WritesOf(s, i) = NewOrderWrites(s, request[i])
      BY <1>1 DEF WritesOf
    <2> QED  BY <2>1, <2>2, NewOrderDistinct
  <1>2. CASE request[i].type = "PAYMENT"
    <2>1. request[i].d \in DIds /\ request[i].c \in CIds
      BY <1>2, RequestKinds
    <2>2. WritesOf(s, i) = PaymentWrites(s, i, request[i])
      BY <1>2 DEF WritesOf
    <2> QED  BY <2>1, <2>2, PaymentDistinct
  <1>3. CASE request[i].type = "DELIVERY"
    <2>1. WritesOf(s, i) = DeliveryWrites(s)
      BY <1>3 DEF WritesOf
    <2> QED  BY <2>1, DeliveryDistinct
  <1> QED  BY <1>1, <1>2, <1>3, RequestKinds


-----------------------------------------------------------------------------
(***************************************************************************)
(* The invariant holds at first.                                           *)
(***************************************************************************)

\* The orders of a district are those before its next.
LEMMA OrdersThereAre ==
    ASSUME NEW rows, StoreOK(rows), NEW d \in DIds
    PROVE  /\ Numbered(rows, "orders", d) = 1 .. rows[DistrictRow(d)].next - 1
           /\ IsFiniteSet(Numbered(rows, "orders", d))
           /\ Numbered(rows, "new_order", d) \subseteq Numbered(rows, "orders", d)
PROOF
  <1>1. rows[DistrictRow(d)].next \in Nat
    BY StoreFits
  <1>2. /\ \A o : o \in Numbered(rows, "orders", d) <=> OrderRow(d, o) \in DOMAIN rows
        /\ \A o : o \in Numbered(rows, "new_order", d) <=> NewRow(d, o) \in DOMAIN rows
        /\ Numbered(rows, "orders", d) \subseteq Nat /\ Numbered(rows, "new_order", d) \subseteq Nat
    BY NumberedRows DEF StoreOK
  <1>3. \A o \in Nat : /\ OrderRow(d, o) \in DOMAIN rows <=> o \in 1 .. rows[DistrictRow(d)].next - 1
                       /\ NewRow(d, o) \in DOMAIN rows => OrderRow(d, o) \in DOMAIN rows
    BY DEF StoreOK
  <1>4. 1 .. rows[DistrictRow(d)].next - 1 \subseteq Nat
    BY <1>1
  <1>5. Numbered(rows, "orders", d) = 1 .. rows[DistrictRow(d)].next - 1
    BY <1>2, <1>3, <1>4
  <1>6. Numbered(rows, "new_order", d) \subseteq Numbered(rows, "orders", d)
    BY <1>2, <1>3
  <1>7. IsFiniteSet(1 .. rows[DistrictRow(d)].next - 1)
    BY <1>1, FS_Interval
  <1> QED  BY <1>5, <1>6, <1>7

\* What the load leaves of the warehouse, the districts and the rest.
LEMMA LoadedRowsAre ==
    /\ WarehouseRow \in LoadedRows /\ LoadedValue(WarehouseRow) = [ytd |-> 0]
    /\ \A d \in DIds : /\ DistrictRow(d) \in LoadedRows
                      /\ LoadedValue(DistrictRow(d)) = [next |-> NumCustomers + 1, ytd |-> 0]
    /\ CustomerRows \cup StockRows \subseteq LoadedRows
    /\ \A row \in CustomerRows : LoadedValue(row) = [balance |-> 0, paid |-> 0]
    /\ \A row \in StockRows : LoadedValue(row) = [ytd |-> 0, count |-> 0]
    /\ \A row \in LoadedRows : row[1] # "history"
    /\ \A row \in LoadedRows : row[1] = "orders" => row[3] \in CIds
    /\ \A d \in DIds : \A o :
          /\ OrderRow(d, o) \in LoadedRows <=> o \in CIds
          /\ NewRow(d, o) \in LoadedRows <=> o \in CIds /\ LoadedNew(o)
    /\ \A d, o : LoadedValue(OrderRow(d, o)) =
          [c |-> o, amount |-> IF LoadedNew(o) THEN 1 ELSE 0, delivered |-> ~ LoadedNew(o)]
PROOF
  <1>1. WarehouseRow \in LoadedRows /\ \A d \in DIds : DistrictRow(d) \in LoadedRows
    BY DEF LoadedRows
  <1>2. CustomerRows \cup StockRows \subseteq LoadedRows
    BY DEF LoadedRows, CustomerRows, StockRows, CustomerRow, StockRow
  <1>3. LoadedValue(WarehouseRow) = [ytd |-> 0]
    BY RowKinds DEF LoadedValue
  <1>4. \A d : LoadedValue(DistrictRow(d)) = [next |-> NumCustomers + 1, ytd |-> 0]
    BY RowKinds DEF LoadedValue
  <1>5. \A row \in CustomerRows : LoadedValue(row) = [balance |-> 0, paid |-> 0]
    BY DEF CustomerRows, LoadedValue
  <1>6. \A row \in StockRows : LoadedValue(row) = [ytd |-> 0, count |-> 0]
    BY DEF StockRows, LoadedValue
  <1>7. \A row \in LoadedRows : row[1] # "history"
    BY RowKinds DEF LoadedRows
  <1>8. \A row \in LoadedRows : row[1] = "orders" => row[3] \in CIds
    BY RowKinds DEF LoadedRows
  <1>9. ASSUME NEW d \in DIds, NEW o
        PROVE  /\ OrderRow(d, o) \in LoadedRows <=> o \in CIds
               /\ NewRow(d, o) \in LoadedRows <=> o \in CIds /\ LoadedNew(o)
    <2>1. OrderRow(d, o) \in LoadedRows => o \in CIds
      BY RowKinds DEF LoadedRows
    <2>2. NewRow(d, o) \in LoadedRows => o \in CIds /\ LoadedNew(o)
      BY RowKinds DEF LoadedRows
    <2> QED  BY <2>1, <2>2 DEF LoadedRows
  <1>10. \A d, o : LoadedValue(OrderRow(d, o)) =
            [c |-> o, amount |-> IF LoadedNew(o) THEN 1 ELSE 0, delivered |-> ~ LoadedNew(o)]
    BY RowKinds DEF LoadedValue
  <1> QED  BY <1>1, <1>2, <1>3, <1>4, <1>5, <1>6, <1>7, <1>8, <1>9, <1>10

\* The load leaves the rows StoreOK asks for.
LEMMA LoadedStore == StoreOK(Loaded)
PROOF
  <1>1. DOMAIN Loaded = LoadedRows /\ \A row \in LoadedRows : Loaded[row] = LoadedValue(row)
    BY DEF Loaded
  <1>2. CIds \subseteq Nat /\ CIds = 1 .. (NumCustomers + 1) - 1
        /\ NumCustomers + 1 \in Nat \ {0} /\ NumCustomers < NumCustomers + 1
    BY CustomersAssumption DEF CIds
  <1>3. LoadedRows \subseteq Rows
    BY RowsThereMayBe, <1>2 DEF LoadedRows
  <1>4. \A row \in LoadedRows : Fits(row, LoadedValue(row))
    <2>1. \A row \in LoadedRows : row[1] = "new_order" => LoadedValue(row) = [new |-> TRUE]
      BY DEF LoadedValue
    <2>2. \A row \in LoadedRows : row[1] = "orders" => LoadedValue(row) \in LoadedOrders
      BY LoadedRowsAre DEF LoadedValue, LoadedOrders
    <2> QED  BY <1>2, <2>1, <2>2, LoadedRowsAre DEF Fits, LoadedValue
  <1>5. \A d \in DIds : Loaded[DistrictRow(d)].next = NumCustomers + 1
    BY <1>1, LoadedRowsAre
  <1>6. ASSUME NEW d \in DIds, NEW o \in Nat
        PROVE  /\ OrderRow(d, o) \in LoadedRows <=> o \in 1 .. Loaded[DistrictRow(d)].next - 1
               /\ NewRow(d, o) \in LoadedRows => OrderRow(d, o) \in LoadedRows
    <2>1. OrderRow(d, o) \in LoadedRows <=> o \in CIds
      BY LoadedRowsAre
    <2>2. NewRow(d, o) \in LoadedRows => o \in CIds
      BY LoadedRowsAre
    <2> QED  BY <1>2, <1>5, <2>1, <2>2
  <1>7. /\ WarehouseRow \in LoadedRows /\ \A d \in DIds : DistrictRow(d) \in LoadedRows
        /\ CustomerRows \cup StockRows \subseteq LoadedRows
    BY LoadedRowsAre
  <1>8. \A d \in DIds : NumCustomers < Loaded[DistrictRow(d)].next
    BY <1>2, <1>5
  <1> HIDE DEF Loaded
  <1> QED  BY <1>1, <1>3, <1>4, <1>6, <1>7, <1>8 DEF StoreOK

\* Their numbers.
LEMMA LoadedNumbers ==
    ASSUME NEW d \in DIds
    PROVE  /\ \A o : o \in Numbered(Loaded, "orders", d) <=> o \in CIds
           /\ \A o : o \in Numbered(Loaded, "new_order", d) <=> o \in CIds /\ LoadedNew(o)
           /\ \A o \in CIds :
                 /\ Loaded[OrderRow(d, o)].amount = IF LoadedNew(o) THEN 1 ELSE 0
                 /\ Loaded[OrderRow(d, o)].delivered = ~ LoadedNew(o)
PROOF
  <1>1. DOMAIN Loaded = LoadedRows /\ \A row \in LoadedRows : Loaded[row] = LoadedValue(row)
    BY DEF Loaded
  <1>2. DOMAIN Loaded \subseteq Rows
    BY LoadedStore DEF StoreOK
  <1> HIDE DEF Loaded
  <1>3. \A o : o \in Numbered(Loaded, "orders", d) <=> OrderRow(d, o) \in LoadedRows
    BY <1>1, <1>2, NumberedRows
  <1>4. \A o : o \in Numbered(Loaded, "new_order", d) <=> NewRow(d, o) \in LoadedRows
    BY <1>1, <1>2, NumberedRows
  <1>5. \A o : /\ OrderRow(d, o) \in LoadedRows <=> o \in CIds
               /\ NewRow(d, o) \in LoadedRows <=> o \in CIds /\ LoadedNew(o)
    BY LoadedRowsAre
  <1>6. \A o : LoadedValue(OrderRow(d, o)).amount = IF LoadedNew(o) THEN 1 ELSE 0
    BY LoadedRowsAre
  <1>7. \A o : LoadedValue(OrderRow(d, o)).delivered = ~ LoadedNew(o)
    BY LoadedRowsAre
  <1> QED  BY <1>1, <1>3, <1>4, <1>5, <1>6, <1>7

\* Before the first transaction, the checks hold.
LEMMA InitChecks ==
    ASSUME Init
    PROVE  ChecksOK
PROOF
  <1>1. DOMAIN db = LoadedRows /\ \A row \in LoadedRows : db[row] = LoadedValue(row)
    BY DEF Init, Loaded
  <1>2. StoreOK(db)
    BY LoadedStore DEF Init
  <1>3. ASSUME NEW d \in DIds
        PROVE  /\ \A o : o \in Numbered(db, "orders", d) <=> o \in CIds
               /\ \A o : o \in Numbered(db, "new_order", d) <=> o \in CIds /\ LoadedNew(o)
    BY LoadedNumbers DEF Init
  <1>4. Check1(db)
    <2> DEFINE taken == [d \in DIds |-> db[DistrictRow(d)].ytd]
    <2>1. \A d \in DIds : taken[d] = 0
      BY <1>1, LoadedRowsAre
    <2>2. IsFiniteSet(DIds)
      BY DistrictsAssumption, FS_Interval DEF DIds
    <2> HIDE DEF taken
    <2>3. SumFunctionOnSet(taken, DIds) = 0
      BY <2>1, <2>2, SumZero
    <2>4. db[WarehouseRow].ytd = 0
      BY <1>1, LoadedRowsAre
    <2> QED  BY <2>3, <2>4 DEF Check1, SumFunction, taken
  <1>5. LastAreNew
    <2> SUFFICES ASSUME NEW d \in DIds, NEW o \in Nat, NEW p \in Nat,
                        NewRow(d, o) \in DOMAIN db, o <= p, p < db[DistrictRow(d)].next
                 PROVE  NewRow(d, p) \in DOMAIN db
      BY DEF LastAreNew
    <2>1. \A x : NewRow(d, x) \in DOMAIN db <=> x \in CIds /\ LoadedNew(x)
      BY <1>1, LoadedRowsAre
    <2>2. db[DistrictRow(d)] = [next |-> NumCustomers + 1, ytd |-> 0]
      BY <1>1, LoadedRowsAre
    <2>3. o \in CIds /\ LoadedNew(o) /\ p < NumCustomers + 1
      BY <2>1, <2>2
    <2>4. p \in CIds /\ LoadedNew(p)
      BY <2>3, CustomersAssumption, NewOrdersAssumption DEF CIds, LoadedNew
    <2> QED  BY <2>1, <2>4
  <1>6. Check5(db)
    BY <1>3, LoadedNumbers DEF Init, Check5
  <1>7. Check9(db)
    <2>1. \A d \in DIds : History(db, d) = {}
      BY <1>1, LoadedRowsAre DEF History
    <2>2. \A d \in DIds : db[DistrictRow(d)].ytd = 0
      BY <1>1, LoadedRowsAre
    <2> QED  BY <2>1, <2>2, FS_EmptySet DEF Check9
  <1>8. Check12(db)
    <2> SUFFICES ASSUME NEW d \in DIds, NEW c \in CIds
                 PROVE  db[CustomerRow(d, c)].balance + db[CustomerRow(d, c)].paid =
                            DeliveredAmount(db, d, c)
      BY DEF Check12
    <2> DEFINE S == Delivered(db, d, c)
               f == [o \in S |-> db[OrderRow(d, o)].amount]
    <2>1. IsFiniteSet(S)
      BY <1>2, OrdersThereAre, FS_Subset DEF Delivered
    <2>2. \A o \in S : f[o] = 0
      BY <1>3, LoadedNumbers DEF Init, Delivered
    <2> HIDE DEF f
    <2>3. SumFunctionOnSet(f, S) = 0
      BY <2>1, <2>2, SumZero
    <2>4. DOMAIN f = S
      BY DEF f
    <2>5. DeliveredAmount(db, d, c) = 0
      BY <2>3, <2>4 DEF DeliveredAmount, SumFunction, f
    <2>6. db[CustomerRow(d, c)] = [balance |-> 0, paid |-> 0]
      BY <1>1, LoadedRowsAre, RowsThereMayBe
    <2> QED  BY <2>5, <2>6
  <1> QED  BY <1>4, <1>5, <1>6, <1>7, <1>8 DEF ChecksOK

\* The invariant holds when the clients start.
LEMMA InitIInv ==
    ASSUME Init
    PROVE  IInv
PROOF
  <1>1. DOMAIN db = LoadedRows /\ \A row \in LoadedRows : db[row] = LoadedValue(row)
    BY DEF Init, Loaded
  <1>2. StoreOK(db)
    BY LoadedStore DEF Init
  <1>3. StateOK /\ TypeOK
    BY BoundsAssumption DEF Init, StateOK, TypeOK, NoRows
  <1>4. HistoryOK
    <2>1. \A d : History(db, d) = {}
      BY <1>1, LoadedRowsAre DEF History
    <2> QED  BY <1>1, <2>1, LoadedRowsAre, FS_EmptySet DEF HistoryOK
  <1>5. LinesOK
    <2>1. ASSUME NEW d \in DIds
          PROVE  PlacedLines(d) = {}
      <3>1. \A o : o \in Numbered(db, "orders", d) => o \in CIds
        BY LoadedNumbers DEF Init
      <3> QED  BY <3>1 DEF PlacedLines
    <2>2. AllLines = {}
      BY <2>1 DEF AllLines
    <2>3. \A n \in Items : db[StockRow(n)].count = 0
      BY <1>1, LoadedRowsAre, RowsThereMayBe
    <2>4. \A n : {x \in AllLines : LineAt(x).item = n} = {}
      BY <2>2
    <2> QED  BY <2>2, <2>3, <2>4, FS_EmptySet DEF LinesOK, StockCountsLines
  <1>6. \A i \in Clients : pc[i] # "running"
    BY DEF Init
  <1> QED  BY <1>2, <1>3, <1>4, <1>5, <1>6, InitChecks DEF IInv


-----------------------------------------------------------------------------
(***************************************************************************)
(* The steps that store nothing.                                           *)
(***************************************************************************)

\* What a step of one client leaves of the others.
Kept(j) ==
    /\ pc'[j] = pc[j] /\ request'[j] = request[j] /\ todo'[j] = todo[j] /\ done'[j] = done[j]
    /\ ended'[j] = ended[j] /\ failures'[j] = failures[j]

\* The writes of a transaction follow from its request and its snapshot.
LEMMA SameWrites ==
    ASSUME NEW j, request'[j] = request[j], ended'[j] = ended[j], failures'[j] = failures[j], NEW s
    PROVE  WritesOf(s, j)' = WritesOf(s, j)
PROOF BY DEF WritesOf, PaymentWrites

\* A client runs on as long as neither it nor the database changes.
LEMMA KeptRun ==
    ASSUME UNCHANGED db, NEW j, Kept(j), stale'[j] = stale[j], NEW s, RunsOn(j, s)
    PROVE  RunsOn(j, s)'
PROOF
  <1>1. WritesOf(s, j)' = WritesOf(s, j)
    BY SameWrites DEF Kept
  <1>2. Agrees(j, s)'
    BY DEF RunsOn, Agrees
  <1>3. \A W, n : Divides(j, W, n) => Divides(j, W, n)'
    BY DEF Divides, Kept
  <1> QED  BY <1>1, <1>2, <1>3 DEF RunsOn

\* Without a change to the database the invariant depends on the client alone.
LEMMA QuietStep ==
    ASSUME IInv, NEW i \in Clients, UNCHANGED db,
           \A j \in Clients \ {i} : Kept(j) /\ stale'[j] = stale[j],
           ended[i] + failures[i] <= ended'[i] + failures'[i],
           StateOK', TypeOK', (pc[i] = "running" => \E s : RunsOn(i, s))'
    PROVE  IInv'
PROOF
  <1>1. (StoreOK(db) /\ ChecksOK /\ LinesOK)'
    BY DEF IInv, ChecksOK, LastAreNew, LinesOK, StockCountsLines, AllLines, PlacedLines, LineAt
  <1>2. HistoryOK'
    <2>1. ASSUME NEW row \in DOMAIN db, row[1] = "history"
          PROVE  row[3] < ended'[row[2]] + failures'[row[2]]
      <3>1. row[2] \in Clients /\ row[3] \in Nat /\ row[3] < ended[row[2]] + failures[row[2]]
        BY <2>1, RowsOfTables DEF IInv, StoreOK, HistoryOK
      <3>2. /\ ended[row[2]] \in Nat /\ failures[row[2]] \in Nat
            /\ ended'[row[2]] \in Nat /\ failures'[row[2]] \in Nat
        BY <3>1, BoundsAssumption DEF IInv, TypeOK
      <3> QED  BY <3>1, <3>2 DEF Kept
    <2> QED  BY <2>1 DEF IInv, HistoryOK, History
  <1>3. ASSUME NEW j \in Clients \ {i}
        PROVE  (pc[j] = "running" => \E s : RunsOn(j, s))'
    <2> SUFFICES ASSUME pc'[j] = "running" PROVE (\E s : RunsOn(j, s))'
      OBVIOUS
    <2>1. pc[j] = "running"
      BY DEF Kept
    <2>2. PICK s : RunsOn(j, s)
      BY <2>1 DEF IInv
    <2>3. RunsOn(j, s)'
      BY <2>2, KeptRun
    <2> QED  BY <2>3
  <1> QED  BY <1>1, <1>2, <1>3 DEF IInv

\* A client takes up a request.
LEMMA StepCall ==
    ASSUME IInv, NEW i \in Clients, Call(i)
    PROVE  IInv'
PROOF
  <1>1. PICK r \in Requests : request' = [request EXCEPT ![i] = r]
    BY DEF Call
  <1>2. r # NoRequest
    BY RequestKinds
  <1>3. StateOK'
    BY <1>1 DEF IInv, StateOK, TypeOK, Call
  <1>4. TypeOK'
    BY <1>1, <1>2 DEF IInv, StateOK, TypeOK, Call
  <1>5. \A j \in Clients \ {i} : Kept(j) /\ stale'[j] = stale[j]
    BY <1>1 DEF IInv, StateOK, TypeOK, Call, Kept
  <1>6. ended[i] + failures[i] <= ended'[i] + failures'[i]
    BY BoundsAssumption DEF IInv, TypeOK, Call
  <1>7. pc'[i] # "running"
    BY DEF IInv, TypeOK, Call
  <1> QED  BY <1>3, <1>4, <1>5, <1>6, <1>7, QuietStep DEF Call

\* A snapshot is the database, and nothing has been written.
LEMMA StepStart ==
    ASSUME IInv, NEW i \in Clients, Start(i)
    PROVE  IInv'
PROOF
  <1>1. PICK s : s = db
    OBVIOUS
  <1>2. request[i] \in Requests /\ ended[i] + failures[i] \in Nat /\ done[i] = NoRows
    BY BoundsAssumption DEF IInv, TypeOK, Start
  <1>3. StoreOK(s)
    BY <1>1 DEF IInv
  <1>4. StateOK'
    BY DEF IInv, StateOK, TypeOK, Start
  <1>5. TypeOK'
    BY <1>2 DEF IInv, StateOK, TypeOK, Start
  <1>6. \A j \in Clients \ {i} : Kept(j) /\ stale'[j] = stale[j]
    BY DEF IInv, StateOK, TypeOK, Start, Kept
  <1>7. ended[i] + failures[i] <= ended'[i] + failures'[i]
    BY BoundsAssumption DEF IInv, TypeOK, Start
  <1>8. RunsOn(i, s)'
    <2> DEFINE W == WritesOf(s, i)
    <2>1. W' = W
      BY SameWrites DEF Start
    <2>2. Distinct(W)
      BY <1>2, <1>3, WritesAreDistinct
    <2>3. todo'[i] = W
      BY <1>1 DEF IInv, StateOK, Start
    <2> HIDE DEF W
    <2>4. Divides(i, W, 0)'
      <3>1. Len(W) \in Nat /\ W = [k \in 1 .. Len(W) |-> W[k]]
        BY <2>2 DEF Distinct
      <3>2. [k \in 1 .. Len(W) - 0 |-> W[0 + k]] = [k \in 1 .. Len(W) |-> W[k]]
        BY <3>1
      <3>3. W = [k \in 1 .. Len(W) - 0 |-> W[0 + k]]
        BY <3>1, <3>2
      <3>4. done'[i] = NoRows /\ DOMAIN NoRows = {} /\ 1 .. 0 = {}
        BY <1>2 DEF Start, NoRows
      <3> QED  BY <2>1, <2>3, <3>3, <3>4 DEF Divides
    <2>5. 0 \in 0 .. Len(W)
      BY <2>2 DEF Distinct
    <2>6. Agrees(i, s)'
      <3>1. db' = s /\ \A d \in DIds : s[DistrictRow(d)].next \in Nat
        BY <1>1, <1>3, StoreFits DEF Start
      <3> QED  BY <3>1 DEF Agrees
    <2> QED  BY <1>3, <2>1, <2>4, <2>5, <2>6 DEF RunsOn, W
  <1> QED  BY <1>4, <1>5, <1>6, <1>7, <1>8, QuietStep DEF Start

\* What is left of a list after n of its elements.
LEMMA Rest ==
    ASSUME NEW L \in Nat, NEW n \in 0 .. L, NEW W, NEW t, t = [k \in 1 .. L - n |-> W[n + k]]
    PROVE  /\ t = <<>> <=> n = L
           /\ n < L => /\ Head(t) = W[n + 1]
                       /\ Tail(t) = [k \in 1 .. L - (n + 1) |-> W[(n + 1) + k]]
PROOF
  <1>1. L - n \in Nat /\ Len(t) = L - n
    OBVIOUS
  <1>2. t = <<>> <=> n = L
    <2>1. CASE n = L
      BY <2>1
    <2>2. CASE n # L
      <3>1. Len(t) # 0
        BY <1>1, <2>2
      <3> QED  BY <2>2, <3>1
    <2> QED  BY <2>1, <2>2
  <1>3. ASSUME n < L
        PROVE  Head(t) = W[n + 1] /\ Tail(t) = [k \in 1 .. L - (n + 1) |-> W[(n + 1) + k]]
    <2> DEFINE S == {W[n + k] : k \in 1 .. L - n}
    <2>1. t \in Seq(S) /\ t # <<>>
      <3> DEFINE m == L - n
      <3>1. m \in Nat /\ t # <<>>
        BY <1>2, <1>3
      <3>2. t \in [1 .. m -> S]
        OBVIOUS
      <3> HIDE DEF m, S
      <3> QED  BY ONLY <3>1, <3>2
    <2> HIDE DEF S
    <2>2. /\ Head(t) = t[1]
          /\ Tail(t) \in Seq(S) /\ Len(Tail(t)) = Len(t) - 1
          /\ \A k \in 1 .. Len(Tail(t)) : Tail(t)[k] = t[k + 1]
      BY ONLY <2>1, HeadTailProperties
    <2>3. Len(Tail(t)) = L - (n + 1)
      BY <1>1, <2>2
    <2>4. ASSUME NEW k \in 1 .. L - (n + 1)
          PROVE  Tail(t)[k] = W[(n + 1) + k]
      <3>1. k + 1 \in 1 .. L - n /\ n + (k + 1) = (n + 1) + k
        OBVIOUS
      <3>2. Tail(t)[k] = t[k + 1]
        BY <2>2, <2>3
      <3> QED  BY <3>1, <3>2
    <2>5. Tail(t) = [k \in 1 .. L - (n + 1) |-> Tail(t)[k]]
      BY <2>2, <2>3
    <2>6. Head(t) = W[n + 1]
      BY <1>3, <2>2
    <2> QED  BY <2>4, <2>5, <2>6
  <1> QED  BY <1>2, <1>3

\* One more write is done.
LEMMA StepWrite ==
    ASSUME IInv, NEW i \in Clients, Write(i)
    PROVE  IInv'
PROOF
  <1>1. request[i] \in Requests /\ ended[i] + failures[i] \in Nat
    BY BoundsAssumption DEF IInv, TypeOK, Write
  <1>2. PICK s : RunsOn(i, s)
    BY DEF IInv, Write
  <1> DEFINE W == WritesOf(s, i)
             row == Head(todo[i])[1]
  <1>3. Distinct(W)
    BY <1>1, <1>2, WritesAreDistinct DEF RunsOn
  <1>4. PICK n \in 0 .. Len(W) : Divides(i, W, n)
    BY <1>2 DEF RunsOn
  <1>5. W' = W
    BY SameWrites DEF Write
  <1> HIDE DEF W
  <1>6. Len(W) \in Nat /\ todo[i] # <<>>
    BY <1>3 DEF Distinct, Write
  <1>7. /\ n + 1 \in 0 .. Len(W) /\ n + 1 \in 1 .. Len(W) /\ n \in Nat
        /\ Head(todo[i]) = W[n + 1]
        /\ Tail(todo[i]) = [k \in 1 .. Len(W) - (n + 1) |-> W[(n + 1) + k]]
    <2>1. todo[i] = [k \in 1 .. Len(W) - n |-> W[n + k]]
      BY <1>4 DEF Divides
    <2>2. n # Len(W)
      BY <1>6, <2>1, Rest
    <2>3. n < Len(W)
      BY <1>6, <2>2
    <2>4. /\ Head(todo[i]) = W[n + 1]
          /\ Tail(todo[i]) = [k \in 1 .. Len(W) - (n + 1) |-> W[(n + 1) + k]]
      BY <1>6, <2>1, <2>3, Rest
    <2> QED  BY <1>6, <2>3, <2>4
  <1>8. /\ done'[i] = Put(W[n + 1][1], W[n + 1][2], done[i])
        /\ todo'[i] = Tail(todo[i])
    BY <1>7 DEF IInv, StateOK, Write
  <1>9. Divides(i, W, n + 1)'
    <2>1. /\ DOMAIN done'[i] = DOMAIN done[i] \cup {W[n + 1][1]}
          /\ done'[i][W[n + 1][1]] = W[n + 1][2]
          /\ \A r \in DOMAIN done[i] \ {W[n + 1][1]} : done'[i][r] = done[i][r]
      BY <1>8 DEF Put
    <2>2. 1 .. n + 1 = (1 .. n) \cup {n + 1}
      BY <1>7
    <2>3. DOMAIN done'[i] = {W[k][1] : k \in 1 .. n + 1}
      BY <1>4, <2>1, <2>2 DEF Divides
    <2>4. ASSUME NEW k \in 1 .. n
          PROVE  done'[i][W[k][1]] = W[k][2]
      <3>1. k \in 1 .. Len(W) /\ k # n + 1
        BY <1>6, <1>7
      <3>2. W[k][1] # W[n + 1][1]
        BY <1>3, <1>7, <3>1 DEF Distinct
      <3> QED  BY <1>4, <2>1, <3>2 DEF Divides
    <2>5. \A k \in 1 .. n + 1 : done'[i][W[k][1]] = W[k][2]
      BY <2>1, <2>2, <2>4
    <2> QED  BY <1>5, <1>7, <1>8, <2>3, <2>5 DEF Divides
  <1>10. RunsOn(i, s)'
    <2>1. Agrees(i, s)'
      BY <1>2 DEF RunsOn, Agrees, Write
    <2> QED  BY <1>2, <1>5, <1>7, <1>9, <2>1 DEF RunsOn, W
  <1>11. StateOK'
    BY DEF IInv, StateOK, Write
  <1>12. \A j \in Clients \ {i} : Kept(j) /\ stale'[j] = stale[j]
    BY DEF IInv, StateOK, TypeOK, Write, Kept
  <1>13. TypeOK'
    <2>1. row \notin stale[i] /\ \A j \in Clients \ {i} : row \notin DOMAIN done[j]
      BY DEF Write, Conflicting
    <2>2. DOMAIN done'[i] = DOMAIN done[i] \cup {row}
      BY <1>7, <1>8 DEF Put
    <2> HIDE DEF row
    <2>3. \A j \in Clients :
             /\ request'[j] \in Requests \cup {NoRequest}
             /\ pc'[j] = "idle" <=> request'[j] = NoRequest
             /\ pc'[j] # "running" => todo'[j] = <<>> /\ done'[j] = NoRows /\ stale'[j] = {}
             /\ DOMAIN done'[j] \cap stale'[j] = {}
      BY <1>12, <2>1, <2>2 DEF IInv, TypeOK, Write, Kept
    <2>4. \A j, k \in Clients : j # k => DOMAIN done'[j] \cap DOMAIN done'[k] = {}
      BY <1>12, <2>1, <2>2 DEF IInv, TypeOK, Kept
    <2> QED  BY <2>3, <2>4 DEF IInv, TypeOK, Write
  <1>14. ended[i] + failures[i] <= ended'[i] + failures'[i]
    BY BoundsAssumption DEF IInv, TypeOK, Write
  <1> QED  BY <1>10, <1>11, <1>12, <1>13, <1>14, QuietStep DEF Write


\* A transaction that is over leaves its client waiting to run again, one failure
\* of the connection later perhaps, or idle after one more transaction.
Ends(i, then) ==
    \/ /\ then = "idle"
       /\ ended' = [ended EXCEPT ![i] = @ + 1]
       /\ UNCHANGED failures
    \/ /\ then = "waiting"
       /\ UNCHANGED ended
       /\ \/ UNCHANGED failures
          \/ failures[i] < MaxFailures /\ failures' = [failures EXCEPT ![i] = @ + 1]

\* What the end of a transaction leaves of the clients.
LEMMA Ended ==
    ASSUME IInv, NEW i \in Clients, pc[i] = "running", NEW then, Closes(i, then), Ends(i, then),
           DOMAIN stale' = Clients, stale'[i] = {},
           \A j \in Clients \ {i} : /\ stale'[j] \subseteq stale[j] \cup DOMAIN done[i]
                                    /\ pc[j] # "running" => stale'[j] = {}
    PROVE  /\ StateOK' /\ TypeOK'
           /\ \A j \in Clients \ {i} : Kept(j)
           /\ ended[i] + failures[i] \in Nat /\ ended'[i] + failures'[i] \in Nat
           /\ ended[i] + failures[i] <= ended'[i] + failures'[i]
           /\ pc'[i] # "running"
PROOF
  <1>1. ended[i] < MaxTransactions
    BY DEF IInv, StateOK
  <1>2. then \in {"idle", "waiting"}
    BY DEF Ends
  <1>3. \A j \in Clients \ {i} : Kept(j)
    BY DEF IInv, StateOK, TypeOK, Closes, Ends, Kept
  <1>4. ended' \in [Clients -> 0 .. MaxTransactions] /\ failures' \in [Clients -> 0 .. MaxFailures]
    BY <1>1, BoundsAssumption DEF IInv, TypeOK, Ends
  <1>5. /\ pc'[i] = then /\ todo'[i] = <<>> /\ done'[i] = NoRows
        /\ request'[i] = IF then = "idle" THEN NoRequest ELSE request[i]
    BY DEF IInv, StateOK, TypeOK, Closes
  <1>6. pc' \in [Clients -> {"idle", "waiting", "running"}]
    BY <1>2 DEF IInv, TypeOK, Closes
  <1>7. StateOK'
    <2>1. /\ DOMAIN request' = Clients /\ DOMAIN todo' = Clients
          /\ DOMAIN done' = Clients /\ DOMAIN stale' = Clients
      BY DEF IInv, StateOK, Closes
    <2>2. pc'[i] # "idle" => ended'[i] < MaxTransactions
      BY <1>1, <1>5 DEF Ends
    <2>3. \A j \in Clients : pc'[j] # "idle" => ended'[j] < MaxTransactions
      BY <1>3, <2>2 DEF IInv, StateOK, Kept
    <2> QED  BY <2>1, <2>3 DEF StateOK
  <1>8. DOMAIN done'[i] = {}
    BY <1>5 DEF NoRows
  <1>9. \A j \in Clients \ {i} : DOMAIN done[j] \cap DOMAIN done[i] = {}
    BY DEF IInv, TypeOK
  <1>10. TypeOK'
    <2>1. ASSUME NEW j \in Clients
          PROVE  /\ request'[j] \in Requests \cup {NoRequest}
                 /\ pc'[j] = "idle" <=> request'[j] = NoRequest
                 /\ pc'[j] # "running" => todo'[j] = <<>> /\ done'[j] = NoRows /\ stale'[j] = {}
                 /\ DOMAIN done'[j] \cap stale'[j] = {}
      <3>1. CASE j = i
        BY <1>2, <1>5, <1>8, <3>1 DEF IInv, TypeOK
      <3>2. CASE j # i
        <4>1. Kept(j) /\ DOMAIN done[j] \cap DOMAIN done[i] = {}
          BY <1>3, <1>9, <3>2
        <4> QED  BY <3>2, <4>1 DEF IInv, TypeOK, Kept
      <3> QED  BY <3>1, <3>2
    <2>2. ASSUME NEW j \in Clients, NEW k \in Clients, j # k
          PROVE  DOMAIN done'[j] \cap DOMAIN done'[k] = {}
      BY <1>3, <1>8, <2>2 DEF IInv, TypeOK, Kept
    <2> QED  BY <1>4, <1>6, <2>1, <2>2 DEF TypeOK
  <1>11. /\ ended[i] \in Nat /\ failures[i] \in Nat
         /\ ended'[i] \in {ended[i], ended[i] + 1} /\ failures'[i] \in {failures[i], failures[i] + 1}
    BY BoundsAssumption DEF IInv, TypeOK, Ends
  <1>12. /\ ended[i] + failures[i] \in Nat /\ ended'[i] + failures'[i] \in Nat
         /\ ended[i] + failures[i] <= ended'[i] + failures'[i]
    BY <1>11
  <1> QED  BY <1>2, <1>3, <1>5, <1>7, <1>10, <1>12

\* A transaction that is given up leaves nothing.
LEMMA StepDiscards ==
    ASSUME IInv, NEW i \in Clients, pc[i] = "running", NEW then, Closes(i, then), Ends(i, then),
           Discards(i)
    PROVE  IInv'
PROOF
  <1>1. /\ DOMAIN stale' = Clients /\ stale'[i] = {}
        /\ \A j \in Clients \ {i} : stale'[j] = stale[j] /\ (pc[j] # "running" => stale[j] = {})
    BY DEF IInv, StateOK, TypeOK, Discards
  <1> QED  BY <1>1, Ended, QuietStep DEF Discards

-----------------------------------------------------------------------------
(***************************************************************************)
(* The steps that store.                                                   *)
(***************************************************************************)

\* No document has the value of a deleted one.
LEMMA NotGone ==
    ASSUME NEW rows, StoreOK(rows), NEW row \in DOMAIN rows
    PROVE  rows[row] # Gone
PROOF
  <1>1. row \in Rows /\ Fits(row, rows[row])
    BY DEF StoreOK
  <1>2. DOMAIN Gone = {"gone"}
    BY DEF Gone
  <1>3. /\ \A v \in [ytd : Nat] : "ytd" \in DOMAIN v
        /\ \A v \in [next : Nat \ {0}, ytd : Nat] : "ytd" \in DOMAIN v
        /\ \A v \in [balance : Int, paid : Nat] : "paid" \in DOMAIN v
        /\ \A v \in LoadedOrders : "c" \in DOMAIN v
        /\ \A v \in PlacedOrders : "c" \in DOMAIN v
        /\ \A v \in [ytd : Nat, count : Nat] : "ytd" \in DOMAIN v
        /\ "new" \in DOMAIN [new |-> TRUE]
        /\ \A v \in [d : DIds] : "d" \in DOMAIN v
    BY DEF LoadedOrders, PlacedOrders
  <1>4. DOMAIN rows[row] # {"gone"}
    BY <1>1, <1>3, RowsOfTables DEF Fits
  <1> QED  BY <1>2, <1>4

\* What a transaction that is stored has written is as it was in its snapshot,
\* and becomes what it has written; the rest stays.
LEMMA Stored ==
    ASSUME IInv, NEW i \in Clients, pc[i] = "running", todo[i] = <<>>, Stores(i),
           NEW s, RunsOn(i, s)
    PROVE  LET W == WritesOf(s, i) IN
           /\ Distinct(W)
           /\ DOMAIN done[i] = {W[k][1] : k \in 1 .. Len(W)}
           /\ \A k \in 1 .. Len(W) :
                 /\ W[k][1] \in DOMAIN s <=> W[k][1] \in DOMAIN db
                 /\ W[k][1] \in DOMAIN s => s[W[k][1]] = db[W[k][1]]
                 /\ W[k][2] # Gone => W[k][1] \in DOMAIN db' /\ db'[W[k][1]] = W[k][2]
                 /\ W[k][2] = Gone => W[k][1] \notin DOMAIN db'
           /\ \A row : (\A k \in 1 .. Len(W) : row # W[k][1]) =>
                 /\ row \in DOMAIN db' <=> row \in DOMAIN db
                 /\ row \in DOMAIN db => db'[row] = db[row]
PROOF
  <1> DEFINE W == WritesOf(s, i)
  <1>1. request[i] \in Requests /\ ended[i] + failures[i] \in Nat
    BY BoundsAssumption DEF IInv, TypeOK
  <1>2. Distinct(W)
    BY <1>1, WritesAreDistinct DEF RunsOn
  <1>3. PICK n \in 0 .. Len(W) : Divides(i, W, n)
    BY DEF RunsOn
  <1> HIDE DEF W
  <1>4. Len(W) \in Nat
    BY <1>2 DEF Distinct
  <1>5. n = Len(W)
    BY <1>3, <1>4, Rest DEF Divides
  <1>6. /\ DOMAIN done[i] = {W[k][1] : k \in 1 .. Len(W)}
        /\ \A k \in 1 .. Len(W) : done[i][W[k][1]] = W[k][2]
    BY <1>3, <1>5 DEF Divides
  <1>7. ASSUME NEW k \in 1 .. Len(W)
        PROVE  /\ W[k][1] \in DOMAIN s <=> W[k][1] \in DOMAIN db
               /\ W[k][1] \in DOMAIN s => s[W[k][1]] = db[W[k][1]]
    <2>1. W[k][1] \in Rows
      BY <1>2 DEF Distinct
    <2>2. W[k][1] \notin stale[i]
      BY <1>6 DEF IInv, TypeOK
    <2> QED  BY <2>1, <2>2 DEF RunsOn, Agrees
  <1> DEFINE rows == Overlay(done[i], db)
  <1>8. DOMAIN rows = DOMAIN db \cup DOMAIN done[i]
        /\ \A r \in DOMAIN rows : rows[r] = IF r \in DOMAIN done[i] THEN done[i][r] ELSE db[r]
    BY DEF Overlay
  <1>9. db' = Restrict(rows, {row \in DOMAIN rows : rows[row] # Gone})
    BY DEF Stores
  <1> HIDE DEF rows
  <1>10. /\ DOMAIN db' = {row \in DOMAIN rows : rows[row] # Gone}
         /\ \A row \in DOMAIN db' : db'[row] = rows[row]
    BY <1>9 DEF Restrict
  <1>11. \A row \in DOMAIN db : db[row] # Gone
    BY NotGone DEF IInv
  <1>12. ASSUME NEW k \in 1 .. Len(W)
         PROVE  /\ W[k][2] # Gone => W[k][1] \in DOMAIN db' /\ db'[W[k][1]] = W[k][2]
                /\ W[k][2] = Gone => W[k][1] \notin DOMAIN db'
    <2>1. W[k][1] \in DOMAIN done[i] /\ done[i][W[k][1]] = W[k][2]
      BY <1>6
    <2>2. W[k][1] \in DOMAIN rows /\ rows[W[k][1]] = W[k][2]
      BY <1>8, <2>1
    <2> QED  BY <1>10, <2>2
  <1>13. ASSUME NEW row, \A k \in 1 .. Len(W) : row # W[k][1]
         PROVE  /\ row \in DOMAIN db' <=> row \in DOMAIN db
                /\ row \in DOMAIN db => db'[row] = db[row]
    <2>1. row \notin DOMAIN done[i]
      BY <1>6, <1>13
    <2> QED  BY <1>8, <1>10, <1>11, <2>1
  <1> QED  BY <1>2, <1>6, <1>7, <1>12, <1>13 DEF W

\* The other transactions keep their snapshots when D_NEXT_O_ID is not set back
\* and no order that was there becomes new.
Advances ==
    /\ \A d \in DIds : db[DistrictRow(d)].next <= db'[DistrictRow(d)].next
    /\ \A d \in DIds, o \in Nat :
          o < db[DistrictRow(d)].next /\ NewRow(d, o) \in DOMAIN db' => NewRow(d, o) \in DOMAIN db

\* A commit that writes no document of another transaction leaves that transaction a
\* snapshot to run on: only its stale documents, which it will not write, are others.
LEMMA OthersRunOn ==
    ASSUME IInv, StoreOK(db)', NEW i \in Clients, Stores(i), Advances,
           \A row : row \notin DOMAIN done[i] =>
              /\ row \in DOMAIN db' <=> row \in DOMAIN db
              /\ row \in DOMAIN db => db'[row] = db[row],
           NEW j \in Clients \ {i}, pc[j] = "running", Kept(j)
    PROVE  (\E s : RunsOn(j, s))'
PROOF
  <1>1. PICK s : RunsOn(j, s)
    BY DEF IInv
  <1>2. stale'[j] = stale[j] \cup DOMAIN done[i]
    BY DEF Stores
  <1>3. WritesOf(s, j)' = WritesOf(s, j)
    BY SameWrites DEF Kept
  <1>4. \A d \in DIds : /\ s[DistrictRow(d)].next \in Nat /\ db[DistrictRow(d)].next \in Nat
                       /\ db'[DistrictRow(d)].next \in Nat
    <2>1. StoreOK(db') /\ StoreOK(db) /\ StoreOK(s)
      BY <1>1 DEF IInv, RunsOn, StoreOK
    <2> QED  BY <2>1, StoreFits
  <1>5. Agrees(j, s)'
    <2>1. ASSUME NEW row \in Rows \ stale'[j]
          PROVE  /\ row \in DOMAIN s <=> row \in DOMAIN db'
                 /\ row \in DOMAIN s => s[row] = db'[row]
      <3>1. row \in Rows \ stale[j] /\ row \notin DOMAIN done[i]
        BY <1>2
      <3> QED  BY <1>1, <3>1 DEF RunsOn, Agrees
    <2>2. \A d \in DIds : s[DistrictRow(d)].next <= db'[DistrictRow(d)].next
      BY <1>1, <1>4 DEF RunsOn, Agrees, Advances
    <2>3. ASSUME NEW d \in DIds, NEW o \in Nat,
                 o < s[DistrictRow(d)].next, NewRow(d, o) \in DOMAIN db'
          PROVE  NewRow(d, o) \in DOMAIN s
      <3>1. o < db[DistrictRow(d)].next
        BY <1>1, <1>4, <2>3 DEF RunsOn, Agrees
      <3>2. NewRow(d, o) \in DOMAIN db
        BY <2>3, <3>1 DEF Advances
      <3> QED  BY <1>1, <2>3, <3>2 DEF RunsOn, Agrees
    <2> QED  BY <2>1, <2>2, <2>3 DEF Agrees
  <1>6. \A W, n : Divides(j, W, n) => Divides(j, W, n)'
    BY DEF Divides, Kept
  <1>7. RunsOn(j, s)'
    BY <1>1, <1>3, <1>5, <1>6 DEF RunsOn
  <1> QED  BY <1>7


\* Nor is it that of a record with one of their fields.
LEMMA NothingGone == \A v : DOMAIN v \cap {"ytd", "next", "paid", "c", "new", "d"} # {} => v # Gone
PROOF
  <1>1. DOMAIN Gone = {"gone"}
    BY DEF Gone
  <1> QED  BY <1>1

\* A new order that is stored takes the number its district is at, however old the
\* snapshot is, and counts on from the stock that is there.
Places(r) ==
    LET district == DistrictRow(r.d)
        o        == db[district].next
    IN
    /\ DOMAIN db' = DOMAIN db \cup {NewRow(r.d, o), OrderRow(r.d, o)}
    /\ db'[district] = [db[district] EXCEPT !.next = o + 1]
    /\ db'[NewRow(r.d, o)] = [new |-> TRUE]
    /\ db'[OrderRow(r.d, o)] = NewOrder(r)
    /\ \A n \in ToSet(r.items) :
          \E q \in Nat : db'[StockRow(n)] = [ytd   |-> db[StockRow(n)].ytd + q,
                                             count |-> db[StockRow(n)].count + 1]
    /\ \A row \in DOMAIN db :
          row # district /\ (\A n \in ToSet(r.items) : row # StockRow(n)) => db'[row] = db[row]

\* It is what the commit of a new order does: the snapshot was current for all of it.
LEMMA NewOrderStored ==
    ASSUME IInv, NEW i \in Clients, pc[i] = "running", todo[i] = <<>>, Stores(i),
           NEW s, RunsOn(i, s), request[i].type = "NEW_ORDER", ~ Invalid(request[i])
    PROVE  Places(request[i]) /\ request[i] \in Orders
PROOF
  <1> DEFINE r == request[i]
             W == WritesOf(s, i)
             m == Len(r.items)
             district == DistrictRow(r.d)
             o == db[district].next
             Stock(k) == StockRow(Found(r.items)[k])
  <1>1. r \in Orders
    BY RequestKinds DEF IInv, TypeOK
  <1>2. /\ r.d \in DIds /\ m \in Nat
        /\ r.quantities \in [1 .. m -> Nat] /\ Found(r.items) \in [1 .. m -> Items]
        /\ ToSet(r.items) = {Found(r.items)[k] : k \in 1 .. m}
    BY <1>1, ItemsFound
  <1>3. W = NewOrderWrites(s, r)
    BY DEF WritesOf
  <1>4. /\ Len(W) = m + 3
        /\ W[1][1] = district /\ W[1][2] = [s[district] EXCEPT !.next = s[district].next + 1]
        /\ W[2][1] = NewRow(r.d, s[district].next) /\ W[2][2] = [new |-> TRUE]
        /\ \A k \in 1 .. m : W[k + 2] = StockWrite(s, r, k)
        /\ W[m + 3][1] = OrderRow(r.d, s[district].next) /\ W[m + 3][2] = NewOrder(r)
    <2> DEFINE V == NewOrderWrites(s, r)
    <2>1. /\ Len(V) = m + 3
          /\ \A k \in 1 .. m : V[k + 2] = StockWrite(s, r, k)
          /\ V[1][1] = district /\ V[2][1] = NewRow(r.d, s[district].next)
          /\ V[m + 3][1] = OrderRow(r.d, s[district].next)
      BY <1>1, NewOrderEntries
    <2>2. V[1][2] = [s[district] EXCEPT !.next = s[district].next + 1]
      BY <1>1, NewOrderEntries
    <2>3. V[2][2] = [new |-> TRUE]
      BY <1>1, NewOrderEntries
    <2>4. V[m + 3][2] = NewOrder(r)
      BY <1>1, NewOrderEntries
    <2> HIDE DEF V
    <2> QED  BY <1>3, <2>1, <2>2, <2>3, <2>4 DEF V
  <1>5. /\ \A k \in 1 .. Len(W) :
              /\ W[k][1] \in DOMAIN s <=> W[k][1] \in DOMAIN db
              /\ W[k][1] \in DOMAIN s => s[W[k][1]] = db[W[k][1]]
              /\ W[k][2] # Gone => W[k][1] \in DOMAIN db' /\ db'[W[k][1]] = W[k][2]
        /\ \A row : (\A k \in 1 .. Len(W) : row # W[k][1]) =>
              /\ row \in DOMAIN db' <=> row \in DOMAIN db
              /\ row \in DOMAIN db => db'[row] = db[row]
    BY Stored
  <1> HIDE DEF W, r, m
  <1>6. StoreOK(s) /\ StoreOK(db)
    BY DEF IInv, RunsOn
  <1>7. 1 \in 1 .. m + 3 /\ 2 \in 1 .. m + 3 /\ m + 3 \in 1 .. m + 3
        /\ \A k \in 1 .. m : k + 2 \in 1 .. m + 3
    BY <1>2
  <1>8. district \in DOMAIN s /\ district \in DOMAIN db /\ s[district] = db[district]
    <2>1. district \in DOMAIN s
      BY <1>2, <1>6 DEF StoreOK
    <2> QED  BY <1>4, <1>5, <1>7, <2>1
  <1>9. DOMAIN db[district] = {"next", "ytd"}
    BY <1>2, <1>6, StoreFits
  <1>10. db'[district] = [db[district] EXCEPT !.next = o + 1] /\ district \in DOMAIN db'
    <2>1. W[1][2] = [db[district] EXCEPT !.next = o + 1]
      BY <1>4, <1>8
    <2>2. W[1][2] # Gone
      BY <1>9, <2>1, NothingGone
    <2> QED  BY <1>4, <1>5, <1>7, <2>1, <2>2
  <1>11. db'[NewRow(r.d, o)] = [new |-> TRUE] /\ NewRow(r.d, o) \in DOMAIN db'
    <2>1. DOMAIN W[2][2] = {"new"}
      BY <1>4
    <2>2. W[2][2] # Gone
      BY <2>1, NothingGone
    <2> QED  BY <1>4, <1>5, <1>7, <1>8, <2>2
  <1>12. db'[OrderRow(r.d, o)] = NewOrder(r) /\ OrderRow(r.d, o) \in DOMAIN db'
    <2>1. "c" \in DOMAIN NewOrder(r)
      BY DEF NewOrder
    <2>2. NewOrder(r) # Gone
      BY <2>1, NothingGone
    <2> QED  BY <1>4, <1>5, <1>7, <1>8, <2>2
  <1>13. ASSUME NEW k \in 1 .. m
         PROVE  /\ W[k + 2][1] = Stock(k) /\ Stock(k) \in DOMAIN db /\ Stock(k) \in DOMAIN db'
                /\ db'[Stock(k)] = [ytd   |-> db[Stock(k)].ytd + r.quantities[k],
                                    count |-> db[Stock(k)].count + 1]
    <2>1. /\ W[k + 2][1] = Stock(k)
          /\ W[k + 2][2] = [ytd |-> s[Stock(k)].ytd + r.quantities[k], count |-> s[Stock(k)].count + 1]
      <3>1. W[k + 2] = StockWrite(s, r, k)
        BY <1>4
      <3> QED  BY <3>1 DEF StockWrite
    <2>2. Stock(k) \in DOMAIN s
      BY <1>2, <1>6, StoreFits
    <2>3. Stock(k) \in DOMAIN db /\ s[Stock(k)] = db[Stock(k)]
      BY <1>4, <1>5, <1>7, <2>1, <2>2
    <2>4. DOMAIN W[k + 2][2] = {"ytd", "count"}
      BY <2>1
    <2>5. W[k + 2][2] # Gone
      BY <2>4, NothingGone
    <2>6. Stock(k) \in DOMAIN db' /\ db'[Stock(k)] = W[k + 2][2]
      BY <1>4, <1>5, <1>7, <2>1, <2>5
    <2> QED  BY <2>1, <2>3, <2>6
  <1>14. ASSUME NEW k \in 1 .. Len(W)
         PROVE  \/ W[k][1] \in {district, NewRow(r.d, o), OrderRow(r.d, o)}
                \/ \E l \in 1 .. m : W[k][1] = Stock(l)
    <2>1. CASE k \in {1, 2, m + 3}
      BY <1>4, <1>8, <2>1
    <2>2. CASE k \notin {1, 2, m + 3}
      <3>1. k - 2 \in 1 .. m /\ (k - 2) + 2 = k
        BY <1>2, <1>4, <2>2
      <3>2. W[k][1] = Stock(k - 2)
        BY <1>13, <3>1
      <3> QED  BY <3>1, <3>2
    <2> QED  BY <2>1, <2>2
  <1>15. ASSUME NEW row, row \notin {district, NewRow(r.d, o), OrderRow(r.d, o)},
                \A n \in ToSet(r.items) : row # StockRow(n)
         PROVE  /\ row \in DOMAIN db' <=> row \in DOMAIN db
                /\ row \in DOMAIN db => db'[row] = db[row]
    <2>1. \A k \in 1 .. Len(W) : row # W[k][1]
      BY <1>2, <1>14, <1>15
    <2> QED  BY <1>5, <2>1
  <1>16. DOMAIN db' = DOMAIN db \cup {NewRow(r.d, o), OrderRow(r.d, o)}
    <2>1. \A n \in ToSet(r.items) : StockRow(n) \in DOMAIN db /\ StockRow(n) \in DOMAIN db'
      BY <1>2, <1>13
    <2>2. \A row : row \in DOMAIN db' <=> row \in DOMAIN db \cup {NewRow(r.d, o), OrderRow(r.d, o)}
      BY <1>8, <1>10, <1>11, <1>12, <1>15, <2>1
    <2> QED  BY <2>2
  <1>17. ASSUME NEW n \in ToSet(r.items)
         PROVE  \E q \in Nat : db'[StockRow(n)] = [ytd   |-> db[StockRow(n)].ytd + q,
                                                   count |-> db[StockRow(n)].count + 1]
    <2>1. PICK k \in 1 .. m : n = Found(r.items)[k]
      BY <1>2
    <2>2. r.quantities[k] \in Nat
      BY <1>2
    <2> QED  BY <1>13, <2>1, <2>2
  <1>18. \A row \in DOMAIN db :
            row # district /\ (\A n \in ToSet(r.items) : row # StockRow(n)) => db'[row] = db[row]
    <2>1. NewRow(r.d, o) \notin DOMAIN db /\ OrderRow(r.d, o) \notin DOMAIN db
      <3>1. o \in Nat /\ ~ (o \in 1 .. o - 1)
        BY <1>2, <1>6, StoreFits
      <3> QED  BY <1>2, <1>6, <3>1 DEF StoreOK
    <2> QED  BY <1>15, <2>1
  <1> QED  BY <1>1, <1>10, <1>11, <1>12, <1>16, <1>17, <1>18 DEF Places, r


\* A payment adds to what is there, under a number of HISTORY that is free.
Pays(i, r) ==
    LET district == DistrictRow(r.d)
        customer == CustomerRow(r.d, r.c)
        receipt  == HistoryRow(i, ended[i] + failures[i])
    IN
    /\ receipt \notin DOMAIN db
    /\ DOMAIN db' = DOMAIN db \cup {receipt}
    /\ db'[receipt] = [d |-> r.d]
    /\ db'[district] = [db[district] EXCEPT !.ytd = @ + 1]
    /\ db'[WarehouseRow] = [db[WarehouseRow] EXCEPT !.ytd = @ + 1]
    /\ db'[customer] = [balance |-> db[customer].balance - 1, paid |-> db[customer].paid + 1]
    /\ \A row \in DOMAIN db \ {district, WarehouseRow, customer} : db'[row] = db[row]

\* It is what the commit of a payment does.
LEMMA PaymentStored ==
    ASSUME IInv, NEW i \in Clients, pc[i] = "running", todo[i] = <<>>, Stores(i),
           NEW s, RunsOn(i, s), request[i].type = "PAYMENT"
    PROVE  Pays(i, request[i]) /\ request[i].d \in DIds /\ request[i].c \in CIds
PROOF
  <1> DEFINE r == request[i]
             W == WritesOf(s, i)
             district == DistrictRow(r.d)
             customer == CustomerRow(r.d, r.c)
             receipt  == HistoryRow(i, ended[i] + failures[i])
  <1>1. r.d \in DIds /\ r.c \in CIds /\ ended[i] + failures[i] \in Nat
    <2>1. r \in Requests /\ ended[i] + failures[i] \in Nat
      BY BoundsAssumption DEF IInv, TypeOK
    <2> QED  BY <2>1, RequestKinds
  <1>2. W = PaymentWrites(s, i, r)
    BY DEF WritesOf
  <1>3. /\ Len(W) = 4
        /\ W[1][1] = district /\ W[1][2] = [s[district] EXCEPT !.ytd = @ + 1]
        /\ W[2][1] = WarehouseRow /\ W[2][2] = [s[WarehouseRow] EXCEPT !.ytd = @ + 1]
        /\ W[3][1] = customer
        /\ W[3][2] = [balance |-> s[customer].balance - 1, paid |-> s[customer].paid + 1]
        /\ W[4][1] = receipt /\ W[4][2] = [d |-> r.d]
    BY <1>2 DEF PaymentWrites
  <1>4. /\ \A k \in 1 .. Len(W) :
              /\ W[k][1] \in DOMAIN s <=> W[k][1] \in DOMAIN db
              /\ W[k][1] \in DOMAIN s => s[W[k][1]] = db[W[k][1]]
              /\ W[k][2] # Gone => W[k][1] \in DOMAIN db' /\ db'[W[k][1]] = W[k][2]
        /\ \A row : (\A k \in 1 .. Len(W) : row # W[k][1]) =>
              /\ row \in DOMAIN db' <=> row \in DOMAIN db
              /\ row \in DOMAIN db => db'[row] = db[row]
    BY Stored
  <1> HIDE DEF W, r
  <1>5. StoreOK(s) /\ StoreOK(db)
    BY DEF IInv, RunsOn
  <1>6. district \in DOMAIN s /\ WarehouseRow \in DOMAIN s /\ customer \in DOMAIN s
    BY <1>1, <1>5, StoreFits DEF StoreOK
  <1>7. 1 \in 1 .. Len(W) /\ 2 \in 1 .. Len(W) /\ 3 \in 1 .. Len(W) /\ 4 \in 1 .. Len(W)
        /\ \A k \in 1 .. Len(W) : k \in {1, 2, 3, 4}
    BY <1>3
  <1>8. /\ district \in DOMAIN db /\ WarehouseRow \in DOMAIN db /\ customer \in DOMAIN db
        /\ s[district] = db[district] /\ s[WarehouseRow] = db[WarehouseRow]
        /\ s[customer] = db[customer]
    BY <1>3, <1>4, <1>6, <1>7
  <1>9. /\ DOMAIN db[district] = {"next", "ytd"} /\ DOMAIN db[WarehouseRow] = {"ytd"}
    BY <1>1, <1>5, StoreFits
  <1>10. /\ W[1][2] = [db[district] EXCEPT !.ytd = @ + 1]
         /\ W[2][2] = [db[WarehouseRow] EXCEPT !.ytd = @ + 1]
         /\ W[3][2] = [balance |-> db[customer].balance - 1, paid |-> db[customer].paid + 1]
    BY <1>3, <1>8
  <1>11. /\ DOMAIN W[1][2] = {"next", "ytd"} /\ DOMAIN W[2][2] = {"ytd"}
         /\ DOMAIN W[3][2] = {"balance", "paid"} /\ DOMAIN W[4][2] = {"d"}
    BY <1>3, <1>9, <1>10
  <1>12. W[1][2] # Gone /\ W[2][2] # Gone /\ W[3][2] # Gone /\ W[4][2] # Gone
    BY <1>11, NothingGone
  <1>13. /\ district \in DOMAIN db' /\ db'[district] = W[1][2]
         /\ WarehouseRow \in DOMAIN db' /\ db'[WarehouseRow] = W[2][2]
         /\ customer \in DOMAIN db' /\ db'[customer] = W[3][2]
         /\ receipt \in DOMAIN db' /\ db'[receipt] = W[4][2]
    BY <1>3, <1>4, <1>7, <1>12
  <1>14. receipt \notin DOMAIN db
    <2>1. receipt[1] = "history" /\ receipt[2] = i /\ receipt[3] = ended[i] + failures[i]
      BY RowKinds
    <2> QED  BY <1>1, <2>1 DEF IInv, HistoryOK
  <1> HIDE DEF district, customer, receipt
  <1>15. ASSUME NEW row, row \notin {district, WarehouseRow, customer, receipt}
         PROVE  /\ row \in DOMAIN db' <=> row \in DOMAIN db
                /\ row \in DOMAIN db => db'[row] = db[row]
    <2>1. \A k \in 1 .. Len(W) : row # W[k][1]
      BY <1>3, <1>7, <1>15
    <2> QED  BY <1>4, <2>1
  <1>16. DOMAIN db' = DOMAIN db \cup {receipt}
    <2>1. \A row : row \in DOMAIN db' <=> row \in DOMAIN db \cup {receipt}
      BY <1>8, <1>13, <1>15
    <2> QED  BY <2>1
  <1>17. \A row \in DOMAIN db \ {district, WarehouseRow, customer} : db'[row] = db[row]
    BY <1>14, <1>15
  <1>18. W[4][2] = [d |-> r.d]
    BY <1>3
  <1> QED  BY <1>1, <1>10, <1>13, <1>14, <1>16, <1>17, <1>18 DEF Pays, r, district, customer, receipt

\* A delivery takes the oldest order of each of its districts, which still is the
\* oldest, and credits the customer with what it has now.
Delivers(D) ==
    /\ \A d \in D :
          LET o     == Oldest(db, d)
              order == db[OrderRow(d, o)]
              payer == CustomerRow(d, order.c)
          IN
          /\ d \in Due(db)
          /\ db'[OrderRow(d, o)] = [order EXCEPT !.delivered = TRUE]
          /\ db'[payer] = [db[payer] EXCEPT !.balance = @ + order.amount]
    /\ DOMAIN db' = DOMAIN db \ {NewRow(d, Oldest(db, d)) : d \in D}
    /\ \A row \in DOMAIN db' :
          (\A d \in D : /\ row # OrderRow(d, Oldest(db, d))
                        /\ row # CustomerRow(d, db[OrderRow(d, Oldest(db, d))].c))
          => db'[row] = db[row]

\* It is what the commit of a delivery does, for the districts due in its snapshot.
LEMMA DeliveryStored ==
    ASSUME IInv, NEW i \in Clients, pc[i] = "running", todo[i] = <<>>, Stores(i),
           NEW s, RunsOn(i, s), request[i].type = "DELIVERY"
    PROVE  Delivers(Due(s))
PROOF
  <1> DEFINE W == WritesOf(s, i)
             n == Cardinality(Due(s))
             O(d) == OrderRow(d, Oldest(s, d))
             P(d) == CustomerRow(d, s[O(d)].c)
             N(d) == NewRow(d, Oldest(s, d))
  <1>1. W = DeliveryWrites(s)
    BY DEF WritesOf
  <1>2. /\ \A k \in 1 .. Len(W) :
              /\ W[k][1] \in DOMAIN s <=> W[k][1] \in DOMAIN db
              /\ W[k][1] \in DOMAIN s => s[W[k][1]] = db[W[k][1]]
              /\ W[k][2] # Gone => W[k][1] \in DOMAIN db' /\ db'[W[k][1]] = W[k][2]
              /\ W[k][2] = Gone => W[k][1] \notin DOMAIN db'
        /\ \A row : (\A k \in 1 .. Len(W) : row # W[k][1]) =>
              /\ row \in DOMAIN db' <=> row \in DOMAIN db
              /\ row \in DOMAIN db => db'[row] = db[row]
    BY Stored
  <1>3. StoreOK(s) /\ StoreOK(db) /\ Agrees(i, s)
    BY DEF IInv, RunsOn
  <1>4. ASSUME NEW d \in Due(s)
        PROVE  \E k1, k2, k3 \in 1 .. Len(W) :
                  /\ W[k1][1] = O(d) /\ W[k1][2] = [s[O(d)] EXCEPT !.delivered = TRUE]
                  /\ W[k2][1] = P(d) /\ W[k2][2] = [s[P(d)] EXCEPT !.balance = @ + s[O(d)].amount]
                  /\ W[k3][1] = N(d) /\ W[k3][2] = Gone
    <2>1. Len(W) = 3 * n
      BY <1>1, DeliveryEntries
    <2>2. PICK q \in 1 .. n : \A t \in 1 .. 3 :
             3 * q + t - 3 \in 1 .. 3 * n /\ W[3 * q + t - 3] = DistrictDelivery(s, d)[t]
      BY <1>1, DeliveryEntries
    <2> HIDE DEF W, n
    <2>3. \A t \in 1 .. 3 : \E k \in 1 .. Len(W) : W[k] = DistrictDelivery(s, d)[t]
      BY <2>1, <2>2
    <2>4. PICK k1 \in 1 .. Len(W) : W[k1] = DistrictDelivery(s, d)[1]
      BY <2>3
    <2>5. PICK k2 \in 1 .. Len(W) : W[k2] = DistrictDelivery(s, d)[2]
      BY <2>3
    <2>6. PICK k3 \in 1 .. Len(W) : W[k3] = DistrictDelivery(s, d)[3]
      BY <2>3
    <2>7. /\ DistrictDelivery(s, d)[1][1] = O(d)
          /\ DistrictDelivery(s, d)[1][2] = [s[O(d)] EXCEPT !.delivered = TRUE]
          /\ DistrictDelivery(s, d)[2][1] = P(d)
          /\ DistrictDelivery(s, d)[2][2] = [s[P(d)] EXCEPT !.balance = @ + s[O(d)].amount]
          /\ DistrictDelivery(s, d)[3][1] = N(d) /\ DistrictDelivery(s, d)[3][2] = Gone
      BY DEF DistrictDelivery
    <2> HIDE DEF O, P, N
    <2> QED  BY <2>4, <2>5, <2>6, <2>7
  <1> HIDE DEF W
  <1>5. ASSUME NEW k \in 1 .. Len(W)
        PROVE  \E d \in Due(s) : W[k][1] \in {O(d), P(d), N(d)}
    <2>1. /\ n \in Nat /\ Len(W) = 3 * n
          /\ Sorted(Due(s)) \in [1 .. n -> Due(s)]
          /\ \A l \in 1 .. 3 * n :
                /\ W[l] = DistrictDelivery(s, Sorted(Due(s))[(l + 2) \div 3])[((l - 1) % 3) + 1]
                /\ (l + 2) \div 3 \in 1 .. n
      BY <1>1, DeliveryEntries
    <2> DEFINE d == Sorted(Due(s))[(k + 2) \div 3]
               t == ((k - 1) % 3) + 1
    <2>2. d \in Due(s) /\ W[k] = DistrictDelivery(s, d)[t]
      BY <2>1
    <2>3. t \in {1, 2, 3}
      BY <2>1, InThrees
    <2> HIDE DEF d, t, W
    <2>4. /\ DistrictDelivery(s, d)[1][1] = O(d)
          /\ DistrictDelivery(s, d)[2][1] = P(d)
          /\ DistrictDelivery(s, d)[3][1] = N(d)
      BY DEF DistrictDelivery
    <2> HIDE DEF O, P, N
    <2> QED  BY <2>2, <2>3, <2>4
  <1> HIDE DEF W, n
  <1>6. ASSUME NEW d \in Due(s)
        PROVE  /\ d \in DIds /\ Oldest(s, d) \in Nat
               /\ O(d) \in DOMAIN db /\ s[O(d)] = db[O(d)]
               /\ P(d) \in DOMAIN db /\ s[P(d)] = db[P(d)]
               /\ N(d) \in DOMAIN db /\ N(d) \notin DOMAIN db'
               /\ O(d) \in DOMAIN db' /\ db'[O(d)] = [db[O(d)] EXCEPT !.delivered = TRUE]
               /\ P(d) \in DOMAIN db'
               /\ db'[P(d)] = [db[P(d)] EXCEPT !.balance = @ + db[O(d)].amount]
    <2>1. /\ d \in DIds /\ Oldest(s, d) \in Nat
          /\ O(d) \in DOMAIN s /\ P(d) \in DOMAIN s /\ N(d) \in DOMAIN s
          /\ "c" \in DOMAIN s[O(d)] /\ "paid" \in DOMAIN s[P(d)]
      <3>1. s[O(d)] \in IF Oldest(s, d) \in CIds THEN LoadedOrders ELSE PlacedOrders
        BY <1>3, DueOrder
      <3>2. "c" \in DOMAIN s[O(d)]
        BY <3>1 DEF LoadedOrders, PlacedOrders
      <3>3. s[P(d)] \in [balance : Int, paid : Nat]
        BY <1>3, DueOrder
      <3> QED  BY <1>3, <3>2, <3>3, DueOrder
    <2>2. PICK k1, k2, k3 \in 1 .. Len(W) :
             /\ W[k1][1] = O(d) /\ W[k1][2] = [s[O(d)] EXCEPT !.delivered = TRUE]
             /\ W[k2][1] = P(d) /\ W[k2][2] = [s[P(d)] EXCEPT !.balance = @ + s[O(d)].amount]
             /\ W[k3][1] = N(d) /\ W[k3][2] = Gone
      BY <1>4
    <2> HIDE DEF O, P, N
    <2>3. "c" \in DOMAIN W[k1][2] /\ "paid" \in DOMAIN W[k2][2]
      BY <2>1, <2>2
    <2>4. W[k1][2] # Gone /\ W[k2][2] # Gone
      BY <2>3, NothingGone
    <2>5. /\ O(d) \in DOMAIN db /\ s[O(d)] = db[O(d)]
          /\ P(d) \in DOMAIN db /\ s[P(d)] = db[P(d)]
          /\ N(d) \in DOMAIN db
      BY <1>2, <2>1, <2>2
    <2>6. /\ O(d) \in DOMAIN db' /\ db'[O(d)] = W[k1][2]
          /\ P(d) \in DOMAIN db' /\ db'[P(d)] = W[k2][2]
          /\ N(d) \notin DOMAIN db'
      BY <1>2, <2>2, <2>4
    <2> QED  BY <2>1, <2>2, <2>5, <2>6
  <1>7. ASSUME NEW d \in Due(s)
        PROVE  d \in Due(db) /\ Oldest(db, d) = Oldest(s, d)
    <2> DEFINE o == Oldest(s, d)
    <2>1. /\ d \in DIds /\ o \in Nat /\ NewRow(d, o) \in DOMAIN db /\ NewRow(d, o) \in DOMAIN s
          /\ OrderRow(d, o) \in DOMAIN s
          /\ \A p \in Nat : NewRow(d, p) \in DOMAIN s => o <= p
      BY <1>3, <1>6, DueOrder
    <2>2. DOMAIN db \subseteq Rows
      BY <1>3 DEF StoreOK
    <2>3. /\ \A p : p \in Numbered(db, "new_order", d) <=> NewRow(d, p) \in DOMAIN db
          /\ Numbered(db, "new_order", d) \subseteq Nat
      BY <2>1, <2>2, NumberedRows
    <2> HIDE DEF o
    <2>4. d \in Due(db)
      BY <2>1, <2>3 DEF Due
    <2>5. s[DistrictRow(d)].next \in Nat /\ o < s[DistrictRow(d)].next
      <3>1. s[DistrictRow(d)].next \in Nat
        BY <1>3, <2>1, StoreFits
      <3>2. o \in 1 .. s[DistrictRow(d)].next - 1
        BY <1>3, <2>1 DEF StoreOK
      <3> QED  BY <3>1, <3>2
    <2>6. ASSUME NEW p \in Nat, NewRow(d, p) \in DOMAIN db
          PROVE  o <= p
      <3>1. CASE p < s[DistrictRow(d)].next
        <4>1. NewRow(d, p) \in DOMAIN s
          BY <1>3, <2>1, <2>6, <3>1 DEF Agrees
        <4> QED  BY <2>1, <4>1
      <3>2. CASE ~ (p < s[DistrictRow(d)].next)
        BY <2>1, <2>5, <3>2
      <3> QED  BY <3>1, <3>2
    <2>7. /\ Oldest(db, d) \in Nat /\ NewRow(d, Oldest(db, d)) \in DOMAIN db
          /\ \A p \in Numbered(db, "new_order", d) : Oldest(db, d) <= p
      BY <2>1, <2>2, <2>4, OldestIs DEF Due
    <2>8. o <= Oldest(db, d) /\ Oldest(db, d) <= o
      BY <2>1, <2>3, <2>6, <2>7
    <2> QED  BY <2>1, <2>4, <2>7, <2>8 DEF o
  <1>8. ASSUME NEW row, \A d \in Due(s) : row \notin {O(d), P(d), N(d)}
        PROVE  /\ row \in DOMAIN db' <=> row \in DOMAIN db
               /\ row \in DOMAIN db => db'[row] = db[row]
    <2>1. \A k \in 1 .. Len(W) : row # W[k][1]
      BY <1>5, <1>8
    <2> QED  BY <1>2, <2>1
  <1>9. \A d \in Due(s) : /\ O(d) = OrderRow(d, Oldest(db, d))
                         /\ P(d) = CustomerRow(d, db[OrderRow(d, Oldest(db, d))].c)
                         /\ N(d) = NewRow(d, Oldest(db, d))
    BY <1>6, <1>7
  <1>10. \A d \in Due(s) : d \in Due(db)
    BY <1>7
  <1> HIDE DEF O, P, N
  <1>11. DOMAIN db' = DOMAIN db \ {N(d) : d \in Due(s)}
    <2>1. \A row : row \in DOMAIN db' <=> row \in DOMAIN db \ {N(d) : d \in Due(s)}
      BY <1>6, <1>8
    <2> QED  BY <2>1
  <1>12. \A row \in DOMAIN db' : (\A d \in Due(s) : row # O(d) /\ row # P(d)) => db'[row] = db[row]
    BY <1>6, <1>8
  <1>13. {N(d) : d \in Due(s)} = {NewRow(d, Oldest(db, d)) : d \in Due(s)}
    BY <1>9
  <1>14. \A row : (\A d \in Due(s) : /\ row # OrderRow(d, Oldest(db, d))
                                    /\ row # CustomerRow(d, db[OrderRow(d, Oldest(db, d))].c))
                  => \A d \in Due(s) : row # O(d) /\ row # P(d)
    BY <1>9
  <1>15. ASSUME NEW d \in Due(s)
         PROVE  LET o     == Oldest(db, d)
                    order == db[OrderRow(d, o)]
                    payer == CustomerRow(d, order.c)
                IN
                /\ db'[OrderRow(d, o)] = [order EXCEPT !.delivered = TRUE]
                /\ db'[payer] = [db[payer] EXCEPT !.balance = @ + order.amount]
    BY <1>6, <1>9
  <1> QED  BY <1>10, <1>11, <1>12, <1>13, <1>14, <1>15 DEF Delivers


-----------------------------------------------------------------------------
(***************************************************************************)
(* What is stored of an order.                                             *)
(***************************************************************************)

\* Its document is one of an order, with a line for each item.
LEMMA NewOrderIs ==
    ASSUME NEW r \in Orders
    PROVE  /\ NewOrder(r) \in PlacedOrders
           /\ NewOrder(r).delivered = FALSE
           /\ DOMAIN NewOrder(r).lines = 1 .. Len(r.items)
           /\ \A k \in 1 .. Len(r.items) : NewOrder(r).lines[k].item = r.items[k]
PROOF
  <1> DEFINE m == Len(r.items)
             lines == [k \in DOMAIN r.items |-> Line(r, k)]
             amounts == [k \in DOMAIN lines |-> lines[k].amount]
  <1>1. /\ r.c \in CIds /\ m \in Nat /\ r.items \in [1 .. m -> Items]
        /\ r.quantities \in [1 .. m -> Nat] /\ Found(r.items) \in [1 .. m -> Items]
    BY ItemsFound
  <1> HIDE DEF m
  <1>2. ASSUME NEW k \in 1 .. m
        PROVE  Line(r, k) \in Lines /\ Line(r, k).item = r.items[k]
    <2>1. r.items[k] \in Items /\ r.quantities[k] \in Nat /\ Found(r.items)[k] \in Int
      BY <1>1 DEF Items
    <2>2. \A q \in Nat, p \in Int : q * p \in Int
      OBVIOUS
    <2> QED  BY <2>1, <2>2 DEF Line, Lines, Price
  <1>3. DOMAIN r.items = 1 .. m
    BY <1>1
  <1>4. lines = [k \in 1 .. m |-> Line(r, k)]
    BY <1>3
  <1> HIDE DEF lines
  <1>5. /\ DOMAIN lines = 1 .. m
        /\ \A k \in 1 .. m : lines[k] \in Lines /\ lines[k].item = r.items[k]
    BY <1>2, <1>4
  <1>6. lines \in Seq(Lines)
    <2>1. lines \in [1 .. m -> Lines]
      BY <1>2, <1>4
    <2> QED  BY <1>1, <2>1
  <1>7. DOMAIN amounts = 1 .. m /\ \A k \in 1 .. m : amounts[k] \in Int
    BY <1>5 DEF Lines
  <1>8. IsFiniteSet(1 .. m)
    BY <1>1, FS_Interval
  <1> HIDE DEF amounts
  <1>9. SumFunction(amounts) \in Int
    BY <1>7, <1>8, SumType DEF SumFunction
  <1>10. NewOrder(r) = [c |-> r.c, delivered |-> FALSE, lines |-> lines, amount |-> SumFunction(amounts)]
    BY DEF NewOrder, lines, amounts
  <1> QED  BY <1>1, <1>5, <1>6, <1>9, <1>10 DEF PlacedOrders, m

\* What is different after it, row by row.
LEMMA Placed ==
    ASSUME StoreOK(db), NEW r \in Orders, Places(r)
    PROVE  LET o == db[DistrictRow(r.d)].next IN
           /\ r.d \in DIds /\ o \in Nat /\ o \notin CIds
           /\ OrderRow(r.d, o) \notin DOMAIN db /\ NewRow(r.d, o) \notin DOMAIN db
           /\ DOMAIN db' = DOMAIN db \cup {NewRow(r.d, o), OrderRow(r.d, o)}
           /\ \A d \in DIds \ {r.d} : db'[DistrictRow(d)] = db[DistrictRow(d)]
           /\ \A row \in DOMAIN db : row[1] \notin {"district", "stock"} => db'[row] = db[row]
           /\ \A n \in Items :
                 /\ n \in ToSet(r.items) => \E q \in Nat :
                       db'[StockRow(n)] = [ytd   |-> db[StockRow(n)].ytd + q,
                                           count |-> db[StockRow(n)].count + 1]
                 /\ n \notin ToSet(r.items) => db'[StockRow(n)] = db[StockRow(n)]
           /\ \A d \in DIds, p \in Nat :
                 /\ OrderRow(d, p) \in DOMAIN db' <=>
                       OrderRow(d, p) \in DOMAIN db \/ (d = r.d /\ p = o)
                 /\ NewRow(d, p) \in DOMAIN db' <=>
                       NewRow(d, p) \in DOMAIN db \/ (d = r.d /\ p = o)
PROOF
  <1> DEFINE o == db[DistrictRow(r.d)].next
             district == DistrictRow(r.d)
  <1>1. r.d \in DIds
    BY ItemsFound
  <1>2. o \in Nat \ {0} /\ NumCustomers < o
    BY <1>1, StoreFits DEF StoreOK
  <1>3. o \notin CIds /\ ~ (o \in 1 .. o - 1)
    BY <1>2, CustomersAssumption DEF CIds
  <1>4. OrderRow(r.d, o) \notin DOMAIN db /\ NewRow(r.d, o) \notin DOMAIN db
    BY <1>1, <1>2, <1>3 DEF StoreOK
  <1>5. /\ DOMAIN db' = DOMAIN db \cup {NewRow(r.d, o), OrderRow(r.d, o)}
        /\ \A n \in ToSet(r.items) :
              \E q \in Nat : db'[StockRow(n)] = [ytd   |-> db[StockRow(n)].ytd + q,
                                                 count |-> db[StockRow(n)].count + 1]
        /\ \A row \in DOMAIN db :
              row # district /\ (\A n \in ToSet(r.items) : row # StockRow(n)) => db'[row] = db[row]
    BY DEF Places
  <1> HIDE DEF o
  <1>6. ASSUME NEW d \in DIds \ {r.d}
        PROVE  db'[DistrictRow(d)] = db[DistrictRow(d)]
    <2>1. DistrictRow(d) # district /\ \A n : DistrictRow(d) # StockRow(n)
      BY RowKinds
    <2> QED  BY <1>5, <2>1 DEF StoreOK
  <1>7. ASSUME NEW row \in DOMAIN db, row[1] \notin {"district", "stock"}
        PROVE  db'[row] = db[row]
    <2>1. row # district /\ \A n : row # StockRow(n)
      BY <1>7, RowKinds
    <2> QED  BY <1>5, <2>1
  <1>8. ASSUME NEW n \in Items, n \notin ToSet(r.items)
        PROVE  db'[StockRow(n)] = db[StockRow(n)]
    <2>1. StockRow(n) # district /\ \A x \in ToSet(r.items) : StockRow(n) # StockRow(x)
      BY <1>8, RowKinds
    <2>2. StockRow(n) \in DOMAIN db
      BY StoreFits
    <2> QED  BY <1>5, <2>1, <2>2
  <1>9. ASSUME NEW d \in DIds, NEW p \in Nat
        PROVE  /\ OrderRow(d, p) \in DOMAIN db' <=>
                     OrderRow(d, p) \in DOMAIN db \/ (d = r.d /\ p = o)
               /\ NewRow(d, p) \in DOMAIN db' <=>
                     NewRow(d, p) \in DOMAIN db \/ (d = r.d /\ p = o)
    BY <1>5, RowKinds
  <1> QED  BY <1>1, <1>2, <1>3, <1>4, <1>5, <1>6, <1>7, <1>8, <1>9 DEF o

\* The documents are those of a store, and no snapshot is the worse for it.
LEMMA PlacesStore ==
    ASSUME StoreOK(db), NEW r \in Orders, Places(r)
    PROVE  StoreOK(db') /\ Advances
PROOF
  <1> DEFINE o == db[DistrictRow(r.d)].next
  <1>1. r.d \in DIds /\ o \in Nat /\ o \notin CIds
    BY Placed
  <1>2. DOMAIN db' = DOMAIN db \cup {NewRow(r.d, o), OrderRow(r.d, o)}
    BY Placed
  <1>3. /\ db'[DistrictRow(r.d)] = [db[DistrictRow(r.d)] EXCEPT !.next = o + 1]
        /\ db'[NewRow(r.d, o)] = [new |-> TRUE] /\ db'[OrderRow(r.d, o)] = NewOrder(r)
    BY DEF Places
  <1>4. /\ \A d \in DIds \ {r.d} : db'[DistrictRow(d)] = db[DistrictRow(d)]
        /\ \A row \in DOMAIN db : row[1] \notin {"district", "stock"} => db'[row] = db[row]
    BY Placed
  <1>5. \A n \in Items : db'[StockRow(n)] \in [ytd : Nat, count : Nat]
    <2>1. ASSUME NEW n \in Items
          PROVE  db'[StockRow(n)] \in [ytd : Nat, count : Nat]
      <3>1. db[StockRow(n)] \in [ytd : Nat, count : Nat]
        BY StoreFits
      <3>2. CASE n \in ToSet(r.items)
        <4>1. PICK q \in Nat : db'[StockRow(n)] = [ytd   |-> db[StockRow(n)].ytd + q,
                                                   count |-> db[StockRow(n)].count + 1]
          BY <3>2, Placed
        <4> QED  BY <3>1, <4>1
      <3>3. CASE n \notin ToSet(r.items)
        BY <3>1, <3>3, Placed
      <3> QED  BY <3>2, <3>3
    <2> QED  BY <2>1
  <1>6. \A d \in DIds, p \in Nat :
           /\ OrderRow(d, p) \in DOMAIN db' <=> OrderRow(d, p) \in DOMAIN db \/ (d = r.d /\ p = o)
           /\ NewRow(d, p) \in DOMAIN db' <=> NewRow(d, p) \in DOMAIN db \/ (d = r.d /\ p = o)
    BY Placed
  <1>7. db[DistrictRow(r.d)] \in [next : Nat \ {0}, ytd : Nat] /\ DistrictRow(r.d) \in DOMAIN db
    BY <1>1, StoreFits DEF StoreOK
  <1>8. db'[DistrictRow(r.d)].next = o + 1 /\ db'[DistrictRow(r.d)] \in [next : Nat \ {0}, ytd : Nat]
    BY <1>1, <1>3, <1>7
  <1> HIDE DEF o
  <1>9. DOMAIN db' \subseteq Rows /\ DOMAIN db \subseteq DOMAIN db'
    BY <1>1, <1>2, RowsThereMayBe DEF StoreOK
  <1>10. ASSUME NEW row \in DOMAIN db'
         PROVE  Fits(row, db'[row])
    <2>1. CASE row = NewRow(r.d, o)
      BY <1>3, <2>1, RowKinds DEF Fits
    <2>2. CASE row = OrderRow(r.d, o)
      <3>1. row[1] = "orders" /\ row[3] \notin CIds
        BY <1>1, <2>2, RowKinds
      <3>2. db'[row] \in PlacedOrders
        BY <1>3, <2>2, NewOrderIs
      <3> QED  BY <3>1, <3>2 DEF Fits
    <2>3. CASE row \in DOMAIN db
      <3>1. Fits(row, db[row]) /\ row \in Rows
        BY <2>3 DEF StoreOK
      <3>2. CASE row[1] = "district"
        <4>1. row[2] \in DIds /\ row = DistrictRow(row[2])
          BY <3>1, <3>2, RowsOfTables
        <4>2. db'[row] \in [next : Nat \ {0}, ytd : Nat]
          <5>1. CASE row[2] = r.d
            BY <1>8, <4>1, <5>1
          <5>2. CASE row[2] # r.d
            BY <1>4, <3>1, <3>2, <4>1, <5>2 DEF Fits
          <5> QED  BY <5>1, <5>2
        <4> QED  BY <3>2, <4>2 DEF Fits
      <3>3. CASE row[1] = "stock"
        <4>1. row[3] \in Items /\ row = StockRow(row[3])
          BY <3>1, <3>3, RowsOfTables
        <4>2. db'[row] \in [ytd : Nat, count : Nat]
          BY <1>5, <4>1
        <4> QED  BY <3>3, <4>2 DEF Fits
      <3>4. CASE row[1] \notin {"district", "stock"}
        BY <1>4, <2>3, <3>1, <3>4
      <3> QED  BY <3>2, <3>3, <3>4
    <2> QED  BY <1>2, <2>1, <2>2, <2>3
  <1>11. ASSUME NEW d \in DIds
         PROVE  /\ db[DistrictRow(d)].next \in Nat /\ db'[DistrictRow(d)].next \in Nat
                /\ db'[DistrictRow(d)].next = db[DistrictRow(d)].next + (IF d = r.d THEN 1 ELSE 0)
                /\ NumCustomers < db[DistrictRow(d)].next
    <2>1. db[DistrictRow(d)].next \in Nat /\ NumCustomers < db[DistrictRow(d)].next
      BY StoreFits DEF StoreOK
    <2> QED  BY <1>4, <1>8, <2>1 DEF o
  <1>12. ASSUME NEW d \in DIds, NEW p \in Nat
         PROVE  /\ OrderRow(d, p) \in DOMAIN db' <=> p \in 1 .. db'[DistrictRow(d)].next - 1
                /\ NewRow(d, p) \in DOMAIN db' => OrderRow(d, p) \in DOMAIN db'
    <2>1. /\ OrderRow(d, p) \in DOMAIN db <=> p \in 1 .. db[DistrictRow(d)].next - 1
          /\ NewRow(d, p) \in DOMAIN db => OrderRow(d, p) \in DOMAIN db
      BY DEF StoreOK
    <2>2. CASE d = r.d
      <3>1. db[DistrictRow(d)].next = o /\ o \in Nat \ {0}
        BY <1>7, <2>2 DEF o
      <3> QED  BY <1>6, <1>11, <2>1, <2>2, <3>1
    <2>3. CASE d # r.d
      BY <1>6, <1>11, <2>1, <2>3
    <2> QED  BY <2>2, <2>3
  <1>13. StoreOK(db')
    <2>1. \A d \in DIds : NumCustomers < db'[DistrictRow(d)].next
      BY <1>11, CustomersAssumption
    <2> QED  BY <1>9, <1>10, <1>12, <2>1 DEF StoreOK
  <1>14. Advances
    <2>1. \A d \in DIds : db[DistrictRow(d)].next <= db'[DistrictRow(d)].next
      BY <1>11
    <2>2. ASSUME NEW d \in DIds, NEW p \in Nat,
                 p < db[DistrictRow(d)].next, NewRow(d, p) \in DOMAIN db'
          PROVE  NewRow(d, p) \in DOMAIN db
      <3>1. ~ (d = r.d /\ p = o)
        BY <1>1, <2>2 DEF o
      <3> QED  BY <1>6, <2>2, <3>1
    <2> QED  BY <2>1, <2>2 DEF Advances
  <1> QED  BY <1>13, <1>14


\* Tables that do not change: the payments on record,
LEMMA SameHistory ==
    ASSUME NEW d,
           \A row : row[1] = "history" =>
              /\ row \in DOMAIN db' <=> row \in DOMAIN db
              /\ row \in DOMAIN db => db'[row] = db[row]
    PROVE  History(db', d) = History(db, d)
PROOF
  <1>1. ASSUME NEW row
        PROVE  row \in History(db', d) <=> row \in History(db, d)
    BY DEF History
  <1> QED  BY <1>1

\* Receipts stay numbered when none is added, by the one client that moves.
LEMMA SameHistoryOK ==
    ASSUME IInv, NEW i \in Clients, \A j \in Clients \ {i} : Kept(j),
           ended[i] + failures[i] \in Nat, ended'[i] + failures'[i] \in Nat,
           ended[i] + failures[i] <= ended'[i] + failures'[i],
           \A row : row[1] = "history" =>
              /\ row \in DOMAIN db' <=> row \in DOMAIN db
              /\ row \in DOMAIN db => db'[row] = db[row]
    PROVE  HistoryOK'
PROOF
  <1>1. ASSUME NEW row \in DOMAIN db', row[1] = "history"
        PROVE  row[3] < ended'[row[2]] + failures'[row[2]]
    <2>1. row \in DOMAIN db
      BY <1>1
    <2>2. row[2] \in Clients /\ row[3] \in Nat /\ row[3] < ended[row[2]] + failures[row[2]]
      BY <1>1, <2>1, RowsOfTables DEF IInv, StoreOK, HistoryOK
    <2>3. CASE row[2] = i
      BY <2>2, <2>3
    <2>4. CASE row[2] # i
      BY <2>2, <2>4 DEF Kept
    <2> QED  BY <2>3, <2>4
  <1>2. \A d \in DIds : History(db', d) = History(db, d)
    BY SameHistory
  <1> QED  BY <1>1, <1>2 DEF IInv, HistoryOK

\* and the lines of the orders, with the number of lines in the stock.
LEMMA SameLines ==
    ASSUME LinesOK, StoreOK(db), StoreOK(db'),
           \A d \in DIds : Numbered(db', "orders", d) = Numbered(db, "orders", d),
           \A d \in DIds : \A o \in Numbered(db, "orders", d) \ CIds :
              db'[OrderRow(d, o)].lines = db[OrderRow(d, o)].lines,
           \A n \in Items : db'[StockRow(n)].count = db[StockRow(n)].count
    PROVE  LinesOK'
PROOF
  <1>1. ASSUME NEW d \in DIds
        PROVE  PlacedLines(d)' = PlacedLines(d)
    BY DEF PlacedLines
  <1>2. AllLines' = AllLines
    BY <1>1 DEF AllLines
  <1>3. ASSUME NEW x \in AllLines
        PROVE  LineAt(x)' = LineAt(x)
    <2>1. PICK d \in DIds : x \in PlacedLines(d)
      BY DEF AllLines
    <2>2. PICK o \in Numbered(db, "orders", d) \ CIds : x[1] = d /\ x[2] = o
      BY <2>1 DEF PlacedLines
    <2> QED  BY <2>2 DEF LineAt
  <1>4. \A n : {x \in AllLines' : LineAt(x)'.item = n} = {x \in AllLines : LineAt(x).item = n}
    BY <1>2, <1>3
  <1> QED  BY <1>2, <1>4 DEF LinesOK, StockCountsLines


\* An order and the next number: what verify.js checks still holds.
LEMMA PlacesChecks ==
    ASSUME ChecksOK, StoreOK(db), NEW r \in Orders, Places(r)
    PROVE  ChecksOK'
PROOF
  <1> DEFINE o == db[DistrictRow(r.d)].next
  <1>1. r.d \in DIds /\ o \in Nat /\ o \notin CIds
    BY Placed
  <1>2. /\ DOMAIN db' = DOMAIN db \cup {NewRow(r.d, o), OrderRow(r.d, o)}
        /\ OrderRow(r.d, o) \notin DOMAIN db /\ NewRow(r.d, o) \notin DOMAIN db
    BY Placed
  <1>3. \A row \in DOMAIN db : row[1] \notin {"district", "stock"} => db'[row] = db[row]
    BY Placed
  <1>4. \A d \in DIds, p \in Nat :
           /\ OrderRow(d, p) \in DOMAIN db' <=> OrderRow(d, p) \in DOMAIN db \/ (d = r.d /\ p = o)
           /\ NewRow(d, p) \in DOMAIN db' <=> NewRow(d, p) \in DOMAIN db \/ (d = r.d /\ p = o)
    BY Placed
  <1>5. db'[DistrictRow(r.d)] = [db[DistrictRow(r.d)] EXCEPT !.next = o + 1]
        /\ db'[OrderRow(r.d, o)] = NewOrder(r)
    BY DEF Places
  <1>6. \A d \in DIds \ {r.d} : db'[DistrictRow(d)] = db[DistrictRow(d)]
    BY Placed
  <1>7. db[DistrictRow(r.d)] \in [next : Nat \ {0}, ytd : Nat]
    BY <1>1, StoreFits
  <1>8. /\ \A d \in DIds : db'[DistrictRow(d)].ytd = db[DistrictRow(d)].ytd
        /\ \A d \in DIds : db'[DistrictRow(d)].next = IF d = r.d THEN o + 1 ELSE db[DistrictRow(d)].next
    BY <1>5, <1>6, <1>7
  <1> HIDE DEF o
  <1>9. StoreOK(db')
    BY PlacesStore
  <1>10. ASSUME NEW d \in DIds
         PROVE  /\ \A p : p \in Numbered(db, "orders", d) <=> OrderRow(d, p) \in DOMAIN db
                /\ \A p : p \in Numbered(db', "orders", d) <=> OrderRow(d, p) \in DOMAIN db'
                /\ \A p : p \in Numbered(db, "new_order", d) <=> NewRow(d, p) \in DOMAIN db
                /\ \A p : p \in Numbered(db', "new_order", d) <=> NewRow(d, p) \in DOMAIN db'
                /\ Numbered(db, "orders", d) \subseteq Nat
                /\ Numbered(db', "orders", d) \subseteq Nat
    BY <1>9, NumberedRows DEF StoreOK
  <1>11. ASSUME NEW d \in DIds, NEW p \in Numbered(db, "orders", d)
         PROVE  db'[OrderRow(d, p)] = db[OrderRow(d, p)]
    BY <1>3, <1>10, RowKinds
  <1>12. Check1(db')
    <2>1. db'[WarehouseRow] = db[WarehouseRow]
      BY <1>3, RowKinds DEF StoreOK
    <2>2. [d \in DIds |-> db'[DistrictRow(d)].ytd] = [d \in DIds |-> db[DistrictRow(d)].ytd]
      BY <1>8
    <2> QED  BY <2>1, <2>2 DEF ChecksOK, Check1
  <1>13. LastAreNew'
    <2> SUFFICES ASSUME NEW d \in DIds, NEW p \in Nat, NEW q \in Nat,
                        NewRow(d, p) \in DOMAIN db', p <= q, q < db'[DistrictRow(d)].next
                 PROVE  NewRow(d, q) \in DOMAIN db'
      BY DEF LastAreNew
    <2>1. CASE d = r.d /\ q = o
      BY <1>4, <2>1
    <2>2. CASE ~ (d = r.d /\ q = o)
      <3>1. db[DistrictRow(d)].next \in Nat
        BY StoreFits
      <3>2. q < db[DistrictRow(d)].next
        BY <1>1, <1>8, <2>2, <3>1 DEF o
      <3>3. ~ (d = r.d /\ p = o)
        BY <1>1, <3>2 DEF o
      <3>4. NewRow(d, p) \in DOMAIN db
        BY <1>4, <3>3
      <3>5. NewRow(d, q) \in DOMAIN db
        BY <3>2, <3>4 DEF ChecksOK, LastAreNew
      <3> QED  BY <1>4, <3>5
    <2> QED  BY <2>1, <2>2
  <1>14. Check5(db')
    <2> SUFFICES ASSUME NEW d \in DIds, NEW p \in Numbered(db', "orders", d)
                 PROVE  db'[OrderRow(d, p)].delivered <=> p \notin Numbered(db', "new_order", d)
      BY DEF Check5
    <2>1. p \in Nat /\ OrderRow(d, p) \in DOMAIN db'
      BY <1>10
    <2>2. CASE d = r.d /\ p = o
      <3>1. p \in Numbered(db', "new_order", d)
        BY <1>4, <1>10, <2>1, <2>2
      <3>2. db'[OrderRow(d, p)].delivered = FALSE
        BY <1>5, <2>2, NewOrderIs
      <3> QED  BY <3>1, <3>2
    <2>3. CASE ~ (d = r.d /\ p = o)
      <3>1. p \in Numbered(db, "orders", d)
        BY <1>4, <1>10, <2>1, <2>3
      <3>2. p \in Numbered(db', "new_order", d) <=> p \in Numbered(db, "new_order", d)
        BY <1>4, <1>10, <2>1, <2>3
      <3>3. db[OrderRow(d, p)].delivered <=> p \notin Numbered(db, "new_order", d)
        BY <3>1 DEF ChecksOK, Check5
      <3> QED  BY <1>11, <3>1, <3>2, <3>3
    <2> QED  BY <2>2, <2>3
  <1>15. Check9(db')
    <2>1. \A row : row[1] = "history" =>
             /\ row \in DOMAIN db' <=> row \in DOMAIN db
             /\ row \in DOMAIN db => db'[row] = db[row]
      BY <1>2, <1>3, RowKinds
    <2>2. \A d \in DIds : History(db', d) = History(db, d)
      BY <2>1, SameHistory
    <2> QED  BY <1>8, <2>2 DEF ChecksOK, Check9
  <1>16. Check12(db')
    <2> SUFFICES ASSUME NEW d \in DIds, NEW c \in CIds
                 PROVE  db'[CustomerRow(d, c)].balance + db'[CustomerRow(d, c)].paid =
                            DeliveredAmount(db', d, c)
      BY DEF Check12
    <2>1. db'[CustomerRow(d, c)] = db[CustomerRow(d, c)]
      <3>1. CustomerRow(d, c) \in DOMAIN db
        BY StoreFits
      <3> QED  BY <1>3, <3>1, RowKinds
    <2>2. Delivered(db', d, c) = Delivered(db, d, c)
      <3>1. ASSUME NEW p
            PROVE  p \in Delivered(db', d, c) <=> p \in Delivered(db, d, c)
        <4>1. CASE p \in Numbered(db, "orders", d)
          <5>1. p \in Numbered(db', "orders", d)
            BY <1>2, <1>10, <4>1
          <5> QED  BY <1>11, <4>1, <5>1 DEF Delivered
        <4>2. CASE p \notin Numbered(db, "orders", d)
          <5>1. p \in Numbered(db', "orders", d) => db'[OrderRow(d, p)].delivered = FALSE
            <6> SUFFICES ASSUME p \in Numbered(db', "orders", d)
                         PROVE  db'[OrderRow(d, p)].delivered = FALSE
              OBVIOUS
            <6>1. d = r.d /\ p = o
              BY <1>4, <1>10, <4>2
            <6> QED  BY <1>5, <6>1, NewOrderIs
          <5> QED  BY <4>2, <5>1 DEF Delivered
        <4> QED  BY <4>1, <4>2
      <3> QED  BY <3>1
    <2>3. [p \in Delivered(db', d, c) |-> db'[OrderRow(d, p)].amount]
             = [p \in Delivered(db, d, c) |-> db[OrderRow(d, p)].amount]
      BY <1>11, <2>2 DEF Delivered
    <2>4. DeliveredAmount(db', d, c) = DeliveredAmount(db, d, c)
      BY <2>3 DEF DeliveredAmount
    <2> QED  BY <2>1, <2>4 DEF ChecksOK, Check12
  <1> QED  BY <1>12, <1>13, <1>14, <1>15, <1>16 DEF ChecksOK

\* One line more of each of the items, and one more counted.
LEMMA PlacesLines ==
    ASSUME LinesOK, StoreOK(db), NEW r \in Orders, Places(r)
    PROVE  LinesOK'
PROOF
  <1>0. PICK o : o = db[DistrictRow(r.d)].next
    OBVIOUS
  <1> DEFINE m == Len(r.items)
             New == {<<r.d, o, k>> : k \in 1 .. m}
  <1>1. r.d \in DIds /\ o \in Nat /\ o \notin CIds
    BY <1>0, Placed
  <1>2. /\ m \in Nat /\ r.items \in [1 .. m -> Items]
        /\ \A j, k \in 1 .. m : r.items[j] = r.items[k] => j = k
    BY ItemsFound
  <1>3. DOMAIN db' = DOMAIN db \cup {NewRow(r.d, o), OrderRow(r.d, o)}
        /\ OrderRow(r.d, o) \notin DOMAIN db
    BY <1>0, Placed
  <1>4. /\ DOMAIN db'[OrderRow(r.d, o)].lines = 1 .. m
        /\ \A k \in 1 .. m : db'[OrderRow(r.d, o)].lines[k].item = r.items[k]
    <2>1. db'[OrderRow(r.d, o)] = NewOrder(r)
      BY <1>0 DEF Places
    <2> QED  BY <2>1, NewOrderIs
  <1>5. \A d \in DIds, p \in Nat :
           OrderRow(d, p) \in DOMAIN db' <=> OrderRow(d, p) \in DOMAIN db \/ (d = r.d /\ p = o)
    BY <1>0, Placed
  <1>6. StoreOK(db')
    BY PlacesStore
  <1>7. ASSUME NEW n \in Items
        PROVE  db'[StockRow(n)].count =
                  db[StockRow(n)].count + (IF n \in ToSet(r.items) THEN 1 ELSE 0)
    <2>1. db[StockRow(n)].count \in Nat
      BY StoreFits
    <2>2. CASE n \in ToSet(r.items)
      <3>1. PICK q \in Nat : db'[StockRow(n)] = [ytd   |-> db[StockRow(n)].ytd + q,
                                                 count |-> db[StockRow(n)].count + 1]
        BY <2>2, Placed
      <3> QED  BY <2>2, <3>1
    <2>3. CASE n \notin ToSet(r.items)
      <3>1. db'[StockRow(n)] = db[StockRow(n)]
        BY <2>3, Placed
      <3> QED  BY <2>1, <2>3, <3>1
    <2> QED  BY <2>2, <2>3
  <1>8. \A row \in DOMAIN db : row[1] \notin {"district", "stock"} => db'[row] = db[row]
    BY Placed
  <1> HIDE DEF m
  <1>9. ASSUME NEW d \in DIds
        PROVE  /\ Numbered(db', "orders", d)
                     = Numbered(db, "orders", d) \cup IF d = r.d THEN {o} ELSE {}
               /\ \A p \in Numbered(db, "orders", d) : db'[OrderRow(d, p)] = db[OrderRow(d, p)]
               /\ d = r.d => o \notin Numbered(db, "orders", d)
    <2>1. /\ \A p : p \in Numbered(db, "orders", d) <=> OrderRow(d, p) \in DOMAIN db
          /\ \A p : p \in Numbered(db', "orders", d) <=> OrderRow(d, p) \in DOMAIN db'
          /\ Numbered(db, "orders", d) \subseteq Nat
          /\ Numbered(db', "orders", d) \subseteq Nat
      BY <1>6, NumberedRows DEF StoreOK
    <2>2. \A p : p \in Numbered(db', "orders", d) <=>
             p \in Numbered(db, "orders", d) \/ (d = r.d /\ p = o)
      BY <1>1, <1>5, <2>1
    <2>3. Numbered(db', "orders", d) = Numbered(db, "orders", d) \cup IF d = r.d THEN {o} ELSE {}
      BY <2>2
    <2>4. \A p \in Numbered(db, "orders", d) : db'[OrderRow(d, p)] = db[OrderRow(d, p)]
      BY <1>8, <2>1, RowKinds
    <2> QED  BY <1>3, <2>1, <2>3, <2>4
  <1>10. ASSUME NEW d \in DIds
         PROVE  PlacedLines(d)' = PlacedLines(d) \cup IF d = r.d THEN New ELSE {}
    <2> DEFINE At(p) == {<<d, p, k>> : k \in DOMAIN db[OrderRow(d, p)].lines}
               AtNext(p) == {<<d, p, k>> : k \in DOMAIN db'[OrderRow(d, p)].lines}
               S == Numbered(db, "orders", d) \ CIds
    <2>1. PlacedLines(d) = UNION {At(p) : p \in S}
      BY DEF PlacedLines
    <2>2. PlacedLines(d)' = UNION {AtNext(p) : p \in Numbered(db', "orders", d) \ CIds}
      BY DEF PlacedLines
    <2>3. \A p \in S : AtNext(p) = At(p)
      BY <1>9
    <2>4. d = r.d => AtNext(o) = New
      BY <1>4
    <2>5. Numbered(db', "orders", d) \ CIds = S \cup IF d = r.d THEN {o} ELSE {}
      BY <1>1, <1>9
    <2> HIDE DEF At, AtNext, New, S
    <2> QED  BY <2>1, <2>2, <2>3, <2>4, <2>5
  <1>11. AllLines' = AllLines \cup New
    <2> HIDE DEF New
    <2>1. AllLines = UNION {PlacedLines(d) : d \in DIds}
      BY DEF AllLines
    <2>2. AllLines' = UNION {PlacedLines(d)' : d \in DIds}
      BY DEF AllLines
    <2> QED  BY <1>1, <1>10, <2>1, <2>2
  <1>12. ASSUME NEW x \in AllLines
         PROVE  LineAt(x)' = LineAt(x) /\ x \notin New
    <2>1. PICK d \in DIds : x \in PlacedLines(d)
      BY DEF AllLines
    <2>2. PICK p \in Numbered(db, "orders", d) : x[1] = d /\ x[2] = p
      BY <2>1 DEF PlacedLines
    <2>3. \A y \in New : y[1] = r.d /\ y[2] = o
      OBVIOUS
    <2> HIDE DEF New
    <2> QED  BY <1>9, <2>2, <2>3 DEF LineAt
  <1>13. \A k \in 1 .. m : LineAt(<<r.d, o, k>>)'.item = r.items[k]
    BY <1>4 DEF LineAt
  <1>14. IsFiniteSet(AllLines')
    <2>1. IsFiniteSet(1 .. m)
      BY <1>2, FS_Interval
    <2>2. IsFiniteSet(New)
      <3> DEFINE f == [k \in 1 .. m |-> <<r.d, o, k>>]
      <3>1. f \in Surjection(1 .. m, New)
        BY DEF Surjection
      <3> HIDE DEF f, New
      <3> QED  BY <2>1, <3>1, FS_Surjection
    <2> HIDE DEF New
    <2> QED  BY <1>11, <2>2, FS_Union DEF LinesOK
  <1>15. ASSUME NEW n \in Items
         PROVE  db'[StockRow(n)].count = Cardinality({x \in AllLines' : LineAt(x)'.item = n})
    <2> DEFINE Before == {x \in AllLines : LineAt(x).item = n}
               After  == {x \in AllLines' : LineAt(x)'.item = n}
    <2>1. IsFiniteSet(Before) /\ Cardinality(Before) = db[StockRow(n)].count
      BY FS_Subset DEF LinesOK, StockCountsLines
    <2>2. After = Before \cup {x \in New : LineAt(x)'.item = n}
      <3> HIDE DEF New
      <3> QED  BY <1>11, <1>12
    <2>3. CASE n \in ToSet(r.items)
      <3>1. PICK k \in 1 .. m : r.items[k] = n
        BY <1>2, <2>3 DEF ToSet
      <3>2. \A j \in 1 .. m : r.items[j] = n => j = k
        BY <1>2, <3>1
      <3>3. {x \in New : LineAt(x)'.item = n} = {<<r.d, o, k>>}
        BY <1>13, <3>1, <3>2
      <3>4. <<r.d, o, k>> \notin Before
        BY <1>12
      <3> HIDE DEF Before, After
      <3>5. Cardinality(After) = Cardinality(Before) + 1
        BY <2>1, <2>2, <3>3, <3>4, FS_AddElement
      <3> QED  BY <1>7, <2>1, <2>3, <3>5 DEF After
    <2>4. CASE n \notin ToSet(r.items)
      <3>1. \A k \in 1 .. m : r.items[k] # n
        BY <1>2, <2>4 DEF ToSet
      <3>2. {x \in New : LineAt(x)'.item = n} = {}
        BY <1>13, <3>1
      <3>3. After = Before
        BY <2>2, <3>2
      <3>4. db[StockRow(n)].count \in Nat
        BY StoreFits
      <3> HIDE DEF Before, After
      <3>5. db'[StockRow(n)].count = Cardinality(After)
        BY <1>7, <2>1, <2>4, <3>3, <3>4
      <3> QED  BY <3>5 DEF After
    <2> QED  BY <2>3, <2>4
  <1> QED  BY <1>14, <1>15 DEF LinesOK, StockCountsLines


-----------------------------------------------------------------------------
(***************************************************************************)
(* What is stored of a delivery.                                           *)
(***************************************************************************)

\* What is different after it, row by row.
LEMMA Taken ==
    ASSUME StoreOK(db), NEW D, Delivers(D)
    PROVE  /\ D \subseteq Due(db)
           /\ DOMAIN db' \subseteq DOMAIN db
           /\ \A row \in DOMAIN db : row[1] # "new_order" => row \in DOMAIN db'
           /\ \A row \in DOMAIN db' : row[1] \notin {"orders", "customer"} => db'[row] = db[row]
           /\ \A d \in DIds, o \in Nat : NewRow(d, o) \in DOMAIN db' <=>
                 NewRow(d, o) \in DOMAIN db /\ ~ (d \in D /\ o = Oldest(db, d))
           /\ \A d \in DIds, o \in Nat : OrderRow(d, o) \in DOMAIN db =>
                 db'[OrderRow(d, o)] =
                    IF d \in D /\ o = Oldest(db, d)
                      THEN [db[OrderRow(d, o)] EXCEPT !.delivered = TRUE]
                      ELSE db[OrderRow(d, o)]
           /\ \A d \in DIds, c \in CIds :
                 LET order == db[OrderRow(d, Oldest(db, d))] IN
                 db'[CustomerRow(d, c)] =
                    IF d \in D /\ c = order.c
                      THEN [db[CustomerRow(d, c)] EXCEPT !.balance = @ + order.amount]
                      ELSE db[CustomerRow(d, c)]
PROOF
  <1> DEFINE O(d) == OrderRow(d, Oldest(db, d))
             P(d) == CustomerRow(d, db[O(d)].c)
             N(d) == NewRow(d, Oldest(db, d))
  <1>1. /\ \A d \in D :
              /\ d \in Due(db)
              /\ db'[O(d)] = [db[O(d)] EXCEPT !.delivered = TRUE]
              /\ db'[P(d)] = [db[P(d)] EXCEPT !.balance = @ + db[O(d)].amount]
        /\ DOMAIN db' = DOMAIN db \ {N(d) : d \in D}
        /\ \A row \in DOMAIN db' : (\A d \in D : row # O(d) /\ row # P(d)) => db'[row] = db[row]
    BY DEF Delivers
  <1>2. /\ \A d : O(d)[1] = "orders" /\ O(d)[2] = d /\ O(d)[3] = Oldest(db, d)
        /\ \A d : P(d)[1] = "customer" /\ P(d)[2] = d /\ P(d)[3] = db[O(d)].c
        /\ \A d : N(d)[1] = "new_order" /\ N(d)[2] = d /\ N(d)[3] = Oldest(db, d)
    BY RowKinds
  <1>3. \A row \in DOMAIN db : row[1] # "new_order" => row \in DOMAIN db'
    BY <1>1, <1>2
  <1>4. \A row \in DOMAIN db' : row[1] \notin {"orders", "customer"} => db'[row] = db[row]
    BY <1>1, <1>2
  <1>5. ASSUME NEW d \in DIds, NEW o \in Nat
        PROVE  NewRow(d, o) \in DOMAIN db' <=>
                  NewRow(d, o) \in DOMAIN db /\ ~ (d \in D /\ o = Oldest(db, d))
    <2>1. NewRow(d, o)[2] = d /\ NewRow(d, o)[3] = o
      BY RowKinds
    <2>2. \A e \in D : NewRow(d, o) = N(e) => e = d /\ o = Oldest(db, e)
      BY <1>2, <2>1
    <2> QED  BY <1>1, <2>2
  <1>6. ASSUME NEW d \in DIds, NEW o \in Nat, OrderRow(d, o) \in DOMAIN db
        PROVE  db'[OrderRow(d, o)] =
                  IF d \in D /\ o = Oldest(db, d)
                    THEN [db[OrderRow(d, o)] EXCEPT !.delivered = TRUE]
                    ELSE db[OrderRow(d, o)]
    <2>1. OrderRow(d, o)[1] = "orders" /\ OrderRow(d, o)[2] = d /\ OrderRow(d, o)[3] = o
      BY RowKinds
    <2>2. CASE d \in D /\ o = Oldest(db, d)
      BY <1>1, <2>2
    <2>3. CASE ~ (d \in D /\ o = Oldest(db, d))
      <3>1. \A e \in D : OrderRow(d, o) # O(e) /\ OrderRow(d, o) # P(e)
        BY <1>2, <2>1, <2>3
      <3>2. OrderRow(d, o) \in DOMAIN db'
        BY <1>3, <1>6, <2>1
      <3> QED  BY <1>1, <2>3, <3>1, <3>2
    <2> QED  BY <2>2, <2>3
  <1>7. ASSUME NEW d \in DIds, NEW c \in CIds
        PROVE  db'[CustomerRow(d, c)] =
                  IF d \in D /\ c = db[O(d)].c
                    THEN [db[CustomerRow(d, c)] EXCEPT !.balance = @ + db[O(d)].amount]
                    ELSE db[CustomerRow(d, c)]
    <2>1. /\ CustomerRow(d, c)[1] = "customer" /\ CustomerRow(d, c)[2] = d
          /\ CustomerRow(d, c)[3] = c
      BY RowKinds
    <2>2. CASE d \in D /\ c = db[O(d)].c
      BY <1>1, <2>2
    <2>3. CASE ~ (d \in D /\ c = db[O(d)].c)
      <3> HIDE DEF O
      <3>1. \A e \in D : CustomerRow(d, c) # O(e) /\ CustomerRow(d, c) # P(e)
        BY <1>2, <2>1, <2>3
      <3>2. CustomerRow(d, c) \in DOMAIN db'
        BY <1>3, <2>1, StoreFits
      <3> QED  BY <1>1, <2>3, <3>1, <3>2
    <2> QED  BY <2>2, <2>3
  <1>8. D \subseteq Due(db) /\ DOMAIN db' \subseteq DOMAIN db
    BY <1>1
  <1> QED  BY <1>3, <1>4, <1>5, <1>6, <1>7, <1>8

\* The rows of a delivery fit their tables; no next order number falls.
LEMMA DeliversStore ==
    ASSUME StoreOK(db), NEW D, Delivers(D)
    PROVE  StoreOK(db') /\ Advances
PROOF
  <1>1. /\ D \subseteq Due(db) /\ DOMAIN db' \subseteq DOMAIN db
        /\ \A row \in DOMAIN db : row[1] # "new_order" => row \in DOMAIN db'
        /\ \A row \in DOMAIN db' : row[1] \notin {"orders", "customer"} => db'[row] = db[row]
    BY Taken
  <1>2. /\ WarehouseRow \in DOMAIN db' /\ \A d \in DIds : DistrictRow(d) \in DOMAIN db'
        /\ CustomerRows \cup StockRows \subseteq DOMAIN db'
    BY <1>1, RowKinds DEF StoreOK, CustomerRows, StockRows
  <1>3. \A d \in DIds : db'[DistrictRow(d)] = db[DistrictRow(d)]
    BY <1>1, <1>2, RowKinds
  <1>4. ASSUME NEW row \in DOMAIN db'
        PROVE  Fits(row, db'[row])
    <2>1. Fits(row, db[row]) /\ row \in Rows
      BY <1>1 DEF StoreOK
    <2>2. CASE row[1] = "orders"
      <3>1. row[2] \in DIds /\ row[3] \in Nat /\ row = OrderRow(row[2], row[3])
        BY <2>1, <2>2, RowsOfTables
      <3>2. db'[row] = [db[row] EXCEPT !.delivered = TRUE] \/ db'[row] = db[row]
        <4>1. PICK d \in DIds, o \in Nat : row = OrderRow(d, o)
          BY <3>1
        <4>2. OrderRow(d, o) \in DOMAIN db
          BY <1>1, <4>1
        <4>3. db'[OrderRow(d, o)] =
                 IF d \in D /\ o = Oldest(db, d)
                   THEN [db[OrderRow(d, o)] EXCEPT !.delivered = TRUE]
                   ELSE db[OrderRow(d, o)]
          BY <4>2, Taken
        <4> QED  BY <4>1, <4>3
      <3>3. db[row] \in IF row[3] \in CIds THEN LoadedOrders ELSE PlacedOrders
        BY <2>1, <2>2 DEF Fits
      <3>4. db'[row] \in IF row[3] \in CIds THEN LoadedOrders ELSE PlacedOrders
        BY <3>2, <3>3 DEF LoadedOrders, PlacedOrders
      <3> QED  BY <2>2, <3>4 DEF Fits
    <2>3. CASE row[1] = "customer"
      <3>1. PICK d \in DIds, c \in CIds : row = CustomerRow(d, c)
        BY <2>1, <2>3, RowsOfTables
      <3> DEFINE order == db[OrderRow(d, Oldest(db, d))]
      <3>2. db'[CustomerRow(d, c)] =
               IF d \in D /\ c = order.c
                 THEN [db[CustomerRow(d, c)] EXCEPT !.balance = @ + order.amount]
                 ELSE db[CustomerRow(d, c)]
        BY Taken
      <3>3. d \in D => order.amount \in Int
        BY <1>1, DueOrder
      <3>4. db[row] \in [balance : Int, paid : Nat]
        BY <2>1, <2>3 DEF Fits
      <3> HIDE DEF order
      <3>5. db'[row] \in [balance : Int, paid : Nat]
        BY <3>1, <3>2, <3>3, <3>4
      <3> QED  BY <2>3, <3>5 DEF Fits
    <2>4. CASE row[1] \notin {"orders", "customer"}
      BY <1>1, <2>1, <2>4
    <2> QED  BY <2>2, <2>3, <2>4
  <1>5. ASSUME NEW d \in DIds, NEW o \in Nat
        PROVE  /\ OrderRow(d, o) \in DOMAIN db' <=> OrderRow(d, o) \in DOMAIN db
               /\ NewRow(d, o) \in DOMAIN db' => NewRow(d, o) \in DOMAIN db
    BY <1>1, RowKinds
  <1>6. \A d \in DIds, o \in Nat :
           /\ OrderRow(d, o) \in DOMAIN db' <=> o \in 1 .. db'[DistrictRow(d)].next - 1
           /\ NewRow(d, o) \in DOMAIN db' => OrderRow(d, o) \in DOMAIN db'
    BY <1>3, <1>5 DEF StoreOK
  <1>7. Advances
    <2>1. \A d \in DIds : db[DistrictRow(d)].next <= db'[DistrictRow(d)].next
      BY <1>3, StoreFits
    <2> QED  BY <1>5, <2>1 DEF Advances
  <1>8. DOMAIN db' \subseteq Rows /\ \A d \in DIds : NumCustomers < db'[DistrictRow(d)].next
    BY <1>1, <1>3 DEF StoreOK
  <1> QED  BY <1>2, <1>4, <1>6, <1>7, <1>8 DEF StoreOK

\* The oldest orders are no longer new, have a carrier and are credited.
LEMMA DeliversChecks ==
    ASSUME ChecksOK, StoreOK(db), NEW D, Delivers(D)
    PROVE  ChecksOK'
PROOF
  <1>1. /\ D \subseteq Due(db) /\ DOMAIN db' \subseteq DOMAIN db
        /\ \A row \in DOMAIN db : row[1] # "new_order" => row \in DOMAIN db'
        /\ \A row \in DOMAIN db' : row[1] \notin {"orders", "customer"} => db'[row] = db[row]
    BY Taken
  <1>2. \A d \in DIds, o \in Nat : NewRow(d, o) \in DOMAIN db' <=>
           NewRow(d, o) \in DOMAIN db /\ ~ (d \in D /\ o = Oldest(db, d))
    BY Taken
  <1>3. \A d \in DIds, o \in Nat : OrderRow(d, o) \in DOMAIN db =>
           db'[OrderRow(d, o)] =
              IF d \in D /\ o = Oldest(db, d)
                THEN [db[OrderRow(d, o)] EXCEPT !.delivered = TRUE]
                ELSE db[OrderRow(d, o)]
    BY Taken
  <1>4. StoreOK(db')
    BY DeliversStore
  <1>5. ASSUME NEW d \in DIds
        PROVE  /\ \A p : p \in Numbered(db, "orders", d) <=> OrderRow(d, p) \in DOMAIN db
               /\ \A p : p \in Numbered(db', "orders", d) <=> OrderRow(d, p) \in DOMAIN db'
               /\ \A p : p \in Numbered(db, "new_order", d) <=> NewRow(d, p) \in DOMAIN db
               /\ \A p : p \in Numbered(db', "new_order", d) <=> NewRow(d, p) \in DOMAIN db'
               /\ Numbered(db, "orders", d) \subseteq Nat
    BY <1>4, NumberedRows DEF StoreOK
  <1>6. ASSUME NEW d \in DIds
        PROVE  /\ Numbered(db', "orders", d) = Numbered(db, "orders", d)
               /\ db'[DistrictRow(d)] = db[DistrictRow(d)]
    <2>1. \A p : OrderRow(d, p) \in DOMAIN db' <=> OrderRow(d, p) \in DOMAIN db
      BY <1>1, RowKinds
    <2>2. DistrictRow(d) \in DOMAIN db'
      BY <1>4 DEF StoreOK
    <2>3. db'[DistrictRow(d)] = db[DistrictRow(d)]
      BY <1>1, <2>2, RowKinds
    <2>4. Numbered(db', "orders", d) = Numbered(db, "orders", d)
      BY <1>5, <2>1
    <2> QED  BY <2>3, <2>4
  <1>7. ASSUME NEW d \in DIds, NEW o \in Numbered(db, "orders", d)
        PROVE  /\ db[OrderRow(d, o)].c \in CIds /\ db[OrderRow(d, o)].amount \in Int
               /\ db'[OrderRow(d, o)].c = db[OrderRow(d, o)].c
               /\ db'[OrderRow(d, o)].amount = db[OrderRow(d, o)].amount
               /\ db'[OrderRow(d, o)].delivered <=>
                     db[OrderRow(d, o)].delivered \/ (d \in D /\ o = Oldest(db, d))
    <2>1. o \in Nat /\ OrderRow(d, o) \in DOMAIN db
      BY <1>5
    <2>2. db[OrderRow(d, o)] \in IF o \in CIds THEN LoadedOrders ELSE PlacedOrders
      BY <2>1, StoreFits
    <2>3. db'[OrderRow(d, o)] =
             IF d \in D /\ o = Oldest(db, d)
               THEN [db[OrderRow(d, o)] EXCEPT !.delivered = TRUE]
               ELSE db[OrderRow(d, o)]
      BY <1>3, <2>1
    <2> QED  BY <2>2, <2>3 DEF LoadedOrders, PlacedOrders
  <1>8. ASSUME NEW d \in D
        PROVE  /\ d \in DIds /\ Oldest(db, d) \in Nat
               /\ Oldest(db, d) \in Numbered(db, "orders", d)
               /\ Oldest(db, d) \in Numbered(db, "new_order", d)
               /\ \A p \in Nat : NewRow(d, p) \in DOMAIN db => Oldest(db, d) <= p
    <2>1. /\ d \in DIds /\ Oldest(db, d) \in Nat
          /\ NewRow(d, Oldest(db, d)) \in DOMAIN db /\ OrderRow(d, Oldest(db, d)) \in DOMAIN db
          /\ \A p \in Nat : NewRow(d, p) \in DOMAIN db => Oldest(db, d) <= p
      BY <1>1, DueOrder
    <2> QED  BY <1>5, <2>1
  <1>9. Check1(db')
    <2>1. db'[WarehouseRow] = db[WarehouseRow]
      BY <1>1, <1>4, RowKinds DEF StoreOK
    <2>2. [d \in DIds |-> db'[DistrictRow(d)].ytd] = [d \in DIds |-> db[DistrictRow(d)].ytd]
      BY <1>6
    <2> QED  BY <2>1, <2>2 DEF ChecksOK, Check1
  <1>10. LastAreNew'
    <2> SUFFICES ASSUME NEW d \in DIds, NEW o \in Nat, NEW p \in Nat,
                        NewRow(d, o) \in DOMAIN db', o <= p, p < db'[DistrictRow(d)].next
                 PROVE  NewRow(d, p) \in DOMAIN db'
      BY DEF LastAreNew
    <2>1. NewRow(d, o) \in DOMAIN db /\ ~ (d \in D /\ o = Oldest(db, d))
      BY <1>2
    <2>2. NewRow(d, p) \in DOMAIN db
      BY <1>6, <2>1 DEF ChecksOK, LastAreNew
    <2>3. ~ (d \in D /\ p = Oldest(db, d))
      BY <1>8, <2>1
    <2> QED  BY <1>2, <2>2, <2>3
  <1>11. Check5(db')
    <2> SUFFICES ASSUME NEW d \in DIds, NEW o \in Numbered(db', "orders", d)
                 PROVE  db'[OrderRow(d, o)].delivered <=> o \notin Numbered(db', "new_order", d)
      BY DEF Check5
    <2>1. o \in Numbered(db, "orders", d) /\ o \in Nat
      BY <1>5, <1>6
    <2>2. db[OrderRow(d, o)].delivered <=> o \notin Numbered(db, "new_order", d)
      BY <2>1 DEF ChecksOK, Check5
    <2>3. o \in Numbered(db', "new_order", d) <=>
             o \in Numbered(db, "new_order", d) /\ ~ (d \in D /\ o = Oldest(db, d))
      BY <1>2, <1>5, <2>1
    <2> QED  BY <1>7, <2>1, <2>2, <2>3
  <1>12. Check9(db')
    <2>1. \A row : row[1] = "history" =>
             /\ row \in DOMAIN db' <=> row \in DOMAIN db
             /\ row \in DOMAIN db => db'[row] = db[row]
      BY <1>1
    <2>2. \A d \in DIds : History(db', d) = History(db, d)
      BY <2>1, SameHistory
    <2> QED  BY <1>6, <2>2 DEF ChecksOK, Check9
  <1>13. Check12(db')
    <2> SUFFICES ASSUME NEW d \in DIds, NEW c \in CIds
                 PROVE  db'[CustomerRow(d, c)].balance + db'[CustomerRow(d, c)].paid =
                            DeliveredAmount(db', d, c)
      BY DEF Check12
    <2> DEFINE o == Oldest(db, d)
               order == db[OrderRow(d, o)]
               S == Delivered(db, d, c)
               T == Delivered(db', d, c)
               f == [p \in S |-> db[OrderRow(d, p)].amount]
               g == [p \in T |-> db'[OrderRow(d, p)].amount]
    <2>1. /\ db[CustomerRow(d, c)] \in [balance : Int, paid : Nat]
          /\ db[CustomerRow(d, c)].balance + db[CustomerRow(d, c)].paid = DeliveredAmount(db, d, c)
      BY StoreFits DEF ChecksOK, Check12
    <2>2. db'[CustomerRow(d, c)] =
             IF d \in D /\ c = order.c
               THEN [db[CustomerRow(d, c)] EXCEPT !.balance = @ + order.amount]
               ELSE db[CustomerRow(d, c)]
      BY Taken
    <2>3. DeliveredAmount(db, d, c) = SumFunctionOnSet(f, S)
          /\ DeliveredAmount(db', d, c) = SumFunctionOnSet(g, T)
      <3>1. DOMAIN f = S /\ DOMAIN g = T
        OBVIOUS
      <3> HIDE DEF S, T
      <3> QED  BY <3>1 DEF DeliveredAmount, SumFunction, S, T
    <2>4. /\ \A p \in S : p \in Numbered(db, "orders", d)
          /\ \A p \in T : p \in Numbered(db, "orders", d)
      BY <1>6 DEF Delivered
    <2>5. IsFiniteSet(S) /\ IsFiniteSet(T)
      BY <2>4, OrdersThereAre, FS_Subset
    <2>6. /\ \A p \in S : f[p] = db[OrderRow(d, p)].amount /\ f[p] \in Int
          /\ \A p \in T : g[p] = db[OrderRow(d, p)].amount /\ g[p] \in Int
      BY <1>7, <2>4
    <2>7. \A p \in Numbered(db, "orders", d) :
             p \in T <=> p \in S \/ (d \in D /\ p = o /\ order.c = c)
      <3>1. ASSUME NEW p \in Numbered(db, "orders", d)
            PROVE  p \in T <=> p \in S \/ (d \in D /\ p = o /\ order.c = c)
        <4>1. p \in S <=> db[OrderRow(d, p)].delivered /\ db[OrderRow(d, p)].c = c
          BY DEF Delivered
        <4>2. p \in T <=> db'[OrderRow(d, p)].delivered /\ db'[OrderRow(d, p)].c = c
          BY <1>6 DEF Delivered
        <4> HIDE DEF S, T
        <4> QED  BY <1>7, <4>1, <4>2
      <3> QED  BY <3>1
    <2> HIDE DEF f, g, S, T
    <2>8. CASE d \in D /\ c = order.c
      <3>1. o \in Numbered(db, "orders", d) /\ o \in Numbered(db, "new_order", d)
        BY <1>8, <2>8
      <3>2. o \notin S
        BY <3>1 DEF ChecksOK, Check5, Delivered, S
      <3>3. o \in T
        BY <2>7, <2>8, <3>1
      <3>4. T \ {o} = S
        BY <2>4, <2>7, <2>8, <3>2
      <3>5. SumFunctionOnSet(g, T) = g[o] + SumFunctionOnSet(g, T \ {o})
        BY <2>5, <2>6, <3>3, SumRemove
      <3>6. \A p \in S : g[p] = f[p]
        BY <2>6, <3>4
      <3>7. SumFunctionOnSet(g, S) = SumFunctionOnSet(f, S)
        BY <2>5, <3>6, SumSame
      <3>8. g[o] = order.amount /\ order.amount \in Int
        BY <2>6, <3>3
      <3>9. DeliveredAmount(db', d, c) = order.amount + DeliveredAmount(db, d, c)
        BY <2>3, <3>4, <3>5, <3>7, <3>8
      <3>10. db'[CustomerRow(d, c)] = [db[CustomerRow(d, c)] EXCEPT !.balance = @ + order.amount]
        BY <2>2, <2>8
      <3> HIDE DEF order
      <3>11. /\ db'[CustomerRow(d, c)].balance = db[CustomerRow(d, c)].balance + order.amount
             /\ db'[CustomerRow(d, c)].paid = db[CustomerRow(d, c)].paid
        BY <2>1, <3>10
      <3>12. db[CustomerRow(d, c)].balance \in Int /\ db[CustomerRow(d, c)].paid \in Int
        BY <2>1
      <3> QED  BY <2>1, <3>8, <3>9, <3>11, <3>12
    <2>9. CASE ~ (d \in D /\ c = order.c)
      <3>1. T = S
        BY <2>4, <2>7, <2>9
      <3>2. \A p \in S : g[p] = f[p]
        BY <2>6, <3>1
      <3>3. SumFunctionOnSet(g, S) = SumFunctionOnSet(f, S)
        BY <2>5, <3>2, SumSame
      <3> QED  BY <2>1, <2>2, <2>3, <2>9, <3>1, <3>3
    <2> QED  BY <2>8, <2>9
  <1> QED  BY <1>9, <1>10, <1>11, <1>12, <1>13 DEF ChecksOK

\* A delivery changes neither a line of an order nor the stock.
LEMMA DeliversLines ==
    ASSUME LinesOK, StoreOK(db), NEW D, Delivers(D)
    PROVE  LinesOK'
PROOF
  <1>1. /\ DOMAIN db' \subseteq DOMAIN db
        /\ \A row \in DOMAIN db : row[1] # "new_order" => row \in DOMAIN db'
        /\ \A row \in DOMAIN db' : row[1] \notin {"orders", "customer"} => db'[row] = db[row]
    BY Taken
  <1>2. StoreOK(db')
    BY DeliversStore
  <1>3. ASSUME NEW d \in DIds
        PROVE  /\ \A p : p \in Numbered(db, "orders", d) <=> OrderRow(d, p) \in DOMAIN db
               /\ \A p : p \in Numbered(db', "orders", d) <=> OrderRow(d, p) \in DOMAIN db'
               /\ Numbered(db, "orders", d) \subseteq Nat
    BY <1>2, NumberedRows DEF StoreOK
  <1>4. \A d \in DIds : Numbered(db', "orders", d) = Numbered(db, "orders", d)
    <2>1. \A d, p : OrderRow(d, p) \in DOMAIN db' <=> OrderRow(d, p) \in DOMAIN db
      BY <1>1, RowKinds
    <2> QED  BY <1>3, <2>1
  <1>5. ASSUME NEW d \in DIds, NEW o \in Numbered(db, "orders", d) \ CIds
        PROVE  db'[OrderRow(d, o)].lines = db[OrderRow(d, o)].lines
    <2>1. o \in Nat /\ OrderRow(d, o) \in DOMAIN db
      BY <1>3
    <2>2. db[OrderRow(d, o)] \in PlacedOrders
      BY <2>1, StoreFits
    <2>3. \/ db'[OrderRow(d, o)] = [db[OrderRow(d, o)] EXCEPT !.delivered = TRUE]
          \/ db'[OrderRow(d, o)] = db[OrderRow(d, o)]
      BY <2>1, Taken
    <2> QED  BY <2>2, <2>3 DEF PlacedOrders
  <1>6. \A n \in Items : db'[StockRow(n)] = db[StockRow(n)]
    BY <1>1, <1>2, StoreFits, RowKinds
  <1> QED  BY <1>2, <1>4, <1>5, <1>6, SameLines


-----------------------------------------------------------------------------
(***************************************************************************)
(* What is stored of a payment.                                            *)
(***************************************************************************)

\* What is different after it, row by row.
LEMMA Paid ==
    ASSUME StoreOK(db), NEW i \in Clients, ended[i] + failures[i] \in Nat,
           NEW r, r.d \in DIds, r.c \in CIds, Pays(i, r)
    PROVE  LET receipt == HistoryRow(i, ended[i] + failures[i]) IN
           /\ receipt \notin DOMAIN db
           /\ DOMAIN db' = DOMAIN db \cup {receipt}
           /\ db'[receipt] = [d |-> r.d]
           /\ \A row \in DOMAIN db :
                 row[1] \notin {"warehouse", "district", "customer"} => db'[row] = db[row]
           /\ db'[WarehouseRow] = [db[WarehouseRow] EXCEPT !.ytd = @ + 1]
PROOF BY RowKinds DEF Pays

\* the district it is paid through,
LEMMA PaidDistrict ==
    ASSUME StoreOK(db), NEW i \in Clients, ended[i] + failures[i] \in Nat,
           NEW r, r.d \in DIds, r.c \in CIds, Pays(i, r)
    PROVE  \A d \in DIds : db'[DistrictRow(d)] =
              IF d = r.d THEN [db[DistrictRow(d)] EXCEPT !.ytd = @ + 1] ELSE db[DistrictRow(d)]
PROOF
  <1>1. db'[DistrictRow(r.d)] = [db[DistrictRow(r.d)] EXCEPT !.ytd = @ + 1]
    BY DEF Pays
  <1>2. ASSUME NEW d \in DIds, d # r.d
        PROVE  db'[DistrictRow(d)] = db[DistrictRow(d)]
    <2>1. /\ DistrictRow(d) \notin {WarehouseRow, DistrictRow(r.d), CustomerRow(r.d, r.c)}
          /\ DistrictRow(d) \in DOMAIN db
      BY <1>2, RowKinds DEF StoreOK
    <2> QED  BY <2>1 DEF Pays
  <1> QED  BY <1>1, <1>2

\* and the customer that pays.
LEMMA PaidCustomer ==
    ASSUME StoreOK(db), NEW i \in Clients, ended[i] + failures[i] \in Nat,
           NEW r, r.d \in DIds, r.c \in CIds, Pays(i, r)
    PROVE  \A d \in DIds, c \in CIds : db'[CustomerRow(d, c)] =
              IF d = r.d /\ c = r.c
                THEN [balance |-> db[CustomerRow(d, c)].balance - 1,
                      paid    |-> db[CustomerRow(d, c)].paid + 1]
                ELSE db[CustomerRow(d, c)]
PROOF
  <1>1. db'[CustomerRow(r.d, r.c)] = [balance |-> db[CustomerRow(r.d, r.c)].balance - 1,
                                      paid    |-> db[CustomerRow(r.d, r.c)].paid + 1]
    BY DEF Pays
  <1>2. ASSUME NEW d \in DIds, NEW c \in CIds, ~ (d = r.d /\ c = r.c)
        PROVE  db'[CustomerRow(d, c)] = db[CustomerRow(d, c)]
    <2>1. CustomerRow(d, c) \notin {WarehouseRow, DistrictRow(r.d), CustomerRow(r.d, r.c)}
      BY <1>2, RowKinds
    <2>2. CustomerRow(d, c) \in DOMAIN db
      BY StoreFits
    <2> QED  BY <2>1, <2>2 DEF Pays
  <1> QED  BY <1>1, <1>2

\* The rows of a payment fit their tables; no next order number falls.
LEMMA PaysStore ==
    ASSUME StoreOK(db), NEW i \in Clients, ended[i] + failures[i] \in Nat,
           NEW r, r.d \in DIds, r.c \in CIds, Pays(i, r)
    PROVE  StoreOK(db') /\ Advances
PROOF
  <1> DEFINE receipt == HistoryRow(i, ended[i] + failures[i])
  <1>1. /\ DOMAIN db' = DOMAIN db \cup {receipt}
        /\ db'[receipt] = [d |-> r.d]
        /\ \A row \in DOMAIN db :
              row[1] \notin {"warehouse", "district", "customer"} => db'[row] = db[row]
        /\ db'[WarehouseRow] = [db[WarehouseRow] EXCEPT !.ytd = @ + 1]
    BY Paid
  <1>2. receipt[1] = "history" /\ receipt \in Rows
    BY RowKinds, RowsThereMayBe
  <1>3. ASSUME NEW d \in DIds
        PROVE  /\ db'[DistrictRow(d)] \in [next : Nat \ {0}, ytd : Nat]
               /\ db'[DistrictRow(d)].next = db[DistrictRow(d)].next
               /\ db[DistrictRow(d)].next \in Nat
    <2>1. db[DistrictRow(d)] \in [next : Nat \ {0}, ytd : Nat]
      BY StoreFits
    <2>2. \/ db'[DistrictRow(d)] = [db[DistrictRow(d)] EXCEPT !.ytd = @ + 1]
          \/ db'[DistrictRow(d)] = db[DistrictRow(d)]
      BY PaidDistrict
    <2> QED  BY <2>1, <2>2
  <1>4. ASSUME NEW d \in DIds, NEW c \in CIds
        PROVE  db'[CustomerRow(d, c)] \in [balance : Int, paid : Nat]
    <2>1. db[CustomerRow(d, c)] \in [balance : Int, paid : Nat]
      BY StoreFits
    <2>2. \/ db'[CustomerRow(d, c)] = [balance |-> db[CustomerRow(d, c)].balance - 1,
                                       paid    |-> db[CustomerRow(d, c)].paid + 1]
          \/ db'[CustomerRow(d, c)] = db[CustomerRow(d, c)]
      BY PaidCustomer
    <2> QED  BY <2>1, <2>2
  <1>5. db'[WarehouseRow] \in [ytd : Nat]
    <2>1. db[WarehouseRow] \in [ytd : Nat]
      BY StoreFits
    <2> QED  BY <1>1, <2>1
  <1> HIDE DEF receipt
  <1>6. ASSUME NEW row \in DOMAIN db'
        PROVE  Fits(row, db'[row])
    <2>1. CASE row = receipt
      BY <1>1, <1>2, <2>1 DEF Fits
    <2>2. CASE row \in DOMAIN db
      <3>1. Fits(row, db[row]) /\ row \in Rows
        BY <2>2 DEF StoreOK
      <3>2. CASE row[1] = "warehouse"
        BY <1>5, <3>1, <3>2, RowsOfTables DEF Fits
      <3>3. CASE row[1] = "district"
        <4>1. PICK d \in DIds : row = DistrictRow(d)
          BY <3>1, <3>3, RowsOfTables
        <4> QED  BY <1>3, <3>3, <4>1 DEF Fits
      <3>4. CASE row[1] = "customer"
        <4>1. PICK d \in DIds, c \in CIds : row = CustomerRow(d, c)
          BY <3>1, <3>4, RowsOfTables
        <4> QED  BY <1>4, <3>4, <4>1 DEF Fits
      <3>5. CASE row[1] \notin {"warehouse", "district", "customer"}
        BY <1>1, <2>2, <3>1, <3>5
      <3> QED  BY <3>2, <3>3, <3>4, <3>5
    <2> QED  BY <1>1, <2>1, <2>2
  <1>7. \A d \in DIds, o \in Nat :
           /\ OrderRow(d, o) \in DOMAIN db' <=> OrderRow(d, o) \in DOMAIN db
           /\ NewRow(d, o) \in DOMAIN db' <=> NewRow(d, o) \in DOMAIN db
    BY <1>1, <1>2, RowKinds
  <1>8. /\ DOMAIN db' \subseteq Rows /\ DOMAIN db \subseteq DOMAIN db'
    BY <1>1, <1>2 DEF StoreOK
  <1>9. Advances
    BY <1>3, <1>7 DEF Advances
  <1>10. \A d \in DIds, o \in Nat :
            /\ OrderRow(d, o) \in DOMAIN db' <=> o \in 1 .. db'[DistrictRow(d)].next - 1
            /\ NewRow(d, o) \in DOMAIN db' => OrderRow(d, o) \in DOMAIN db'
    BY <1>3, <1>7 DEF StoreOK
  <1>11. \A d \in DIds : NumCustomers < db'[DistrictRow(d)].next
    BY <1>3 DEF StoreOK
  <1> QED  BY <1>6, <1>8, <1>9, <1>10, <1>11 DEF StoreOK

\* One more unit for the warehouse and for the district, and one more receipt of
\* it; what the customer has paid is off its balance.
LEMMA PaysChecks ==
    ASSUME ChecksOK, StoreOK(db), \A d \in DIds : IsFiniteSet(History(db, d)),
           NEW i \in Clients, ended[i] + failures[i] \in Nat,
           NEW r, r.d \in DIds, r.c \in CIds, Pays(i, r)
    PROVE  ChecksOK' /\ \A d \in DIds : IsFiniteSet(History(db', d))
PROOF
  <1> DEFINE receipt == HistoryRow(i, ended[i] + failures[i])
  <1>1. /\ receipt \notin DOMAIN db /\ DOMAIN db' = DOMAIN db \cup {receipt}
        /\ db'[receipt] = [d |-> r.d]
        /\ \A row \in DOMAIN db :
              row[1] \notin {"warehouse", "district", "customer"} => db'[row] = db[row]
        /\ db'[WarehouseRow] = [db[WarehouseRow] EXCEPT !.ytd = @ + 1]
    BY Paid
  <1>2. receipt[1] = "history"
    BY RowKinds
  <1>3. ASSUME NEW d \in DIds
        PROVE  /\ db[DistrictRow(d)].ytd \in Int /\ db'[DistrictRow(d)].ytd \in Int
               /\ db'[DistrictRow(d)].ytd = db[DistrictRow(d)].ytd + (IF d = r.d THEN 1 ELSE 0)
               /\ db'[DistrictRow(d)].next = db[DistrictRow(d)].next
    <2>1. db[DistrictRow(d)] \in [next : Nat \ {0}, ytd : Nat]
      BY StoreFits
    <2>2. db'[DistrictRow(d)] =
             IF d = r.d THEN [db[DistrictRow(d)] EXCEPT !.ytd = @ + 1] ELSE db[DistrictRow(d)]
      BY PaidDistrict
    <2> QED  BY <2>1, <2>2
  <1>4. \A d \in DIds, c \in CIds : db'[CustomerRow(d, c)] =
           IF d = r.d /\ c = r.c
             THEN [balance |-> db[CustomerRow(d, c)].balance - 1,
                   paid    |-> db[CustomerRow(d, c)].paid + 1]
             ELSE db[CustomerRow(d, c)]
    BY PaidCustomer
  <1>5. StoreOK(db')
    BY PaysStore
  <1> HIDE DEF receipt
  <1>6. ASSUME NEW d \in DIds
        PROVE  /\ Numbered(db', "orders", d) = Numbered(db, "orders", d)
               /\ Numbered(db', "new_order", d) = Numbered(db, "new_order", d)
               /\ \A o \in Numbered(db, "orders", d) : db'[OrderRow(d, o)] = db[OrderRow(d, o)]
    <2>1. /\ \A p : p \in Numbered(db, "orders", d) <=> OrderRow(d, p) \in DOMAIN db
          /\ \A p : p \in Numbered(db', "orders", d) <=> OrderRow(d, p) \in DOMAIN db'
          /\ \A p : p \in Numbered(db, "new_order", d) <=> NewRow(d, p) \in DOMAIN db
          /\ \A p : p \in Numbered(db', "new_order", d) <=> NewRow(d, p) \in DOMAIN db'
      BY <1>5, NumberedRows DEF StoreOK
    <2>2. \A p : /\ OrderRow(d, p) \in DOMAIN db' <=> OrderRow(d, p) \in DOMAIN db
                 /\ NewRow(d, p) \in DOMAIN db' <=> NewRow(d, p) \in DOMAIN db
      BY <1>1, <1>2, RowKinds
    <2>3. \A o \in Numbered(db, "orders", d) : db'[OrderRow(d, o)] = db[OrderRow(d, o)]
      BY <1>1, <2>1, RowKinds
    <2>4. Numbered(db', "orders", d) = Numbered(db, "orders", d)
      BY <2>1, <2>2
    <2>5. Numbered(db', "new_order", d) = Numbered(db, "new_order", d)
      BY <2>1, <2>2
    <2> QED  BY <2>3, <2>4, <2>5
  <1>7. Check1(db')
    <2> DEFINE before == [d \in DIds |-> db[DistrictRow(d)].ytd]
               after  == [d \in DIds |-> db'[DistrictRow(d)].ytd]
    <2>1. IsFiniteSet(DIds)
      BY DistrictsAssumption, FS_Interval DEF DIds
    <2>2. \A d \in DIds : before[d] \in Int /\ after[d] \in Int
      BY <1>3
    <2>3. (\A d \in DIds \ {r.d} : after[d] = before[d]) /\ after[r.d] - before[r.d] = 1
      BY <1>3
    <2>4. DOMAIN before = DIds /\ DOMAIN after = DIds
      OBVIOUS
    <2>5. db[WarehouseRow].ytd = SumFunction(before)
      BY DEF ChecksOK, Check1
    <2> HIDE DEF before, after
    <2>6. SumFunctionOnSet(after, DIds) =
             SumFunctionOnSet(before, DIds) + (after[r.d] - before[r.d])
      BY <2>1, <2>2, <2>3, SumChange
    <2>7. db[WarehouseRow] \in [ytd : Nat]
      BY StoreFits
    <2>8. db'[WarehouseRow].ytd = db[WarehouseRow].ytd + 1
      BY <1>1, <2>7
    <2>9. db'[WarehouseRow].ytd = SumFunction(after)
      BY <2>3, <2>4, <2>5, <2>6, <2>8 DEF SumFunction
    <2> QED  BY <2>9 DEF Check1, after
  <1>8. LastAreNew'
    <2>1. \A d \in DIds, o \in Nat : NewRow(d, o) \in DOMAIN db' <=> NewRow(d, o) \in DOMAIN db
      BY <1>1, <1>2, RowKinds
    <2> QED  BY <1>3, <2>1 DEF ChecksOK, LastAreNew
  <1>9. Check5(db')
    BY <1>6 DEF ChecksOK, Check5
  <1>10. ASSUME NEW d \in DIds
         PROVE  /\ IsFiniteSet(History(db', d))
                /\ Cardinality(History(db', d)) =
                      Cardinality(History(db, d)) + (IF d = r.d THEN 1 ELSE 0)
    <2>1. \A row : row \in History(db', d) <=>
             row \in History(db, d) \/ (d = r.d /\ row = receipt)
      BY <1>1, <1>2 DEF History
    <2>2. receipt \notin History(db, d) /\ IsFiniteSet(History(db, d))
      BY <1>1 DEF History
    <2>3. Cardinality(History(db, d)) \in Nat
      BY <2>2, FS_CardinalityType
    <2>4. CASE d = r.d
      <3>1. History(db', d) = History(db, d) \cup {receipt}
        BY <2>1, <2>4
      <3> QED  BY <2>2, <2>4, <3>1, FS_AddElement
    <2>5. CASE d # r.d
      <3>1. History(db', d) = History(db, d)
        BY <2>1, <2>5
      <3> QED  BY <2>2, <2>3, <2>5, <3>1
    <2> QED  BY <2>4, <2>5
  <1>11. Check9(db')
    BY <1>3, <1>10 DEF ChecksOK, Check9
  <1>12. Check12(db')
    <2> SUFFICES ASSUME NEW d \in DIds, NEW c \in CIds
                 PROVE  db'[CustomerRow(d, c)].balance + db'[CustomerRow(d, c)].paid =
                            DeliveredAmount(db', d, c)
      BY DEF Check12
    <2>1. Delivered(db', d, c) = Delivered(db, d, c)
      BY <1>6 DEF Delivered
    <2>2. [o \in Delivered(db', d, c) |-> db'[OrderRow(d, o)].amount]
             = [o \in Delivered(db, d, c) |-> db[OrderRow(d, o)].amount]
      BY <1>6, <2>1 DEF Delivered
    <2>3. DeliveredAmount(db', d, c) = DeliveredAmount(db, d, c)
      BY <2>2 DEF DeliveredAmount
    <2>4. /\ db[CustomerRow(d, c)] \in [balance : Int, paid : Nat]
          /\ db[CustomerRow(d, c)].balance + db[CustomerRow(d, c)].paid = DeliveredAmount(db, d, c)
      BY StoreFits DEF ChecksOK, Check12
    <2>5. \/ db'[CustomerRow(d, c)] = [balance |-> db[CustomerRow(d, c)].balance - 1,
                                       paid    |-> db[CustomerRow(d, c)].paid + 1]
          \/ db'[CustomerRow(d, c)] = db[CustomerRow(d, c)]
      BY <1>4
    <2>6. db'[CustomerRow(d, c)].balance + db'[CustomerRow(d, c)].paid
             = db[CustomerRow(d, c)].balance + db[CustomerRow(d, c)].paid
      BY <2>4, <2>5
    <2> QED  BY <2>3, <2>4, <2>6
  <1> QED  BY <1>7, <1>8, <1>9, <1>10, <1>11, <1>12 DEF ChecksOK

\* A payment changes neither a line of an order nor the stock.
LEMMA PaysLines ==
    ASSUME LinesOK, StoreOK(db), NEW i \in Clients, ended[i] + failures[i] \in Nat,
           NEW r, r.d \in DIds, r.c \in CIds, Pays(i, r)
    PROVE  LinesOK'
PROOF
  <1> DEFINE receipt == HistoryRow(i, ended[i] + failures[i])
  <1>1. /\ DOMAIN db' = DOMAIN db \cup {receipt}
        /\ \A row \in DOMAIN db :
              row[1] \notin {"warehouse", "district", "customer"} => db'[row] = db[row]
    BY Paid
  <1>2. receipt[1] = "history"
    BY RowKinds
  <1>3. StoreOK(db')
    BY PaysStore
  <1> HIDE DEF receipt
  <1>4. ASSUME NEW d \in DIds
        PROVE  /\ Numbered(db', "orders", d) = Numbered(db, "orders", d)
               /\ \A o \in Numbered(db, "orders", d) : db'[OrderRow(d, o)] = db[OrderRow(d, o)]
    <2>1. /\ \A p : p \in Numbered(db, "orders", d) <=> OrderRow(d, p) \in DOMAIN db
          /\ \A p : p \in Numbered(db', "orders", d) <=> OrderRow(d, p) \in DOMAIN db'
      BY <1>3, NumberedRows DEF StoreOK
    <2>2. \A p : OrderRow(d, p) \in DOMAIN db' <=> OrderRow(d, p) \in DOMAIN db
      BY <1>1, <1>2, RowKinds
    <2>3. \A o \in Numbered(db, "orders", d) : db'[OrderRow(d, o)] = db[OrderRow(d, o)]
      BY <1>1, <2>1, RowKinds
    <2> QED  BY <2>1, <2>2, <2>3
  <1>5. \A n \in Items : db'[StockRow(n)] = db[StockRow(n)]
    BY <1>1, StoreFits, RowKinds
  <1> QED  BY <1>3, <1>4, <1>5, SameLines


-----------------------------------------------------------------------------
(***************************************************************************)
(* The invariant is kept.                                                  *)
(***************************************************************************)

\* What a client stores is an order, a payment or a delivery.
LEMMA WhatIsStored ==
    ASSUME IInv, NEW i \in Clients, pc[i] = "running", todo[i] = <<>>, ~ Invalid(request[i]),
           Stores(i)
    PROVE  \/ \E r \in Orders : Places(r)
           \/ \E r : r.d \in DIds /\ r.c \in CIds /\ Pays(i, r)
           \/ \E D : Delivers(D)
PROOF
  <1>1. PICK s : RunsOn(i, s)
    BY DEF IInv
  <1>2. request[i] \in Requests
    BY DEF IInv, TypeOK
  <1>3. CASE request[i].type = "NEW_ORDER"
    BY <1>1, <1>3, NewOrderStored
  <1>4. CASE request[i].type = "PAYMENT"
    <2>1. Pays(i, request[i]) /\ request[i].d \in DIds /\ request[i].c \in CIds
      BY <1>1, <1>4, PaymentStored
    <2> QED  BY <2>1
  <1>5. CASE request[i].type = "DELIVERY"
    <2>1. Delivers(Due(s))
      BY <1>1, <1>5, DeliveryStored
    <2> QED  BY <2>1
  <1> QED  BY <1>2, <1>3, <1>4, <1>5, RequestKinds

\* A transaction that is stored, its answer lost or not.
LEMMA StepStores ==
    ASSUME IInv, NEW i \in Clients, pc[i] = "running", todo[i] = <<>>, ~ Invalid(request[i]),
           NEW then, Closes(i, then), Ends(i, then), Stores(i),
           ended'[i] + failures'[i] = ended[i] + failures[i] + 1
    PROVE  IInv'
PROOF
  <1>1. /\ DOMAIN stale' = Clients /\ stale'[i] = {}
        /\ \A j \in Clients \ {i} : /\ stale'[j] \subseteq stale[j] \cup DOMAIN done[i]
                                    /\ pc[j] # "running" => stale'[j] = {}
    BY DEF Stores
  <1>2. /\ StateOK' /\ TypeOK'
        /\ \A j \in Clients \ {i} : Kept(j)
        /\ ended[i] + failures[i] \in Nat /\ ended'[i] + failures'[i] \in Nat
        /\ ended[i] + failures[i] <= ended'[i] + failures'[i]
        /\ pc'[i] # "running"
    BY <1>1, Ended
  <1>3. StoreOK(db) /\ ChecksOK /\ LinesOK /\ HistoryOK
    BY DEF IInv
  <1>4. StoreOK(db') /\ Advances /\ ChecksOK' /\ LinesOK' /\ HistoryOK'
    <2>1. ASSUME NEW r \in Orders, Places(r)
          PROVE  StoreOK(db') /\ Advances /\ ChecksOK' /\ LinesOK' /\ HistoryOK'
      <3>1. StoreOK(db') /\ Advances
        BY <1>3, <2>1, PlacesStore
      <3>2. ChecksOK'
        BY <1>3, <2>1, PlacesChecks
      <3>3. LinesOK'
        BY <1>3, <2>1, PlacesLines
      <3>4. \A row : row[1] = "history" =>
               /\ row \in DOMAIN db' <=> row \in DOMAIN db
               /\ row \in DOMAIN db => db'[row] = db[row]
        <4> DEFINE o == db[DistrictRow(r.d)].next
        <4>1. DOMAIN db' = DOMAIN db \cup {NewRow(r.d, o), OrderRow(r.d, o)}
          BY <1>3, <2>1, Placed
        <4>2. \A row \in DOMAIN db : row[1] \notin {"district", "stock"} => db'[row] = db[row]
          BY <1>3, <2>1, Placed
        <4> QED  BY <4>1, <4>2, RowKinds
      <3>5. HistoryOK'
        BY <1>2, <3>4, SameHistoryOK
      <3> QED  BY <3>1, <3>2, <3>3, <3>5
    <2>2. ASSUME NEW r, r.d \in DIds, r.c \in CIds, Pays(i, r)
          PROVE  StoreOK(db') /\ Advances /\ ChecksOK' /\ LinesOK' /\ HistoryOK'
      <3>1. StoreOK(db') /\ Advances
        BY <1>2, <1>3, <2>2, PaysStore
      <3>2. ChecksOK' /\ \A d \in DIds : IsFiniteSet(History(db', d))
        BY <1>2, <1>3, <2>2, PaysChecks DEF HistoryOK
      <3>3. LinesOK'
        BY <1>2, <1>3, <2>2, PaysLines
      <3> DEFINE receipt == HistoryRow(i, ended[i] + failures[i])
      <3>4. DOMAIN db' = DOMAIN db \cup {receipt}
        BY <1>2, <1>3, <2>2, Paid
      <3>5. receipt[1] = "history" /\ receipt[2] = i /\ receipt[3] = ended[i] + failures[i]
        BY RowKinds
      <3> HIDE DEF receipt
      <3>6. ASSUME NEW row \in DOMAIN db', row[1] = "history"
            PROVE  row[3] < ended'[row[2]] + failures'[row[2]]
        <4>1. CASE row = receipt
          BY <1>2, <3>5, <4>1
        <4>2. CASE row \in DOMAIN db
          <5>1. row[2] \in Clients /\ row[3] \in Nat /\ row[3] < ended[row[2]] + failures[row[2]]
            BY <1>3, <3>6, <4>2, RowsOfTables DEF StoreOK, HistoryOK
          <5>2. CASE row[2] = i
            BY <1>2, <5>1, <5>2
          <5>3. CASE row[2] # i
            BY <1>2, <5>1, <5>3 DEF Kept
          <5> QED  BY <5>2, <5>3
        <4> QED  BY <3>4, <4>1, <4>2
      <3>7. HistoryOK'
        BY <3>2, <3>6 DEF HistoryOK
      <3> QED  BY <3>1, <3>2, <3>3, <3>7
    <2>3. ASSUME NEW D, Delivers(D)
          PROVE  StoreOK(db') /\ Advances /\ ChecksOK' /\ LinesOK' /\ HistoryOK'
      <3>1. StoreOK(db') /\ Advances
        BY <1>3, <2>3, DeliversStore
      <3>2. ChecksOK'
        BY <1>3, <2>3, DeliversChecks
      <3>3. LinesOK'
        BY <1>3, <2>3, DeliversLines
      <3>4. /\ DOMAIN db' \subseteq DOMAIN db
            /\ \A row \in DOMAIN db : row[1] # "new_order" => row \in DOMAIN db'
            /\ \A row \in DOMAIN db' : row[1] \notin {"orders", "customer"} => db'[row] = db[row]
        BY <1>3, <2>3, Taken
      <3>5. \A row : row[1] = "history" =>
               /\ row \in DOMAIN db' <=> row \in DOMAIN db
               /\ row \in DOMAIN db => db'[row] = db[row]
        BY <3>4
      <3>6. HistoryOK'
        BY <1>2, <3>5, SameHistoryOK
      <3> QED  BY <3>1, <3>2, <3>3, <3>6
    <2> QED  BY <2>1, <2>2, <2>3, WhatIsStored
  <1>5. \A row : row \notin DOMAIN done[i] =>
           /\ row \in DOMAIN db' <=> row \in DOMAIN db
           /\ row \in DOMAIN db => db'[row] = db[row]
    <2>1. PICK s : RunsOn(i, s)
      BY DEF IInv
    <2> DEFINE W == WritesOf(s, i)
    <2>2. /\ DOMAIN done[i] = {W[k][1] : k \in 1 .. Len(W)}
          /\ \A row : (\A k \in 1 .. Len(W) : row # W[k][1]) =>
                /\ row \in DOMAIN db' <=> row \in DOMAIN db
                /\ row \in DOMAIN db => db'[row] = db[row]
      BY <2>1, Stored
    <2> HIDE DEF W
    <2> QED  BY <2>2
  <1>6. StoreOK(db)'
    BY <1>4 DEF StoreOK
  <1>7. ASSUME NEW j \in Clients
        PROVE  (pc[j] = "running" => \E s : RunsOn(j, s))'
    <2>1. CASE j = i
      BY <1>2, <2>1
    <2>2. CASE j # i
      <3> SUFFICES ASSUME pc'[j] = "running" PROVE (\E s : RunsOn(j, s))'
        OBVIOUS
      <3>1. Kept(j) /\ j \in Clients \ {i}
        BY <1>2, <2>2
      <3>2. pc[j] = "running"
        BY <3>1 DEF Kept
      <3> QED  BY <1>4, <1>5, <1>6, <3>1, <3>2, OthersRunOn
    <2> QED  BY <2>1, <2>2
  <1> QED  BY <1>2, <1>4, <1>6, <1>7 DEF IInv

\* Whatever a client does, the invariant is kept.
LEMMA StepIInv ==
    ASSUME IInv, [Next]_vars
    PROVE  IInv'
PROOF
  <1>1. CASE UNCHANGED vars
    <2>1. UNCHANGED <<db, pc, request, todo, done, stale, ended, failures>>
      BY <1>1 DEF vars
    <2>2. (StateOK /\ TypeOK /\ StoreOK(db) /\ HistoryOK)'
      BY <2>1 DEF IInv, StateOK, TypeOK, HistoryOK, History
    <2>3. (ChecksOK /\ LinesOK)'
      BY <2>1 DEF IInv, ChecksOK, LastAreNew, LinesOK, StockCountsLines, AllLines, PlacedLines, LineAt
    <2>4. ASSUME NEW j \in Clients
          PROVE  (pc[j] = "running" => \E s : RunsOn(j, s))'
      <3> SUFFICES ASSUME pc'[j] = "running" PROVE (\E s : RunsOn(j, s))'
        OBVIOUS
      <3>1. PICK s : RunsOn(j, s)
        BY <2>1 DEF IInv
      <3>2. RunsOn(j, s)'
        BY <2>1, <3>1, KeptRun DEF Kept
      <3> QED  BY <3>2
    <2> QED  BY <2>2, <2>3, <2>4 DEF IInv
  <1>2. ASSUME NEW i \in Clients, Conflict(i)
        PROVE  IInv'
    <2>1. Ends(i, "waiting")
      BY <1>2 DEF Conflict, Ends
    <2> QED  BY <1>2, <2>1, StepDiscards DEF Conflict
  <1>3. ASSUME NEW i \in Clients, ConnectionFails(i)
        PROVE  IInv'
    <2>1. Ends(i, "waiting")
      BY <1>3 DEF ConnectionFails, Ends
    <2> QED  BY <1>3, <2>1, StepDiscards DEF ConnectionFails
  <1>4. ASSUME NEW i \in Clients, Abandon(i)
        PROVE  IInv'
    <2>1. Ends(i, "idle")
      BY <1>4 DEF Abandon, Ends
    <2> QED  BY <1>4, <2>1, StepDiscards DEF Abandon
  <1>5. ASSUME NEW i \in Clients, Commit(i)
        PROVE  IInv'
    <2>1. Ends(i, "idle") /\ ended'[i] + failures'[i] = ended[i] + failures[i] + 1
      BY <1>5, BoundsAssumption DEF Commit, Ends, IInv, TypeOK
    <2> QED  BY <1>5, <2>1, StepStores DEF Commit
  <1>6. ASSUME NEW i \in Clients, AnswerLost(i)
        PROVE  IInv'
    <2>1. Ends(i, "waiting") /\ ended'[i] + failures'[i] = ended[i] + failures[i] + 1
      BY <1>6, BoundsAssumption DEF AnswerLost, Ends, IInv, TypeOK
    <2> QED  BY <1>6, <2>1, StepStores DEF AnswerLost
  <1> QED  BY <1>1, <1>2, <1>3, <1>4, <1>5, <1>6, StepCall, StepStart, StepWrite DEF Next, Step

\* The clients' invariant: what runs can still be stored, and what is stored is
\* consistent.
THEOREM Invariant == Spec => []IInv
PROOF
  <1>1. Init => IInv
    BY InitIInv
  <1>2. IInv /\ [Next]_vars => IInv'
    BY StepIInv
  <1> QED  BY <1>1, <1>2, PTL DEF Spec

-----------------------------------------------------------------------------
(***************************************************************************)
(* What follows from it.                                                   *)
(***************************************************************************)

\* Whatever conflicts, fails or runs again, checks 1, 3, 5, 8, 9 and 12 of
\* verify.js hold of what the clients have committed.
THEOREM StaysConsistent == Spec => []Consistent
PROOF
  <1>1. IInv => Consistent
    <2> SUFFICES ASSUME IInv PROVE Consistent
      OBVIOUS
    <2>1. Check3(db)
      <3> SUFFICES ASSUME NEW d \in DIds, NEW o \in Numbered(db, "new_order", d),
                          NEW p \in Numbered(db, "new_order", d), NEW x \in o .. p
                   PROVE  x \in Numbered(db, "new_order", d)
        BY DEF Check3
      <3>1. /\ \A y : y \in Numbered(db, "new_order", d) <=> NewRow(d, y) \in DOMAIN db
            /\ Numbered(db, "new_order", d) \subseteq Nat
        BY NumberedRows DEF IInv, StoreOK
      <3>2. db[DistrictRow(d)].next \in Nat /\ p \in 1 .. db[DistrictRow(d)].next - 1
        BY <3>1, OrdersThereAre, StoreFits DEF IInv
      <3>3. o \in Nat /\ x \in Nat /\ o <= x /\ x < db[DistrictRow(d)].next
        BY <3>1, <3>2
      <3> QED  BY <3>1, <3>3 DEF IInv, ChecksOK, LastAreNew
    <2> QED  BY <2>1 DEF IInv, ChecksOK, Consistent
  <1> QED  BY <1>1, Invariant, PTL

\* The stock counts the lines of every item, although updateStock sets it to what
\* was read and one.
THEOREM CountsLines == Spec => []StockCountsLines
PROOF
  <1>1. IInv => StockCountsLines
    BY DEF IInv, LinesOK
  <1> QED  BY <1>1, Invariant, PTL

\* What is stored places one order, delivers one of a district at the most, or
\* leaves the numbers as they are.
LEMMA StepNumbering ==
    ASSUME IInv, IInv', [Next]_vars
    PROVE  [Numbering!Next]_(Numbering!vars)
PROOF
  <1>1. StoreOK(db) /\ StoreOK(db')
    BY DEF IInv, StoreOK
  <1>2. ASSUME NEW d \in DIds
        PROVE  /\ \A o : o \in Numbered(db, "orders", d) <=> OrderRow(d, o) \in DOMAIN db
               /\ \A o : o \in Numbered(db', "orders", d) <=> OrderRow(d, o) \in DOMAIN db'
               /\ \A o : o \in Numbered(db, "new_order", d) <=> NewRow(d, o) \in DOMAIN db
               /\ \A o : o \in Numbered(db', "new_order", d) <=> NewRow(d, o) \in DOMAIN db'
               /\ Numbered(db, "orders", d) \subseteq Nat
               /\ Numbered(db', "orders", d) \subseteq Nat
               /\ Numbered(db, "new_order", d) \subseteq Nat
               /\ Numbered(db', "new_order", d) \subseteq Nat
    BY <1>1, NumberedRows DEF StoreOK
  <1>3. CASE UNCHANGED db
    BY <1>3 DEF Numbering!vars, Numbered
  <1>4. ASSUME NEW r \in Orders, Places(r)
        PROVE  Numbering!Next
    <2> DEFINE d == r.d
               n == db[DistrictRow(d)].next
    <2>1. d \in DIds /\ n \in Nat
      BY <1>1, <1>4, Placed
    <2>2. \A e \in DIds, o \in Nat :
             /\ OrderRow(e, o) \in DOMAIN db' <=> OrderRow(e, o) \in DOMAIN db \/ (e = d /\ o = n)
             /\ NewRow(e, o) \in DOMAIN db' <=> NewRow(e, o) \in DOMAIN db \/ (e = d /\ o = n)
      BY <1>1, <1>4, Placed
    <2>3. db'[DistrictRow(d)].next = n + 1
      <3>1. db'[DistrictRow(d)] = [db[DistrictRow(d)] EXCEPT !.next = n + 1]
        BY <1>4 DEF Places
      <3>2. db[DistrictRow(d)] \in [next : Nat \ {0}, ytd : Nat]
        BY <1>1, <2>1, StoreFits
      <3> HIDE DEF n
      <3> QED  BY <3>1, <3>2
    <2>4. \A e \in DIds \ {d} : db'[DistrictRow(e)].next = db[DistrictRow(e)].next
      <3>1. \A e \in DIds \ {d} : db'[DistrictRow(e)] = db[DistrictRow(e)]
        BY <1>1, <1>4, Placed
      <3> QED  BY <3>1
    <2> HIDE DEF d
    <2>5. /\ Numbered(db', "orders", d) = Numbered(db, "orders", d) \cup {n}
          /\ Numbered(db', "new_order", d) = Numbered(db, "new_order", d) \cup {n}
      BY <1>2, <2>1, <2>2
    <2>6. \A e \in DIds \ {d} : /\ Numbered(db', "orders", e) = Numbered(db, "orders", e)
                                /\ Numbered(db', "new_order", e) = Numbered(db, "new_order", e)
      BY <1>2, <2>2
    <2>7. Numbering!Place(d)
      BY <2>3, <2>4, <2>5, <2>6 DEF Numbering!Place
    <2> QED  BY <2>1, <2>7 DEF Numbering!Next
  <1>5. ASSUME NEW i \in Clients, ended[i] + failures[i] \in Nat,
               NEW r, r.d \in DIds, r.c \in CIds, Pays(i, r)
        PROVE  UNCHANGED Numbering!vars
    <2> DEFINE receipt == HistoryRow(i, ended[i] + failures[i])
    <2>1. DOMAIN db' = DOMAIN db \cup {receipt}
      BY <1>1, <1>5, Paid
    <2>2. receipt[1] = "history"
      BY RowKinds
    <2> HIDE DEF receipt
    <2>3. \A e, o : /\ OrderRow(e, o) \in DOMAIN db' <=> OrderRow(e, o) \in DOMAIN db
                    /\ NewRow(e, o) \in DOMAIN db' <=> NewRow(e, o) \in DOMAIN db
      BY <2>1, <2>2, RowKinds
    <2>4. \A e \in DIds : /\ Numbered(db', "orders", e) = Numbered(db, "orders", e)
                          /\ Numbered(db', "new_order", e) = Numbered(db, "new_order", e)
      BY <1>2, <2>3
    <2>5. ASSUME NEW e \in DIds
          PROVE  db'[DistrictRow(e)].next = db[DistrictRow(e)].next
      <3>1. \/ db'[DistrictRow(e)] = [db[DistrictRow(e)] EXCEPT !.ytd = @ + 1]
            \/ db'[DistrictRow(e)] = db[DistrictRow(e)]
        BY <1>1, <1>5, PaidDistrict
      <3>2. db[DistrictRow(e)] \in [next : Nat \ {0}, ytd : Nat]
        BY <1>1, <2>5, StoreFits
      <3> QED  BY <3>1, <3>2
    <2> QED  BY <2>4, <2>5 DEF Numbering!vars
  <1>6. ASSUME NEW D, Delivers(D)
        PROVE  Numbering!Next
    <2>1. /\ DOMAIN db' \subseteq DOMAIN db
          /\ \A row \in DOMAIN db : row[1] # "new_order" => row \in DOMAIN db'
          /\ \A row \in DOMAIN db' : row[1] \notin {"orders", "customer"} => db'[row] = db[row]
          /\ \A d \in DIds, o \in Nat : NewRow(d, o) \in DOMAIN db' <=>
                NewRow(d, o) \in DOMAIN db /\ ~ (d \in D /\ o = Oldest(db, d))
      BY <1>1, <1>6, Taken
    <2>2. \A e \in DIds : Numbered(db', "orders", e) = Numbered(db, "orders", e)
      <3>1. \A e, o : OrderRow(e, o) \in DOMAIN db' <=> OrderRow(e, o) \in DOMAIN db
        BY <2>1, RowKinds
      <3> QED  BY <1>2, <3>1
    <2>3. \A e \in DIds : Numbered(db', "new_order", e) \subseteq Numbered(db, "new_order", e)
      BY <1>2, <2>1
    <2>4. ASSUME NEW e \in DIds,
                 NEW o \in Numbered(db, "new_order", e) \ Numbered(db', "new_order", e),
                 NEW p \in Numbered(db, "new_order", e) \ Numbered(db', "new_order", e)
          PROVE  o = p
      BY <1>2, <2>1
    <2>5. \A e \in DIds : db'[DistrictRow(e)] = db[DistrictRow(e)]
      BY <1>1, <2>1, RowKinds DEF StoreOK
    <2>6. Numbering!Deliver
      <3>1. [d \in DIds |-> Numbered(db', "new_order", d)] \in [DIds -> SUBSET Nat]
        BY <1>2
      <3>2. /\ [d \in DIds |-> db'[DistrictRow(d)].next] = [d \in DIds |-> db[DistrictRow(d)].next]
            /\ [d \in DIds |-> Numbered(db', "orders", d)] = [d \in DIds |-> Numbered(db, "orders", d)]
        BY <2>2, <2>5
      <3>3. \A e \in DIds :
               /\ [d \in DIds |-> Numbered(db', "new_order", d)][e]
                     \subseteq [d \in DIds |-> Numbered(db, "new_order", d)][e]
               /\ \A o, p \in [d \in DIds |-> Numbered(db, "new_order", d)][e]
                                 \ [d \in DIds |-> Numbered(db', "new_order", d)][e] : o = p
        BY <2>3, <2>4
      <3> QED  BY <3>1, <3>2, <3>3 DEF Numbering!Deliver
    <2> QED  BY <2>6 DEF Numbering!Next
  <1>7. ASSUME NEW i \in Clients, Commit(i) \/ AnswerLost(i)
        PROVE  [Numbering!Next]_(Numbering!vars)
    <2>1. /\ pc[i] = "running" /\ todo[i] = <<>> /\ ~ Invalid(request[i]) /\ Stores(i)
          /\ ended[i] + failures[i] \in Nat
      BY <1>7, BoundsAssumption DEF Commit, AnswerLost, IInv, TypeOK
    <2> QED  BY <1>4, <1>5, <1>6, <2>1, WhatIsStored
  <1>8. ASSUME NEW i \in Clients, Call(i) \/ Step(i) \/ ConnectionFails(i) \/ AnswerLost(i)
        PROVE  UNCHANGED db \/ Commit(i) \/ AnswerLost(i)
    BY <1>8 DEF Call, Step, Start, Write, Conflict, Abandon, ConnectionFails, Discards
  <1>9. UNCHANGED vars => UNCHANGED db
    BY DEF vars
  <1> QED  BY <1>3, <1>7, <1>8, <1>9 DEF Next

\* The loaded database is an initial state of OrderNumbering.
LEMMA InitNumbering ==
    ASSUME IInv
    PROVE  Numbering!Init
PROOF
  <1>1. ASSUME NEW d \in DIds
        PROVE  /\ db[DistrictRow(d)].next \in Nat \ {0}
               /\ Numbered(db, "orders", d) = 1 .. db[DistrictRow(d)].next - 1
               /\ Numbered(db, "new_order", d) \subseteq Nat
               /\ Numbered(db, "new_order", d) \subseteq Numbered(db, "orders", d)
    <2>1. StoreOK(db) /\ DOMAIN db \subseteq Rows
      BY DEF IInv, StoreOK
    <2>2. db[DistrictRow(d)].next \in Nat \ {0}
      BY <2>1, StoreFits
    <2> QED  BY <2>1, <2>2, OrdersThereAre, NumberedRows
  <1> QED  BY <1>1 DEF Numbering!Init

\* NumbersOrders: the clients of MongoDB, aborted and run again as they may be,
\* implement the numbering of orders.
THEOREM ImplementsNumbering == Spec => NumbersOrders
PROOF
  <1>1. Init => Numbering!Init
    BY InitIInv, InitNumbering
  <1>2. IInv /\ IInv' /\ [Next]_vars => [Numbering!Next]_(Numbering!vars)
    BY StepNumbering
  <1> QED  BY <1>1, <1>2, Invariant, PTL DEF Spec, NumbersOrders, Numbering!Spec
=============================================================================
