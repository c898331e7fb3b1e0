------------------------- MODULE TpccHarness_proofs -------------------------
(***************************************************************************)
(* The two phases of the TPC-C harness, for any number of clients.         *)
(*                                                                         *)
(* The load of TpccLoading, for any number of warehouses, districts and    *)
(* batches.  With the typedb3 driver ITEM is complete before any other     *)
(* table has a row, and no row is dropped for want of a parent.  With      *)
(* every driver: which client a missing batch is of, that a client's share *)
(* is in whole or not at all with Postgres, which tables can drop rows,    *)
(* and when main waits for ever.                                           *)
(*                                                                         *)
(* The execution of TpccExecution, for any types of transactions:          *)
(* the batches of a client add up to its run, nothing is reported unless   *)
(* every client has run to the end, and what is reported of a type is what *)
(* the clients that completed one have started.                            *)
(***************************************************************************)
EXTENDS TpccLoading, TpccExecution, SumFacts

\* The calls in S are all that call c, and the calls the loader makes after c
\* in the same warehouse, are matched to and that come before c.
ChainReady(c, S) ==
    /\ c.table \in DistrictTables \cup {"STOCK"} => Call("WAREHOUSE", c.w, 0, 0) \in S
    /\ c.table \in DistrictTables \ {"DISTRICT"} => Call("DISTRICT", c.w, c.d, 0) \in S
    /\ c.table \in DistrictTables \ {"DISTRICT", "CUSTOMER"} =>
          Call("CUSTOMER", c.w, c.d, 0) \in S
    /\ c.table \in DistrictTables \ {"DISTRICT", "CUSTOMER", "ORDERS"} =>
          Call("ORDERS", c.w, c.d, 0) \in S

\* The batches of ITEM that are in when the next call is c: those before it,
\* where c is a call of ITEM or the loadFinishItem after them.
ItemsBefore(c) == {Call("ITEM", 0, 0, n) : n \in 1 .. c.n - 1}

\* What the driver that waits keeps.  The event and the chains are what
\* NoRowsLost lacks.
WaitInv ==
    /\ TypeOK
    /\ itemsEvent => ItemCalls \subseteq stored
    /\ ~ stored \subseteq ItemCalls => itemsEvent
    /\ lost = {}
    /\ \A i \in Clients : pending[i] = {}
    /\ \A i \in Clients : next[i].table = "ITEM" => ItemsBefore(next[i]) \subseteq stored
    /\ \A i \in Clients : ChainReady(next[i], stored)

\* The inductive invariant.
IInv == TypeOK /\ (driver = "typedb3" => WaitInv)

Positions == AllCalls \cup {FinishItem, Between}

-----------------------------------------------------------------------------
\* The calls of ITEM are the ones of the table ITEM.
LEMMA ItemCallShape ==
    ASSUME NEW c \in AllCalls
    PROVE  (c.table = "ITEM") <=> (c \in ItemCalls)
  BY SMT DEF AllCalls, ItemCalls, WarehouseCalls, Call, DistrictTables

\* After, table by table.
LEMMA AfterTable ==
    ASSUME NEW w, NEW d, NEW n
    PROVE  /\ After(Call("ITEM", w, d, n)) = Call("ITEM", 0, 0, n + 1)
           /\ After(Call("WAREHOUSE", w, d, n)) = Call("DISTRICT", w, 1, 0)
           /\ After(Call("DISTRICT", w, d, n)) = Call("CUSTOMER", w, d, 0)
           /\ After(Call("CUSTOMER", w, d, n)) = Call("ORDERS", w, d, 0)
           /\ After(Call("ORDERS", w, d, n)) = Call("ORDER_LINE", w, d, 0)
           /\ After(Call("ORDER_LINE", w, d, n)) = Call("NEW_ORDER", w, d, 0)
           /\ After(Call("NEW_ORDER", w, d, n)) = Call("HISTORY", w, d, 0)
           /\ After(Call("HISTORY", w, d, n)) = IF d < NumDistricts
                                                  THEN Call("DISTRICT", w, d + 1, 0)
                                                  ELSE Call("STOCK", w, 0, 1)
           /\ After(Call("STOCK", w, d, n)) = IF n < NumItemBatches
                                                THEN Call("STOCK", w, 0, n + 1)
                                                ELSE Between
  BY Zenon DEF After, Call

\* Inside a warehouse, After stays in it until the warehouse is done.
LEMMA AfterInWarehouse ==
    ASSUME NEW w \in Warehouses, NEW c \in WarehouseCalls(w)
    PROVE  After(c) \in WarehouseCalls(w) \cup {Between}
PROOF
  <1>1. 1 \in Districts /\ 1 \in Batches
    BY DistrictsAssumption, BatchesAssumption, SMT DEF Districts, Batches
  <1>2. CASE c = Call("WAREHOUSE", w, 0, 0)
    BY <1>1, <1>2, AfterTable DEF WarehouseCalls, DistrictTables
  <1>3. ASSUME NEW t \in DistrictTables, NEW d \in Districts, c = Call(t, w, d, 0)
        PROVE  After(c) \in WarehouseCalls(w)
    <2>1. d < NumDistricts => d + 1 \in Districts
      BY DistrictsAssumption, SMT DEF Districts
    <2>2. CASE t = "HISTORY"
      <3>1. After(c) \in {Call("DISTRICT", w, d + 1, 0), Call("STOCK", w, 0, 1)}
            /\ (After(c) = Call("DISTRICT", w, d + 1, 0) => d < NumDistricts
                                              \/ After(c) = Call("STOCK", w, 0, 1))
        BY <1>3, <2>2, AfterTable
      <3> QED  BY <3>1, <2>1, <1>1 DEF WarehouseCalls, DistrictTables
    <2>3. CASE t # "HISTORY"
      <3>1. \E u \in DistrictTables : After(c) = Call(u, w, d, 0)
        BY <1>3, <2>3, AfterTable DEF DistrictTables
      <3> QED  BY <3>1 DEF WarehouseCalls
    <2> QED  BY <2>2, <2>3
  <1>4. ASSUME NEW n \in Batches, c = Call("STOCK", w, 0, n)
        PROVE  After(c) \in WarehouseCalls(w) \cup {Between}
    <2>1. n < NumItemBatches => n + 1 \in Batches
      BY BatchesAssumption, SMT DEF Batches
    <2> QED  BY <1>4, <2>1, AfterTable DEF WarehouseCalls
  <1> QED  BY <1>2, <1>3, <1>4 DEF WarehouseCalls

\* After leads from call to call.
LEMMA AfterStaysInRange ==
    ASSUME NEW c \in AllCalls
    PROVE  After(c) \in Positions
PROOF
  <1>1. CASE c \in ItemCalls
    <2>1. PICK n \in Batches : c = Call("ITEM", 0, 0, n)
      BY <1>1 DEF ItemCalls
    <2>2. After(c) = Call("ITEM", 0, 0, n + 1)
      BY <2>1, AfterTable
    <2>3. n = NumItemBatches \/ n + 1 \in Batches
      BY BatchesAssumption, SMT DEF Batches
    <2> QED
      BY <2>2, <2>3 DEF Positions, AllCalls, ItemCalls, FinishItem
  <1> QED
    BY <1>1, AfterInWarehouse DEF AllCalls, Positions

\* Only a call of ITEM is followed by one.
LEMMA ItemsFollowItems ==
    ASSUME NEW c \in AllCalls, After(c).table = "ITEM"
    PROVE  c \in ItemCalls
PROOF
  <1>1. ASSUME NEW w \in Warehouses, c \in WarehouseCalls(w) PROVE FALSE
    <2>1. After(c) \in WarehouseCalls(w) \cup {Between}
      BY <1>1, AfterInWarehouse
    <2>2. Between.table # "ITEM"
      BY DEF Between, Call
    <2>3. After(c) \in AllCalls
      BY <2>1, <2>2 DEF AllCalls
    <2>4. PICK n \in Batches : After(c) = Call("ITEM", 0, 0, n)
      BY <2>3, ItemCallShape DEF ItemCalls
    <2>5. ASSUME NEW t \in DistrictTables, NEW d PROVE Call(t, w, d, 0).table # "ITEM"
      BY DEF Call, DistrictTables
    <2>6. /\ Call("WAREHOUSE", w, 0, 0).table # "ITEM"
          /\ \A m : Call("STOCK", w, 0, m).table # "ITEM"
      BY DEF Call
    <2> QED  BY <2>1, <2>2, <2>5, <2>6 DEF WarehouseCalls
  <1> QED  BY <1>1 DEF AllCalls

\* The loader's order is one in which the call just made readies the next.
LEMMA AfterReady ==
    ASSUME NEW c \in AllCalls, NEW S, ChainReady(c, S)
    PROVE  ChainReady(After(c), S \cup {c})
PROOF
  <1>1. CASE c \in ItemCalls
    <2>1. PICK n \in Batches : c = Call("ITEM", 0, 0, n)
      BY <1>1 DEF ItemCalls
    <2>2. After(c) = Call("ITEM", 0, 0, n + 1)
      BY <2>1, AfterTable
    <2> QED  BY <2>2 DEF ChainReady, Call, DistrictTables
  <1>2. ASSUME NEW w \in Warehouses, c = Call("WAREHOUSE", w, 0, 0)
        PROVE  ChainReady(After(c), S \cup {c})
    <2>1. After(c) = Call("DISTRICT", w, 1, 0)
      BY <1>2, AfterTable
    <2> QED  BY <1>2, <2>1 DEF ChainReady, Call
  <1>3. ASSUME NEW w \in Warehouses, NEW t \in DistrictTables, NEW d \in Districts,
               c = Call(t, w, d, 0)
        PROVE  ChainReady(After(c), S \cup {c})
    <2>0. c.table = t /\ c.w = w /\ c.d = d
      BY <1>3 DEF Call
    <2>1. CASE t = "DISTRICT"
      <3>1. After(c) = Call("CUSTOMER", w, d, 0)
        BY <1>3, <2>1, AfterTable
      <3> QED  BY <1>3, <2>0, <2>1, <3>1 DEF ChainReady, Call, DistrictTables
    <2>2. CASE t = "CUSTOMER"
      <3>1. After(c) = Call("ORDERS", w, d, 0)
        BY <1>3, <2>2, AfterTable
      <3> QED  BY <1>3, <2>0, <2>2, <3>1 DEF ChainReady, Call, DistrictTables
    <2>3. CASE t = "ORDERS"
      <3>1. After(c) = Call("ORDER_LINE", w, d, 0)
        BY <1>3, <2>3, AfterTable
      <3> QED  BY <1>3, <2>0, <2>3, <3>1 DEF ChainReady, Call, DistrictTables
    <2>4. CASE t = "ORDER_LINE"
      <3>1. After(c) = Call("NEW_ORDER", w, d, 0)
        BY <1>3, <2>4, AfterTable
      <3> QED  BY <1>3, <2>0, <2>4, <3>1 DEF ChainReady, Call, DistrictTables
    <2>5. CASE t = "NEW_ORDER"
      <3>1. After(c) = Call("HISTORY", w, d, 0)
        BY <1>3, <2>5, AfterTable
      <3> QED  BY <1>3, <2>0, <2>5, <3>1 DEF ChainReady, Call, DistrictTables
    <2>6. CASE t = "HISTORY"
      <3>1. After(c) = Call("DISTRICT", w, d + 1, 0) \/ After(c) = Call("STOCK", w, 0, 1)
        BY <1>3, <2>6, AfterTable
      <3> QED  BY <1>3, <2>0, <2>6, <3>1 DEF ChainReady, Call, DistrictTables
    <2> QED  BY <2>1, <2>2, <2>3, <2>4, <2>5, <2>6 DEF DistrictTables
  <1>4. ASSUME NEW w \in Warehouses, NEW n \in Batches, c = Call("STOCK", w, 0, n)
        PROVE  ChainReady(After(c), S \cup {c})
    <2>1. After(c) = Call("STOCK", w, 0, n + 1) \/ After(c) = Between
      BY <1>4, AfterTable
    <2>2. Call("WAREHOUSE", w, 0, 0) \in S
      BY <1>4 DEF ChainReady, Call
    <2>3. ChainReady(Call("STOCK", w, 0, n + 1), S \cup {c})
      BY <2>2 DEF ChainReady, Call, DistrictTables
    <2>4. ChainReady(Between, S \cup {c})
      BY DEF ChainReady, Call, Between, DistrictTables
    <2> QED  BY <2>1, <2>3, <2>4
  <1> QED
    BY <1>1, <1>2, <1>3, <1>4 DEF AllCalls, WarehouseCalls

\* A call that is ready finds its parents, given ITEM; a call of ITEM has none.
LEMMA ReadyHasParents ==
    ASSUME NEW c \in AllCalls, NEW S, ChainReady(c, S),
           c \notin ItemCalls => ItemCalls \subseteq S
    PROVE  Parents(c) \subseteq S
PROOF
  <1>1. CASE c \in ItemCalls
    <2>1. c.table = "ITEM"
      BY <1>1 DEF ItemCalls, Call
    <2> QED  BY <2>1 DEF Parents
  <1>2. ASSUME NEW w \in Warehouses, c = Call("WAREHOUSE", w, 0, 0)
        PROVE  Parents(c) \subseteq S
    <2>1. c.table = "WAREHOUSE"
      BY <1>2 DEF Call
    <2> QED  BY <2>1 DEF Parents
  <1>3. ASSUME NEW w \in Warehouses, NEW t \in DistrictTables, NEW d \in Districts,
               c = Call(t, w, d, 0)
        PROVE  Parents(c) \subseteq S
    <2>1. c.table = t /\ c \notin ItemCalls
      BY <1>3 DEF Call, ItemCalls, DistrictTables
    <2>2. CASE t = "DISTRICT"
      BY <2>1, <2>2 DEF Parents, ChainReady, DistrictTables
    <2>3. CASE t = "CUSTOMER"
      BY <2>1, <2>3 DEF Parents, ChainReady, DistrictTables
    <2>4. CASE t = "ORDERS"
      BY <2>1, <2>4 DEF Parents, ChainReady, DistrictTables
    <2>5. CASE t = "ORDER_LINE"
      BY <2>1, <2>5 DEF Parents, ChainReady, DistrictTables
    <2>6. CASE t = "NEW_ORDER"
      BY <2>1, <2>6 DEF Parents, ChainReady, DistrictTables
    <2>7. CASE t = "HISTORY"
      BY <2>1, <2>7 DEF Parents, ChainReady, DistrictTables
    <2> QED  BY <2>2, <2>3, <2>4, <2>5, <2>6, <2>7 DEF DistrictTables
  <1>4. ASSUME NEW w \in Warehouses, NEW n \in Batches, c = Call("STOCK", w, 0, n)
        PROVE  Parents(c) \subseteq S
    <2>1. c.table = "STOCK" /\ c.n = n /\ c \notin ItemCalls
      BY <1>4 DEF Call, ItemCalls
    <2>2. Call("ITEM", 0, 0, n) \in S
      BY <2>1 DEF ItemCalls
    <2> QED  BY <2>1, <2>2 DEF Parents, ChainReady
  <1> QED
    BY <1>1, <1>2, <1>3, <1>4 DEF AllCalls, WarehouseCalls

-----------------------------------------------------------------------------
\* The variables have their types before the load.
LEMMA InitTypeOK == Init => TypeOK
PROOF
  <1> SUFFICES ASSUME Init PROVE TypeOK
    OBVIOUS
  <1>1. Call("ITEM", 0, 0, 1) \in AllCalls
    BY BatchesAssumption DEF AllCalls, ItemCalls, Batches
  <1> QED  BY <1>1 DEF Init, TypeOK, Statuses, WIds

\* TypeOK, for every driver: the load never makes a call that is not one of the
\* batches of its warehouses, tables and districts.
THEOREM TypeCorrect == Spec => []TypeOK
PROOF
  <1>1. Init => TypeOK
    BY InitTypeOK
  <1>2. TypeOK /\ [Next]_vars => TypeOK'
    <2> SUFFICES ASSUME TypeOK, [Next]_vars PROVE TypeOK'
      OBVIOUS
    <2> USE DEF TypeOK
    <2>1. ASSUME NEW i \in Clients, Start(i) PROVE TypeOK'
      BY <2>1 DEF Start, Statuses
    <2>2. ASSUME NEW i \in Clients, NextWarehouse(i) PROVE TypeOK'
      <3>1. PICK w \in todo[i] : next' = [next EXCEPT ![i] = Call("WAREHOUSE", w, 0, 0)]
                              /\ todo' = [todo EXCEPT ![i] = @ \ {w}]
        BY <2>2 DEF NextWarehouse
      <3>2. w \in Warehouses
        BY <2>2
      <3>3. Call("WAREHOUSE", w, 0, 0) \in AllCalls
        BY <3>2 DEF AllCalls, WarehouseCalls
      <3> QED  BY <2>2, <3>1, <3>3 DEF NextWarehouse
    <2>3. ASSUME NEW i \in Clients, LoadTuples(i) PROVE TypeOK'
      <3>1. next[i] \in AllCalls /\ next' = [next EXCEPT ![i] = After(next[i])]
        BY <2>3 DEF LoadTuples
      <3>2. After(next[i]) \in AllCalls \cup {FinishItem, Between}
        BY <3>1, AfterStaysInRange DEF Positions
      <3> QED  BY <2>3, <3>1, <3>2 DEF LoadTuples
    <2>4. ASSUME NEW i \in Clients, LoadFinishItem(i) PROVE TypeOK'
      BY <2>4 DEF LoadFinishItem
    <2>5. ASSUME NEW i \in Clients, LoadFinish(i) PROVE TypeOK'
      BY <2>5 DEF LoadFinish, Statuses
    <2>6. ASSUME NEW i \in Clients, Raise(i) PROVE TypeOK'
      BY <2>6 DEF Raise, Statuses
    <2>7. CASE Join
      BY <2>7 DEF Join
    <2>8. CASE UNCHANGED vars
      BY <2>8 DEF vars
    <2> QED
      BY <2>1, <2>2, <2>3, <2>4, <2>5, <2>6, <2>7, <2>8 DEF Next, Step
  <1> QED  BY <1>1, <1>2, PTL DEF Spec

\* What a step that stores nothing, moves no client and sets no event keeps.
LEMMA ChainReadyGrows ==
    ASSUME NEW c, NEW S, NEW T, S \subseteq T, ChainReady(c, S)
    PROVE  ChainReady(c, T)
  BY DEF ChainReady

\* Every step keeps the invariant of the driver that waits.
LEMMA Inductive ==
    ASSUME driver = "typedb3", WaitInv, TypeOK', [Next]_vars
    PROVE  WaitInv'
PROOF
  <1> USE DEF WaitInv
  <1> SUFFICES
        /\ itemsEvent' => ItemCalls \subseteq stored'
        /\ ~ stored' \subseteq ItemCalls => itemsEvent'
        /\ lost' = {}
        /\ \A i \in Clients : pending'[i] = {}
        /\ \A i \in Clients : next'[i].table = "ITEM" => ItemsBefore(next'[i]) \subseteq stored'
        /\ \A i \in Clients : ChainReady(next'[i], stored')
    OBVIOUS
  <1>1. ASSUME NEW i \in Clients, Start(i) PROVE WaitInv'
    BY <1>1 DEF Start
  <1>2. ASSUME NEW i \in Clients, NextWarehouse(i) PROVE WaitInv'
    <2>1. PICK w \in todo[i] : next' = [next EXCEPT ![i] = Call("WAREHOUSE", w, 0, 0)]
      BY <1>2 DEF NextWarehouse
    <2>2. ChainReady(Call("WAREHOUSE", w, 0, 0), stored)
      BY DEF ChainReady, Call, DistrictTables
    <2>3. Call("WAREHOUSE", w, 0, 0).table # "ITEM"
      BY DEF Call
    <2> QED  BY <1>2, <2>1, <2>2, <2>3 DEF NextWarehouse, TypeOK
  <1>3. ASSUME NEW i \in Clients, LoadTuples(i) PROVE WaitInv'
    <2> DEFINE c == next[i]
    <2>1. /\ c \in AllCalls
          /\ c \notin ItemCalls => itemsEvent
      <3>1. c \in AllCalls /\ status[i] = "running" /\ ~ Blocked(i)
        BY <1>3 DEF LoadTuples
      <3>2. c \notin ItemCalls => c.table # "ITEM"
        BY <3>1, ItemCallShape
      <3> QED  BY <3>1, <3>2 DEF Blocked, WaitsForItems
    <2>2. Parents(c) \subseteq stored
      BY <2>1, ReadyHasParents
    <2>3. stored' = stored \cup {c} /\ lost' = {} /\ itemsEvent' = itemsEvent
          /\ next' = [next EXCEPT ![i] = After(c)] /\ pending' = pending
      BY <1>3, <2>2 DEF LoadTuples, CommitsAtFinish
    <2>4. ChainReady(After(c), stored')
      BY <2>1, <2>3, AfterReady
    <2>5. ASSUME NEW j \in Clients, next'[j].table = "ITEM"
          PROVE  ItemsBefore(next'[j]) \subseteq stored'
      <3>1. CASE j # i
        BY <2>3, <2>5, <3>1 DEF TypeOK
      <3>2. CASE j = i
        <4>1. next'[i] = After(c)
          BY <2>3 DEF TypeOK
        <4>2. c \in ItemCalls
          BY <2>1, <2>5, <3>2, <4>1, ItemsFollowItems
        <4>3. PICK n \in Batches : c = Call("ITEM", 0, 0, n)
          BY <4>2 DEF ItemCalls
        <4>4. next'[i] = Call("ITEM", 0, 0, n + 1)
          BY <4>1, <4>3, AfterTable
        <4>5. \A k \in 1 .. (n + 1) - 1 : k \in 1 .. n - 1 \/ k = n
          BY SMT DEF Batches
        <4> QED  BY <2>3, <3>2, <4>3, <4>4, <4>5 DEF ItemsBefore, Call
      <3> QED  BY <3>1, <3>2
    <2>6. \A j \in Clients : ChainReady(next'[j], stored')
      BY <2>3, <2>4, ChainReadyGrows DEF TypeOK
    <2> QED  BY <2>1, <2>3, <2>5, <2>6
  <1>4. ASSUME NEW i \in Clients, LoadFinishItem(i) PROVE WaitInv'
    <2>1. next[i] = FinishItem /\ next' = [next EXCEPT ![i] = Between]
          /\ stored' = stored /\ lost' = lost /\ itemsEvent' = TRUE /\ pending' = pending
      BY <1>4 DEF LoadFinishItem
    <2>2. ItemCalls \subseteq stored
      <3>1. \A n \in Batches : n \in 1 .. (NumItemBatches + 1) - 1
        BY BatchesAssumption, SMT DEF Batches
      <3>2. ItemsBefore(FinishItem) \subseteq stored
        BY <2>1 DEF FinishItem, Call
      <3> QED  BY <3>1, <3>2 DEF ItemsBefore, ItemCalls, FinishItem, Call
    <2>3. ChainReady(Between, stored) /\ Between.table # "ITEM"
      BY DEF ChainReady, Between, Call, DistrictTables
    <2> QED  BY <2>1, <2>2, <2>3 DEF TypeOK
  <1>5. ASSUME NEW i \in Clients, LoadFinish(i) PROVE WaitInv'
    <2>1. stored' = stored /\ pending' = pending
      BY <1>5 DEF LoadFinish, TypeOK
    <2> QED  BY <1>5, <2>1 DEF LoadFinish
  <1>6. ASSUME NEW i \in Clients, Raise(i) PROVE WaitInv'
    BY <1>6 DEF Raise, TypeOK
  <1>7. CASE Join
    BY <1>7 DEF Join
  <1>8. CASE UNCHANGED vars
    BY <1>8 DEF vars
  <1> QED
    BY <1>1, <1>2, <1>3, <1>4, <1>5, <1>6, <1>7, <1>8 DEF Next, Step

\* The driver is chosen once.
LEMMA DriverStays ==
    ASSUME [Next]_vars
    PROVE  driver' = driver
  BY DEF Next, Step, Start, NextWarehouse, LoadTuples, LoadFinishItem, LoadFinish,
         Raise, Join, vars

\* The inductive invariant holds, whatever the driver and whatever fails.
THEOREM LoadInvariant == Spec => []IInv
PROOF
  <1>1. Init => TypeOK /\ IInv
    <2> SUFFICES ASSUME Init, TypeOK PROVE WaitInv
      BY InitTypeOK DEF IInv
    <2>1. ItemsBefore(Call("ITEM", 0, 0, 1)) = {}
      BY SMT DEF ItemsBefore, Call
    <2>2. Between.table # "ITEM"
      BY DEF Between, Call
    <2>3. ChainReady(Call("ITEM", 0, 0, 1), {}) /\ ChainReady(Between, {})
      BY DEF ChainReady, Between, Call, DistrictTables
    <2> QED  BY <2>1, <2>2, <2>3 DEF Init, WaitInv
  <1>2. IInv /\ TypeOK' /\ [Next]_vars => IInv'
    BY Inductive, DriverStays DEF IInv
  <1> QED  BY <1>1, <1>2, TypeCorrect, PTL DEF Spec

\* With the typedb3 driver the whole ITEM table is in before any other row,
\* however many clients load, in whatever order, and whichever of them fail.
THEOREM ItemsAreFirst == Spec => []ItemsFirst
  <1>1. IInv => ItemsFirst
    BY DEF IInv, WaitInv, ItemsFirst
  <1> QED  BY <1>1, LoadInvariant, PTL

\* With the typedb3 driver no row is dropped by a match that finds no parent.
THEOREM NothingLost == Spec => []NoRowsLost
  <1>1. IInv => NoRowsLost
    BY DEF IInv, WaitInv, NoRowsLost
  <1> QED  BY <1>1, LoadInvariant, PTL

-----------------------------------------------------------------------------
(***************************************************************************)
(* What every driver keeps.                                                *)
(***************************************************************************)

\* The tables of a district from t on, as loadWarehouse loads them.
From(t) ==
    CASE t = "DISTRICT"   -> DistrictTables
      [] t = "CUSTOMER"   -> DistrictTables \ {"DISTRICT"}
      [] t = "ORDERS"     -> {"ORDERS", "ORDER_LINE", "NEW_ORDER", "HISTORY"}
      [] t = "ORDER_LINE" -> {"ORDER_LINE", "NEW_ORDER", "HISTORY"}
      [] t = "NEW_ORDER"  -> {"NEW_ORDER", "HISTORY"}
      [] t = "HISTORY"    -> {"HISTORY"}

\* The calls a client that is at q still makes before it is between warehouses.
ToCome(q) ==
    {c \in AllCalls :
        /\ c.w = q.w
        /\ \/ q.table = "ITEM" /\ c.table = "ITEM" /\ c.n >= q.n
           \/ q.table = "WAREHOUSE" /\ c.table # "ITEM"
           \/ q.table \in DistrictTables /\ c.table = "STOCK"
           \/ /\ q.table \in DistrictTables /\ c.table \in DistrictTables
              /\ c.d > q.d \/ (c.d = q.d /\ c.table \in From(q.table))
           \/ q.table = "STOCK" /\ c.table = "STOCK" /\ c.n >= q.n}

Left(i) == ToCome(next[i]) \cup UNION {WarehouseCalls(w) : w \in todo[i]}

\* The share of client i: what it has sent and what is left is all of it; with
\* Postgres none of it is stored before the client is done; and as long as the
\* client that loads ITEM has not set the event, it is at ITEM.
Share(i) ==
    /\ next[i] \in CallsOf(i) \cup {FinishItem, Between}
    /\ todo[i] \subseteq WIds(i)
    /\ pending[i] \subseteq CallsOf(i)
    /\ status[i] = "done" => next[i] = Between /\ todo[i] = {} /\ pending[i] = {}
    /\ status[i] # "raised" => CallsOf(i) \subseteq stored \cup pending[i] \cup Left(i)
    /\ driver = "postgres" /\ status[i] # "done" => CallsOf(i) \cap stored = {}
    /\ LoadsItems(i) /\ driver = "typedb3" /\ ~ itemsEvent => next[i].table = "ITEM"

SharesInv ==
    /\ TypeOK
    /\ \A i \in Clients : Share(i)
    /\ main = "finished" => \A i \in Clients : Ended(i)

\* The tables that rows of others are matched to do not drop rows themselves, and
\* so the chain of a client is ready with every driver that commits as it goes.
LostInv ==
    /\ TypeOK
    /\ LostRowsNeedItems
    /\ driver # "postgres" => \A i \in Clients : ChainReady(next[i], stored)

-----------------------------------------------------------------------------
(***************************************************************************)
(* The deal of the warehouses.                                             *)
(***************************************************************************)
LEMMA OwnerExists ==
    ASSUME NEW w \in Warehouses
    PROVE  w % NumClients \in Clients /\ w \in WIds(w % NumClients)
PROOF
  <1>1. w \in Int /\ NumClients \in Int /\ NumClients > 0
    BY ClientsAssumption, WarehousesAssumption DEF Warehouses
  <1>2. w % NumClients \in 0 .. NumClients - 1
    BY <1>1, SMT
  <1> QED  BY <1>2 DEF Clients, WIds

\* Some client loads ITEM.
LEMMA ItemsHaveALoader == \E i \in Clients : LoadsItems(i)
PROOF
  <1>1. 1 \in Warehouses
    BY WarehousesAssumption, SMT DEF Warehouses
  <1> QED  BY <1>1, OwnerExists DEF LoadsItems

\* Every call is in the share of some client.
LEMMA EveryCallHasAnOwner ==
    ASSUME NEW c \in AllCalls
    PROVE  \E i \in Clients : c \in CallsOf(i)
PROOF
  <1>1. CASE c \in ItemCalls
    BY <1>1, ItemsHaveALoader DEF CallsOf
  <1>2. ASSUME NEW w \in Warehouses, c \in WarehouseCalls(w)
        PROVE  \E i \in Clients : c \in CallsOf(i)
    BY <1>2, OwnerExists DEF CallsOf
  <1> QED  BY <1>1, <1>2 DEF AllCalls

\* The calls of a warehouse are of that warehouse.
LEMMA WarehouseCallShape ==
    ASSUME NEW w, NEW c \in WarehouseCalls(w)
    PROVE  c.w = w /\ c.table # "ITEM"
  BY DEF WarehouseCalls, Call, DistrictTables

\* No call is in the shares of two clients.
LEMMA SharesAreDisjoint ==
    ASSUME NEW i \in Clients, NEW j \in Clients, NEW c \in CallsOf(i), c \in CallsOf(j)
    PROVE  i = j
PROOF
  <1>1. CASE c.table = "ITEM"
    BY <1>1, WarehouseCallShape DEF CallsOf, LoadsItems, WIds
  <1>2. CASE c.table # "ITEM"
    <2>1. c \notin ItemCalls
      BY <1>2 DEF ItemCalls, Call
    <2>2. PICK v \in WIds(i) : c \in WarehouseCalls(v)
      BY <2>1 DEF CallsOf
    <2>3. PICK w \in WIds(j) : c \in WarehouseCalls(w)
      BY <2>1 DEF CallsOf
    <2>4. v = w
      BY <2>2, <2>3, WarehouseCallShape
    <2> QED  BY <2>4 DEF WIds
  <1> QED  BY <1>1, <1>2

\* A share consists of calls.
LEMMA SharesAreCalls ==
    ASSUME NEW i
    PROVE  CallsOf(i) \subseteq AllCalls
  BY DEF CallsOf, AllCalls, WIds

-----------------------------------------------------------------------------
(***************************************************************************)
(* What is left of a share.                                                *)
(***************************************************************************)
LEMMA NothingToCome == ToCome(Between) = {} /\ ToCome(FinishItem) = {}
PROOF
  <1>1. ToCome(Between) = {}
    BY DEF ToCome, Between, Call, DistrictTables
  <1>2. ASSUME NEW c \in ToCome(FinishItem) PROVE FALSE
    <2>1. c \in AllCalls /\ c.table = "ITEM" /\ c.n >= NumItemBatches + 1
      BY <1>2 DEF ToCome, FinishItem, Call, DistrictTables
    <2>2. PICK n \in Batches : c = Call("ITEM", 0, 0, n)
      BY <2>1, ItemCallShape DEF ItemCalls
    <2> QED  BY <2>1, <2>2, BatchesAssumption, SMT DEF Call, Batches
  <1> QED  BY <1>1, <1>2

\* Before its first call, all of a client's share is to come.
LEMMA AllToComeAtFirst ==
    /\ ItemCalls \subseteq ToCome(Call("ITEM", 0, 0, 1))
    /\ \A w \in Warehouses : WarehouseCalls(w) \subseteq ToCome(Call("WAREHOUSE", w, 0, 0))
PROOF
  <1>1. ItemCalls \subseteq ToCome(Call("ITEM", 0, 0, 1))
    <2> SUFFICES ASSUME NEW n \in Batches
                 PROVE  Call("ITEM", 0, 0, n) \in ToCome(Call("ITEM", 0, 0, 1))
      BY DEF ItemCalls
    <2>1. Call("ITEM", 0, 0, n) \in AllCalls
      BY DEF AllCalls, ItemCalls
    <2>2. n >= 1
      BY SMT DEF Batches
    <2> QED  BY <2>1, <2>2 DEF ToCome, Call
  <1>2. ASSUME NEW w \in Warehouses, NEW c \in WarehouseCalls(w)
        PROVE  c \in ToCome(Call("WAREHOUSE", w, 0, 0))
    <2>1. c \in AllCalls
      BY DEF AllCalls
    <2> QED  BY <2>1, WarehouseCallShape DEF ToCome, Call
  <1> QED  BY <1>1, <1>2

\* After a call, what came after it is to come.
LEMMA ToComeAfter ==
    ASSUME NEW c \in AllCalls
    PROVE  ToCome(c) \subseteq {c} \cup ToCome(After(c))
PROOF
  <1> SUFFICES ASSUME NEW e \in ToCome(c), e # c
               PROVE  e \in ToCome(After(c))
    OBVIOUS
  <1>0. e \in AllCalls /\ e.w = c.w
    BY DEF ToCome
  <1>1. ASSUME NEW n \in Batches, c = Call("ITEM", 0, 0, n)
        PROVE  e \in ToCome(After(c))
    <2>1. After(c) = Call("ITEM", 0, 0, n + 1)
      BY <1>1, AfterTable
    <2>2. e.table = "ITEM" /\ e.n >= n
      BY <1>1 DEF ToCome, Call, DistrictTables
    <2>3. PICK m \in Batches : e = Call("ITEM", 0, 0, m)
      BY <1>0, <2>2, ItemCallShape DEF ItemCalls
    <2>4. m >= n + 1
      <3>1. m >= n /\ m # n
        BY <1>1, <2>2, <2>3 DEF Call
      <3> QED  BY <3>1, SMT DEF Batches
    <2> QED  BY <1>0, <2>1, <2>3, <2>4 DEF ToCome, Call
  <1>2. ASSUME NEW w \in Warehouses, c = Call("WAREHOUSE", w, 0, 0)
        PROVE  e \in ToCome(After(c))
    <2>1. After(c) = Call("DISTRICT", w, 1, 0)
      BY <1>2, AfterTable
    <2>2. e.w = w /\ e.table # "ITEM"
      BY <1>2 DEF ToCome, Call, DistrictTables
    <2>3. e \in WarehouseCalls(w)
      <3>1. e \notin ItemCalls
        BY <2>2 DEF ItemCalls, Call
      <3>2. PICK v \in Warehouses : e \in WarehouseCalls(v)
        BY <1>0, <3>1 DEF AllCalls
      <3> QED  BY <2>2, <3>2, WarehouseCallShape
    <2>4. CASE e.table = "STOCK"
      BY <1>0, <2>1, <2>2, <2>4 DEF ToCome, Call, DistrictTables
    <2>5. ASSUME NEW t \in DistrictTables, NEW d \in Districts, e = Call(t, w, d, 0)
          PROVE  e \in ToCome(After(c))
      <3>1. d > 1 \/ d = 1
        BY SMT DEF Districts
      <3>2. t \in From("DISTRICT")
        BY DEF From
      <3>3. e.table = t /\ e.d = d /\ e.w = w
        BY <2>5 DEF Call
      <3>4. /\ After(c).table = "DISTRICT" /\ After(c).w = w /\ After(c).d = 1
        BY <2>1 DEF Call
      <3> QED  BY <1>0, <3>1, <3>2, <3>3, <3>4 DEF ToCome, DistrictTables
    <2> QED  BY <1>2, <2>3, <2>4, <2>5 DEF WarehouseCalls, Call
  <1>3. ASSUME NEW w \in Warehouses, NEW n \in Batches, c = Call("STOCK", w, 0, n)
        PROVE  e \in ToCome(After(c))
    <2>1. e.table = "STOCK" /\ e.n >= n /\ e.w = w
      BY <1>3 DEF ToCome, Call, DistrictTables
    <2>2. PICK m \in Batches : e = Call("STOCK", w, 0, m)
      <3>1. e \notin ItemCalls
        BY <2>1 DEF ItemCalls, Call
      <3>2. PICK v \in Warehouses : e \in WarehouseCalls(v)
        BY <1>0, <3>1 DEF AllCalls
      <3>3. v = w
        BY <2>1, <3>2, WarehouseCallShape
      <3> QED  BY <2>1, <3>2, <3>3 DEF WarehouseCalls, Call, DistrictTables
    <2>3. m >= n + 1 /\ n < NumItemBatches
      <3>1. m >= n /\ m # n
        BY <1>3, <2>1, <2>2 DEF Call
      <3> QED  BY <3>1, BatchesAssumption, SMT DEF Batches
    <2>4. After(c) = Call("STOCK", w, 0, n + 1)
      BY <1>3, <2>3, AfterTable
    <2> QED  BY <1>0, <2>2, <2>3, <2>4 DEF ToCome, Call
  <1>4. ASSUME NEW w \in Warehouses, NEW t \in DistrictTables, NEW d \in Districts,
               c = Call(t, w, d, 0)
        PROVE  e \in ToCome(After(c))
    <2>0. c.table = t /\ c.w = w /\ c.d = d /\ e.w = w
      BY <1>0, <1>4 DEF Call
    <2>1. CASE e.table = "STOCK"
      <3>1. \/ \E u \in DistrictTables : \E f : After(c) = Call(u, w, f, 0)
            \/ After(c) = Call("STOCK", w, 0, 1)
        BY <1>4, AfterTable DEF DistrictTables
      <3>2. e.n >= 1
        <4>1. e \notin ItemCalls
          BY <2>1 DEF ItemCalls, Call
        <4>2. PICK v \in Warehouses : e \in WarehouseCalls(v)
          BY <1>0, <4>1 DEF AllCalls
        <4>3. PICK m \in Batches : e = Call("STOCK", v, 0, m)
          BY <2>1, <4>2 DEF WarehouseCalls, Call, DistrictTables
        <4> QED  BY <4>3, SMT DEF Call, Batches
      <3> QED  BY <1>0, <2>0, <2>1, <3>1, <3>2 DEF ToCome, Call
    <2>2. CASE e.table # "STOCK"
      <3>1. e.table \in DistrictTables /\ (e.d > d \/ (e.d = d /\ e.table \in From(t)))
        BY <2>0, <2>2 DEF ToCome, DistrictTables
      <3>2. PICK f \in Districts : e = Call(e.table, w, f, 0)
        <4>1. e \notin ItemCalls
          BY <3>1 DEF ItemCalls, Call, DistrictTables
        <4>2. PICK v \in Warehouses : e \in WarehouseCalls(v)
          BY <1>0, <4>1 DEF AllCalls
        <4>3. v = w
          BY <2>0, <4>2, WarehouseCallShape
        <4> QED  BY <3>1, <4>2, <4>3 DEF WarehouseCalls, Call, DistrictTables
      <3>3. e.d = f /\ (f = d => e.table # t)
        BY <1>4, <3>2 DEF Call
      <3>4. CASE t # "HISTORY"
        <4>1. PICK u \in DistrictTables :
                  After(c) = Call(u, w, d, 0) /\ From(u) = From(t) \ {t}
          BY <1>4, <3>4, AfterTable DEF DistrictTables, From
        <4>2. e.d > d \/ (e.d = d /\ e.table \in From(u))
          BY <3>1, <3>3, <4>1
        <4> QED  BY <1>0, <2>0, <3>1, <4>1, <4>2 DEF ToCome, Call
      <3>5. CASE t = "HISTORY"
        <4>1. f > d
          BY <3>1, <3>3, <3>5 DEF From
        <4>2. d < NumDistricts /\ (f > d + 1 \/ f = d + 1)
          BY <4>1, DistrictsAssumption, SMT DEF Districts
        <4>3. After(c) = Call("DISTRICT", w, d + 1, 0)
          BY <1>4, <3>5, <4>2, AfterTable
        <4>4. e.table \in From("DISTRICT")
          BY <3>1 DEF From
        <4> QED  BY <1>0, <2>0, <3>1, <3>3, <4>2, <4>3, <4>4 DEF ToCome, Call, DistrictTables
      <3> QED  BY <3>4, <3>5
    <2> QED  BY <2>1, <2>2
  <1> QED  BY <1>1, <1>2, <1>3, <1>4 DEF AllCalls, ItemCalls, WarehouseCalls

-----------------------------------------------------------------------------
(***************************************************************************)
(* The steps.                                                              *)
(***************************************************************************)
LEMMA NotCalls == Between \notin AllCalls /\ FinishItem \notin AllCalls
PROOF
  <1>1. Between.table # "ITEM" /\ Between.w = 0
    BY DEF Between, Call
  <1>2. Between \notin ItemCalls
    BY <1>1 DEF ItemCalls, Call
  <1>3. \A w \in Warehouses : Between \notin WarehouseCalls(w)
    <2>1. \A w \in Warehouses : w # 0
      BY SMT DEF Warehouses
    <2> QED  BY <1>1, <2>1, WarehouseCallShape
  <1>4. FinishItem.table = "ITEM" /\ FinishItem.n = NumItemBatches + 1
    BY DEF FinishItem, Call
  <1>5. \A c \in ItemCalls : c.n # NumItemBatches + 1
    BY BatchesAssumption, SMT DEF ItemCalls, Call, Batches
  <1> QED  BY <1>2, <1>3, <1>4, <1>5, ItemCallShape DEF AllCalls

\* A client stays within its share.
LEMMA AfterInShare ==
    ASSUME NEW i, NEW c \in CallsOf(i)
    PROVE  /\ After(c) \in CallsOf(i) \cup {FinishItem, Between}
           /\ c.table = "ITEM" => After(c).table = "ITEM"
PROOF
  <1>1. CASE c \in ItemCalls
    <2>1. PICK n \in Batches : c = Call("ITEM", 0, 0, n)
      BY <1>1 DEF ItemCalls
    <2>2. After(c) = Call("ITEM", 0, 0, n + 1)
      BY <2>1, AfterTable
    <2>3. Call("ITEM", 0, 0, n + 1).table = "ITEM"
      BY DEF Call
    <2>4. n = NumItemBatches \/ n + 1 \in Batches
      BY BatchesAssumption, SMT DEF Batches
    <2>5. LoadsItems(i)
      BY <1>1, WarehouseCallShape DEF CallsOf, ItemCalls, Call
    <2> QED  BY <2>2, <2>3, <2>4, <2>5 DEF CallsOf, ItemCalls, FinishItem
  <1>2. CASE c \notin ItemCalls
    <2>1. PICK w \in WIds(i) : c \in WarehouseCalls(w)
      BY <1>2 DEF CallsOf
    <2>2. w \in Warehouses /\ c.table # "ITEM"
      BY <2>1, WarehouseCallShape DEF WIds
    <2>3. After(c) \in WarehouseCalls(w) \cup {Between}
      BY <2>1, <2>2, AfterInWarehouse
    <2> QED  BY <2>1, <2>2, <2>3 DEF CallsOf
  <1> QED  BY <1>1, <1>2

\* Before the load, all of every share is left.
LEMMA InitShares == Init => SharesInv
PROOF
  <1> SUFFICES ASSUME Init PROVE SharesInv
    OBVIOUS
  <1>1. ASSUME NEW i \in Clients PROVE Share(i)
    <2>1. todo[i] = WIds(i) /\ pending[i] = {} /\ status[i] = "queued" /\ stored = {}
      BY DEF Init
    <2>2. next[i] \in CallsOf(i) \cup {Between}
      <3>1. 1 \in Batches
        BY BatchesAssumption, SMT DEF Batches
      <3> QED  BY <3>1 DEF Init, CallsOf, ItemCalls
    <2>3. LoadsItems(i) => next[i] = Call("ITEM", 0, 0, 1) /\ next[i].table = "ITEM"
      BY DEF Init, Call
    <2>4. CallsOf(i) \subseteq Left(i)
      BY <2>1, <2>3, AllToComeAtFirst DEF CallsOf, Left
    <2> QED  BY <2>1, <2>2, <2>3, <2>4 DEF Share
  <1> QED  BY <1>1, InitTypeOK DEF SharesInv, Init

\* A step of one client leaves the shares of the others as they are.
LEMMA OneShare ==
    ASSUME SharesInv, TypeOK', NEW i \in Clients, Share(i)',
           \A j \in Clients : j # i => /\ status'[j] = status[j] /\ next'[j] = next[j]
                                       /\ todo'[j] = todo[j] /\ pending'[j] = pending[j],
           driver' = driver, itemsEvent => itemsEvent',
           stored \subseteq stored', stored' \ stored \subseteq CallsOf(i),
           main' = main, ~ Ended(i)
    PROVE  SharesInv'
PROOF
  <1>1. ASSUME NEW j \in Clients, j # i PROVE Share(j)'
    <2>1. CallsOf(j) \cap stored' = CallsOf(j) \cap stored
      BY <1>1, SharesAreDisjoint
    <2>2. Left(j)' = Left(j)
      BY <1>1 DEF Left
    <2> QED  BY <1>1, <2>1, <2>2 DEF SharesInv, Share
  <1>2. main # "finished"
    BY DEF SharesInv
  <1> QED  BY <1>1, <1>2 DEF SharesInv

\* Every step moves calls between what is left, pending and stored only.
LEMMA NextShares ==
    ASSUME SharesInv, TypeOK', [Next]_vars
    PROVE  SharesInv'
PROOF
  <1> USE DEF TypeOK
  <1>0. \A i \in Clients : Share(i)
    BY DEF SharesInv
  <1>1. ASSUME NEW i \in Clients, Start(i) PROVE SharesInv'
    <2>1. Share(i)'
      BY <1>0, <1>1 DEF SharesInv, Share, Start, Left
    <2> QED  BY <1>1, <2>1, OneShare DEF SharesInv, Start, Ended
  <1>2. ASSUME NEW i \in Clients, NextWarehouse(i) PROVE SharesInv'
    <2>1. PICK w \in todo[i] : /\ next' = [next EXCEPT ![i] = Call("WAREHOUSE", w, 0, 0)]
                              /\ todo' = [todo EXCEPT ![i] = @ \ {w}]
      BY <1>2 DEF NextWarehouse
    <2>2. /\ status[i] = "running" /\ next[i] = Between
          /\ UNCHANGED <<driver, status, itemsEvent, pending, stored, lost, main>>
      BY <1>2 DEF NextWarehouse
    <2>3. w \in WIds(i) /\ w \in Warehouses
      BY <1>0 DEF Share, WIds
    <2>4. next'[i] \in CallsOf(i)
      BY <2>1, <2>3 DEF CallsOf, WarehouseCalls, SharesInv
    <2>5. Left(i) \subseteq Left(i)'
      <3>1. /\ next'[i] = Call("WAREHOUSE", w, 0, 0)
            /\ todo'[i] = todo[i] \ {w}
        BY <2>1 DEF SharesInv
      <3>2. WarehouseCalls(w) \subseteq ToCome(next'[i])
        BY <2>3, <3>1, AllToComeAtFirst
      <3>3. ToCome(next[i]) = {}
        BY <2>2, NothingToCome
      <3> QED  BY <3>1, <3>2, <3>3 DEF Left
    <2>6. ~ (LoadsItems(i) /\ driver = "typedb3" /\ ~ itemsEvent)
      <3>1. Between.table # "ITEM"
        BY DEF Between, Call
      <3> QED  BY <1>0, <2>2, <3>1 DEF Share
    <2>7. todo'[i] \subseteq WIds(i)
      BY <1>0, <2>1 DEF Share, SharesInv
    <2>8. Share(i)'
      BY <1>0, <2>2, <2>4, <2>5, <2>6, <2>7 DEF Share
    <2> QED  BY <2>1, <2>2, <2>8, OneShare DEF SharesInv, Ended
  <1>3. ASSUME NEW i \in Clients, LoadTuples(i) PROVE SharesInv'
    <2> DEFINE c == next[i]
    <2>1. /\ c \in AllCalls /\ status[i] = "running"
          /\ next' = [next EXCEPT ![i] = After(c)]
          /\ UNCHANGED <<driver, status, todo, itemsEvent, main>>
      BY <1>3 DEF LoadTuples
    <2>2. c \in CallsOf(i)
      BY <1>0, <2>1, NotCalls DEF Share
    <2>3. After(c) \in CallsOf(i) \cup {FinishItem, Between}
          /\ (c.table = "ITEM" => After(c).table = "ITEM")
      BY <2>2, AfterInShare
    <2>4. next'[i] = After(c)
      BY <2>1 DEF SharesInv
    <2>5. Left(i) \subseteq {c} \cup Left(i)'
      BY <2>1, <2>4, ToComeAfter DEF Left
    <2>6. /\ c \in stored' \cup pending'[i]
          /\ stored \subseteq stored' /\ stored' \subseteq stored \cup {c}
          /\ pending[i] \subseteq pending'[i] /\ pending'[i] \subseteq pending[i] \cup {c}
          /\ driver = "postgres" => stored' = stored
          /\ \A j \in Clients : j # i => pending'[j] = pending[j]
      BY <1>3 DEF LoadTuples, CommitsAtFinish, SharesInv
    <2>7. CallsOf(i) \subseteq stored' \cup pending'[i] \cup Left(i)'
      BY <1>0, <2>1, <2>5, <2>6 DEF Share
    <2>8. LoadsItems(i) /\ driver = "typedb3" /\ ~ itemsEvent => next'[i].table = "ITEM"
      BY <1>0, <2>3, <2>4 DEF Share
    <2>9. pending'[i] \subseteq CallsOf(i) /\ todo'[i] \subseteq WIds(i)
      BY <1>0, <2>1, <2>2, <2>6 DEF Share
    <2>10. Share(i)'
      BY <1>0, <2>1, <2>3, <2>4, <2>6, <2>7, <2>8, <2>9 DEF Share
    <2> QED  BY <2>1, <2>2, <2>6, <2>10, OneShare DEF SharesInv, Ended
  <1>4. ASSUME NEW i \in Clients, LoadFinishItem(i) PROVE SharesInv'
    <2>1. /\ status[i] = "running" /\ next[i] = FinishItem
          /\ next' = [next EXCEPT ![i] = Between]
          /\ itemsEvent' = (itemsEvent \/ driver # "postgres")
          /\ UNCHANGED <<driver, status, todo, pending, stored, lost, main>>
      BY <1>4 DEF LoadFinishItem
    <2>2. next'[i] = Between
      BY <2>1 DEF SharesInv
    <2>3. Left(i) \subseteq Left(i)'
      BY <2>1, NothingToCome DEF Left
    <2>4. driver = "typedb3" => itemsEvent'
      BY <2>1
    <2>5. CallsOf(i) \subseteq stored' \cup pending'[i] \cup Left(i)'
      BY <1>0, <2>1, <2>3 DEF Share
    <2>6. Share(i)'
      BY <1>0, <2>1, <2>2, <2>4, <2>5 DEF Share
    <2>7. itemsEvent => itemsEvent'
      BY <2>1
    <2> QED  BY <2>1, <2>6, <2>7, OneShare DEF SharesInv, Ended
  <1>5. ASSUME NEW i \in Clients, LoadFinish(i) PROVE SharesInv'
    <2>1. /\ status[i] = "running" /\ next[i] = Between /\ todo[i] = {}
          /\ status' = [status EXCEPT ![i] = "done"]
          /\ stored' = stored \cup pending[i]
          /\ pending' = [pending EXCEPT ![i] = {}]
          /\ UNCHANGED <<driver, next, todo, itemsEvent, lost, main>>
      BY <1>5 DEF LoadFinish
    <2>2. Left(i) = {}
      BY <2>1, NothingToCome DEF Left
    <2>3. CallsOf(i) \subseteq stored'
      BY <1>0, <2>1, <2>2 DEF Share
    <2>4. status'[i] = "done" /\ pending'[i] = {}
      BY <2>1 DEF SharesInv
    <2>5. Share(i)'
      BY <1>0, <2>1, <2>3, <2>4 DEF Share
    <2>6. stored' \ stored \subseteq CallsOf(i)
      BY <1>0, <2>1 DEF Share
    <2> QED  BY <2>1, <2>5, <2>6, OneShare DEF SharesInv, Ended
  <1>6. ASSUME NEW i \in Clients, Raise(i) PROVE SharesInv'
    <2>1. /\ status[i] \in {"queued", "running"}
          /\ status' = [status EXCEPT ![i] = "raised"]
          /\ pending' = [pending EXCEPT ![i] = {}]
          /\ UNCHANGED <<driver, next, todo, itemsEvent, stored, lost, main>>
      BY <1>6 DEF Raise
    <2>2. status'[i] = "raised" /\ pending'[i] = {}
      BY <2>1 DEF SharesInv
    <2>3. Share(i)'
      BY <1>0, <2>1, <2>2 DEF Share
    <2> QED  BY <2>1, <2>3, OneShare DEF SharesInv, Ended
  <1>7. CASE Join
    <2>1. /\ \A i \in Clients : Ended(i)
          /\ UNCHANGED <<driver, status, next, todo, itemsEvent, pending, stored, lost>>
      BY <1>7 DEF Join
    <2> QED  BY <2>1 DEF SharesInv, Share, Left, Ended
  <1>8. CASE UNCHANGED vars
    BY <1>8 DEF vars, SharesInv, Share, Left, Ended
  <1> QED
    BY <1>1, <1>2, <1>3, <1>4, <1>5, <1>6, <1>7, <1>8 DEF Next, Step

-----------------------------------------------------------------------------
\* A call of a chain finds its parents.
LEMMA ChainNotLost ==
    ASSUME NEW c, NEW S, NEW L, \A x \in L : x.table \in {"ORDER_LINE", "STOCK"},
           ChainReady(c, S)
    PROVE  ChainReady(c, S \ L)
PROOF
  <1>1. ASSUME NEW w, NEW d PROVE /\ Call("WAREHOUSE", w, 0, 0) \notin L
                                 /\ Call("DISTRICT", w, d, 0) \notin L
                                 /\ Call("CUSTOMER", w, d, 0) \notin L
                                 /\ Call("ORDERS", w, d, 0) \notin L
    BY DEF Call
  <1> QED  BY <1>1 DEF ChainReady

\* Only ORDER_LINE and STOCK are matched to items.
LEMMA ReadyHasOtherParents ==
    ASSUME NEW c \in AllCalls, NEW S, ChainReady(c, S), c.table \notin {"ORDER_LINE", "STOCK"}
    PROVE  Parents(c) \subseteq S
PROOF
  <1>1. Parents(c) \subseteq S \cup ItemCalls
    BY ReadyHasParents, ChainReadyGrows
  <1>2. Parents(c) \cap ItemCalls = {}
    <2>1. ASSUME NEW x \in Parents(c) PROVE x.table # "ITEM"
      <3>1. c.table \in {"ITEM", "WAREHOUSE"} \cup DistrictTables
        BY DEF AllCalls, ItemCalls, WarehouseCalls, Call, DistrictTables
      <3>2. \/ c.table \in {"ITEM", "WAREHOUSE"} \/ c.table = "DISTRICT" \/ c.table = "CUSTOMER"
            \/ c.table = "ORDERS" \/ c.table = "NEW_ORDER" \/ c.table = "HISTORY"
        BY <3>1 DEF DistrictTables
      <3>3. x \in {Call("WAREHOUSE", c.w, 0, 0), Call("DISTRICT", c.w, c.d, 0),
                   Call("CUSTOMER", c.w, c.d, 0), Call("ORDERS", c.w, c.d, 0)}
        BY <3>2 DEF Parents
      <3> QED  BY <3>3 DEF Call
    <2> QED  BY <2>1 DEF ItemCalls, Call
  <1> QED  BY <1>1, <1>2

\* Every step keeps what is lost to tables that refer to items.
LEMMA NextLost ==
    ASSUME LostInv, TypeOK', [Next]_vars
    PROVE  LostInv'
PROOF
  <1> USE DEF LostInv, LostRowsNeedItems, TypeOK
  <1>1. ASSUME NEW i \in Clients, LoadTuples(i) PROVE LostInv'
    <2> DEFINE c == next[i]
    <2>1. c \in AllCalls /\ next' = [next EXCEPT ![i] = After(c)] /\ driver' = driver
      BY <1>1 DEF LoadTuples
    <2>2. CASE driver = "postgres"
      BY <1>1, <2>2 DEF LoadTuples, CommitsAtFinish
    <2>3. CASE driver # "postgres"
      <3>1. /\ stored' = stored \cup {c}
            /\ lost' = IF InsertsByMatch /\ ~ Parents(c) \subseteq stored \ lost
                         THEN lost \cup {c} ELSE lost
        BY <1>1, <2>3 DEF LoadTuples, CommitsAtFinish
      <3>2. c.table \notin {"ORDER_LINE", "STOCK"} => Parents(c) \subseteq stored \ lost
        <4>1. ChainReady(c, stored \ lost)
          <5>1. ChainReady(c, stored) /\ \A x \in lost : x.table \in {"ORDER_LINE", "STOCK"}
            BY <2>3
          <5> QED  BY <5>1, ChainNotLost
        <4> QED  BY <2>1, <4>1, ReadyHasOtherParents
      <3>3. LostRowsNeedItems'
        BY <3>1, <3>2
      <3>4. ChainReady(After(c), stored')
        BY <2>1, <2>3, <3>1, AfterReady
      <3>5. \A j \in Clients : ChainReady(next'[j], stored')
        BY <2>1, <2>3, <3>1, <3>4, ChainReadyGrows
      <3> QED  BY <3>3, <3>5
    <2> QED  BY <2>2, <2>3
  <1>2. ASSUME NEW i \in Clients, NextWarehouse(i) PROVE LostInv'
    <2>1. PICK w : next' = [next EXCEPT ![i] = Call("WAREHOUSE", w, 0, 0)]
      BY <1>2 DEF NextWarehouse
    <2>2. ChainReady(Call("WAREHOUSE", w, 0, 0), stored)
      BY DEF ChainReady, Call, DistrictTables
    <2> QED  BY <1>2, <2>1, <2>2 DEF NextWarehouse
  <1>3. ASSUME NEW i \in Clients, LoadFinishItem(i) PROVE LostInv'
    <2>1. ChainReady(Between, stored)
      BY DEF ChainReady, Between, Call, DistrictTables
    <2> QED  BY <1>3, <2>1 DEF LoadFinishItem
  <1>4. ASSUME NEW i \in Clients, LoadFinish(i) PROVE LostInv'
    BY <1>4, ChainReadyGrows DEF LoadFinish
  <1>5. ASSUME NEW i \in Clients, Start(i) \/ Raise(i) PROVE LostInv'
    BY <1>5 DEF Start, Raise
  <1>6. CASE Join
    BY <1>6 DEF Join
  <1>7. CASE UNCHANGED vars
    BY <1>7 DEF vars
  <1> QED
    BY <1>1, <1>2, <1>3, <1>4, <1>5, <1>6, <1>7 DEF Next, Step

-----------------------------------------------------------------------------
\* The invariants of the load, for every driver.
THEOREM SharesInvariant == Spec => [](SharesInv /\ LostInv)
PROOF
  <1>1. Init => SharesInv
    BY InitShares
  <1>2. Init => LostInv
    <2> SUFFICES ASSUME Init PROVE LostInv
      OBVIOUS
    <2>1. ChainReady(Call("ITEM", 0, 0, 1), {}) /\ ChainReady(Between, {})
      BY DEF ChainReady, Between, Call, DistrictTables
    <2> QED  BY <2>1, InitTypeOK DEF Init, LostInv, LostRowsNeedItems
  <1>3. SharesInv /\ LostInv /\ TypeOK' /\ [Next]_vars => (SharesInv /\ LostInv)'
    BY NextShares, NextLost
  <1> QED  BY <1>1, <1>2, <1>3, TypeCorrect, PTL DEF Spec

\* When main reports "Finished loading", whatever is missing is of a client whose
\* exception startLoading has dropped (tpcc.py:110).
THEOREM MissingHasAnOwner == Spec => []MissingRowsHaveAFailedOwner
PROOF
  <1>1. ASSUME SharesInv PROVE MissingRowsHaveAFailedOwner
    <2> SUFFICES ASSUME main = "finished", NEW c \in AllCalls \ stored
                 PROVE  \E i \in Clients : c \in CallsOf(i) /\ status[i] = "raised"
      BY DEF MissingRowsHaveAFailedOwner
    <2>1. PICK i \in Clients : c \in CallsOf(i)
      BY EveryCallHasAnOwner
    <2>2. Share(i) /\ status[i] \in {"done", "raised"}
      BY <1>1 DEF SharesInv, Ended
    <2>3. CASE status[i] = "done"
      <3>1. pending[i] = {} /\ Left(i) = {}
        BY <2>2, <2>3, NothingToCome DEF Share, Left
      <3> QED  BY <2>1, <2>2, <2>3, <3>1 DEF Share
    <2> QED  BY <2>1, <2>2, <2>3
  <1> QED  BY <1>1, SharesInvariant, PTL

\* With Postgres a client's share is there whole or not at all, whoever fails
\* (postgresdriver.py loadFinish).
THEOREM SharesAreWhole == Spec => []ShareIsAtomic
PROOF
  <1>1. ASSUME SharesInv PROVE ShareIsAtomic
    <2> SUFFICES ASSUME driver = "postgres", NEW i \in Clients
                 PROVE  CallsOf(i) \subseteq stored \/ CallsOf(i) \cap stored = {}
      BY DEF ShareIsAtomic
    <2>1. Share(i)
      BY <1>1 DEF SharesInv
    <2>2. CASE status[i] = "done"
      <3>1. pending[i] = {} /\ Left(i) = {}
        BY <2>1, <2>2, NothingToCome DEF Share, Left
      <3> QED  BY <2>1, <2>2, <3>1 DEF Share
    <2> QED  BY <2>1, <2>2 DEF Share
  <1> QED  BY <1>1, SharesInvariant, PTL

\* With no driver does a table that others are matched to drop rows.
THEOREM OnlyItemsAreMissed == Spec => []LostRowsNeedItems
PROOF
  <1>1. LostInv => LostRowsNeedItems
    BY DEF LostInv
  <1> QED  BY <1>1, SharesInvariant, PTL

\* If main waits for ever, the client that loads ITEM has died.
THEOREM OnlyItemsBlock == Spec => []StuckOnlyWithoutItems
PROOF
  <1>1. ASSUME SharesInv PROVE StuckOnlyWithoutItems
    <2> SUFFICES ASSUME \A i \in Clients : Ended(i) \/ Blocked(i), NEW j \in Clients, Blocked(j)
                 PROVE  \E i \in Clients : LoadsItems(i) /\ status[i] = "raised"
      BY DEF StuckOnlyWithoutItems
    <2>1. driver = "typedb3" /\ ~ itemsEvent
      BY DEF Blocked, WaitsForItems
    <2>2. PICK i \in Clients : LoadsItems(i)
      BY ItemsHaveALoader
    <2>3. Share(i) /\ next[i].table = "ITEM"
      BY <1>1, <2>1, <2>2 DEF SharesInv, Share
    <2>4. ~ Blocked(i)
      BY <2>3 DEF Blocked, WaitsForItems
    <2>5. Between.table # "ITEM"
      BY DEF Between, Call
    <2>6. status[i] # "done"
      BY <2>3, <2>5 DEF Share
    <2> QED  BY <2>2, <2>4, <2>6 DEF Ended
  <1> QED  BY <1>1, SharesInvariant, PTL

-----------------------------------------------------------------------------
(***************************************************************************)
(* The execution.                                                          *)
(***************************************************************************)

\* The pool has been joined before anybody is asked, and asyncr.get() goes through
\* the clients in order, and stops at one that has not returned its Results.
MergedAreDone ==
    /\ execution # "joining" => \A i \in Clients : TaskEnded(i)
    /\ \A i \in 0 .. merged - 1 : pc[i] = "done"
    /\ execution = "reported" => merged = NumClients

ExecIInv == BatchesAddUp /\ MergedAreDone

-----------------------------------------------------------------------------
(***************************************************************************)
(* Results.                                                                *)
(***************************************************************************)
LEMMA EmptyIsResults == EmptyResults \in Results
PROOF BY DEF EmptyResults, Results

\* stopTransaction returns a Results.
LEMMA StopIsResults ==
    ASSUME NEW r \in Results, NEW t \in Types
    PROVE  /\ StopTransaction(r, t) \in Results
           /\ \A u \in Types :
                 /\ StopTransaction(r, t).counters[u] = r.counters[u] + IF u = t THEN 1 ELSE 0
                 /\ StopTransaction(r, t).aborts[u] = r.aborts[u]
PROOF BY DEF StopTransaction, Results

\* abortTransaction returns a Results.
LEMMA AbortIsResults ==
    ASSUME NEW r \in Results, NEW t \in Types
    PROVE  /\ AbortTransaction(r, t) \in Results
           /\ \A u \in Types :
                 /\ AbortTransaction(r, t).counters[u] = r.counters[u]
                 /\ AbortTransaction(r, t).aborts[u] = r.aborts[u] + IF u = t THEN 1 ELSE 0
PROOF BY DEF AbortTransaction, Results

\* A sum of counters is a counter.
LEMMA SumIsResults ==
    ASSUME NEW r \in Results, NEW s \in Results
    PROVE  /\ Sum(r, s) \in Results
           /\ \A u \in Types :
                 /\ Sum(r, s).counters[u] = r.counters[u] + s.counters[u]
                 /\ Sum(r, s).aborts[u] = r.aborts[u] + s.aborts[u]
PROOF BY DEF Sum, Results

\* append returns a Results.
LEMMA AppendIsResults ==
    ASSUME NEW r \in Results, NEW s \in Results
    PROVE  AppendResults(r, s) \in Results
PROOF BY DEF AppendResults, HasKey, Results

\* What a client's three Results have to do with each other.
InStep(show, new, all) ==
    \A t \in Types :
        /\ show.counters[t] + new.counters[t] = all.counters[t]
        /\ show.aborts[t] + new.aborts[t] = all.aborts[t]

\* The clients main has asked were done, and stay so when another one moves.
LEMMA StillMerged ==
    ASSUME ExecIInv, NEW i \in Clients, UNCHANGED mainVars, ~ TaskEnded(i),
           NEW s, pc' = [pc EXCEPT ![i] = s]
    PROVE  MergedAreDone'
PROOF
  <1>1. /\ execution' = execution /\ merged' = merged
        /\ DOMAIN pc = Clients /\ merged \in 0 .. NumClients
    BY DEF mainVars, ExecIInv, BatchesAddUp, ExecTypeOK
  <1>2. execution = "joining"
    BY DEF ExecIInv, MergedAreDone
  <1>3. \A j \in 0 .. merged - 1 : j \in Clients /\ pc[j] = "done"
    BY <1>1, ClientsAssumption DEF ExecIInv, MergedAreDone, Clients
  <1>4. ASSUME NEW j \in 0 .. merged' - 1
        PROVE  pc'[j] = "done"
    <2>1. j \in Clients /\ pc[j] = "done"
      BY <1>1, <1>3
    <2>2. j # i
      BY <2>1 DEF TaskEnded
    <2> QED  BY <1>1, <2>1, <2>2
  <1> QED  BY <1>1, <1>2, <1>4 DEF MergedAreDone

\* A step of client i that leaves main where it is.
LEMMA OneClient ==
    ASSUME ExecIInv, NEW i \in Clients, UNCHANGED <<stopOnError, mainVars>>,
           ~ TaskEnded(i),
           NEW s \in {"queued", "looping", "executing", "done", "raised", "interrupted"},
           NEW x \in Types \cup {None}, x # None <=> s \in {"executing", "interrupted"},
           NEW g \in Results, NEW b \in Results, NEW h \in Results, InStep(h, b, g),
           pc' = [pc EXCEPT ![i] = s],
           txn' = [txn EXCEPT ![i] = x],
           global' = [global EXCEPT ![i] = g],
           batch' = [batch EXCEPT ![i] = b],
           shown' = [shown EXCEPT ![i] = h],
           started' \in [Clients -> [Types -> Nat]]
    PROVE  ExecIInv'
PROOF
  <1>1. ExecTypeOK'
    BY DEF ExecIInv, BatchesAddUp, ExecTypeOK, mainVars
  <1>2. \A j \in Clients : InStep(shown'[j], batch'[j], global'[j])
    BY DEF ExecIInv, BatchesAddUp, ExecTypeOK, InStep
  <1>3. MergedAreDone'
    BY StillMerged
  <1> QED  BY <1>1, <1>2, <1>3 DEF ExecIInv, BatchesAddUp, InStep

\* A step that only says where the task is.
LEMMA OnlyPc ==
    ASSUME ExecIInv, NEW i \in Clients, ~ TaskEnded(i),
           NEW s \in {"queued", "looping", "executing", "done", "raised", "interrupted"},
           txn[i] # None <=> s \in {"executing", "interrupted"},
           pc' = [pc EXCEPT ![i] = s],
           UNCHANGED <<stopOnError, txn, started, global, batch, shown, mainVars>>
    PROVE  ExecIInv'
PROOF
  <1>1. ExecTypeOK'
    BY DEF ExecIInv, BatchesAddUp, ExecTypeOK, mainVars
  <1>2. MergedAreDone'
    BY StillMerged
  <1> QED  BY <1>1, <1>2 DEF ExecIInv, BatchesAddUp

-----------------------------------------------------------------------------
\* The invariant holds before the clients start.
LEMMA InitExecIInv == ExecInit => ExecIInv
PROOF
  <1> SUFFICES ASSUME ExecInit PROVE ExecIInv
    OBVIOUS
  <1>1. ExecTypeOK
    BY ClientsAssumption, EmptyIsResults DEF ExecInit, ExecTypeOK
  <1>2. \A i \in Clients : InStep(shown[i], batch[i], global[i])
    BY DEF ExecInit, InStep, EmptyResults
  <1>3. MergedAreDone
    BY DEF ExecInit, MergedAreDone
  <1> QED  BY <1>1, <1>2, <1>3 DEF ExecIInv, BatchesAddUp, InStep

\* A step of a client keeps it.
LEMMA ClientIInv ==
    ASSUME ExecIInv, NEW i \in Clients, ClientStep(i)
    PROVE  ExecIInv'
PROOF
  <1>1. /\ global[i] \in Results /\ batch[i] \in Results /\ shown[i] \in Results
        /\ InStep(shown[i], batch[i], global[i])
        /\ txn[i] \in Types \cup {None}
        /\ txn[i] # None <=> pc[i] \in {"executing", "interrupted"}
        /\ started \in [Clients -> [Types -> Nat]]
    BY DEF ExecIInv, BatchesAddUp, ExecTypeOK, InStep
  <1>2. /\ pc = [pc EXCEPT ![i] = pc[i]]
        /\ txn = [txn EXCEPT ![i] = txn[i]]
        /\ global = [global EXCEPT ![i] = global[i]]
        /\ batch = [batch EXCEPT ![i] = batch[i]]
        /\ shown = [shown EXCEPT ![i] = shown[i]]
    BY DEF ExecIInv, BatchesAddUp, ExecTypeOK
  <1>3. CASE TakeTask(i)
    <2>1. PICK s \in {"looping", "raised"} : pc' = [pc EXCEPT ![i] = s]
      BY <1>3 DEF TakeTask
    <2>2. pc[i] = "queued" /\ UNCHANGED <<stopOnError, txn, started, global, batch, shown, mainVars>>
      BY <1>3 DEF TakeTask
    <2> QED  BY <1>1, <2>1, <2>2, OnlyPc DEF TaskEnded
  <1>4. CASE Begin(i)
    <2>1. PICK t \in Types : /\ txn' = [txn EXCEPT ![i] = t]
                             /\ started' = [started EXCEPT ![i][t] = @ + 1]
      BY <1>4 DEF Begin
    <2>2. /\ pc[i] = "looping" /\ pc' = [pc EXCEPT ![i] = "executing"]
          /\ UNCHANGED <<stopOnError, global, batch, shown, mainVars>>
      BY <1>4 DEF Begin
    <2>3. started' \in [Clients -> [Types -> Nat]]
      BY <1>1, <2>1
    <2>4. t # None
      BY NoneAssumption
    <2> QED  BY <1>1, <1>2, <2>1, <2>2, <2>3, <2>4, OneClient DEF TaskEnded
  <1>5. ASSUME pc[i] = "executing"
        PROVE  txn[i] \in Types
    BY <1>1, <1>5
  <1>6. CASE Completes(i)
    <2> DEFINE counted == StopTransaction(batch[i], txn[i])
               all     == StopTransaction(global[i], txn[i])
    <2>1. /\ pc[i] = "executing" /\ pc' = [pc EXCEPT ![i] = "looping"]
          /\ txn' = [txn EXCEPT ![i] = None]
          /\ global' = [global EXCEPT ![i] = all]
          /\ UNCHANGED <<stopOnError, started, mainVars>>
      BY <1>6 DEF Completes
    <2>2. txn[i] \in Types
      BY <1>5, <2>1
    <2>3. /\ counted \in Results /\ all \in Results
          /\ \A u \in Types :
                /\ counted.counters[u] = batch[i].counters[u] + IF u = txn[i] THEN 1 ELSE 0
                /\ counted.aborts[u] = batch[i].aborts[u]
                /\ all.counters[u] = global[i].counters[u] + IF u = txn[i] THEN 1 ELSE 0
                /\ all.aborts[u] = global[i].aborts[u]
      BY <1>1, <2>2, StopIsResults
    <2> HIDE DEF counted, all
    <2>4. CASE batch' = [batch EXCEPT ![i] = counted] /\ UNCHANGED shown
      <3>1. InStep(shown[i], counted, all)
        <4>1. ASSUME NEW t \in Types
              PROVE  shown[i].counters[t] + counted.counters[t] = all.counters[t]
          <5>1. /\ shown[i].counters[t] \in Nat /\ batch[i].counters[t] \in Nat
                /\ shown[i].counters[t] + batch[i].counters[t] = global[i].counters[t]
            BY <1>1 DEF InStep, Results
          <5>2. CASE t = txn[i]
            <6>1. /\ counted.counters[t] = batch[i].counters[t] + 1
                  /\ all.counters[t] = global[i].counters[t] + 1
              BY <2>3, <5>2
            <6> QED  BY <5>1, <6>1
          <5>3. CASE t # txn[i]
            <6>1. /\ counted.counters[t] = batch[i].counters[t] + 0
                  /\ all.counters[t] = global[i].counters[t] + 0
              BY <2>3, <5>3
            <6> QED  BY <5>1, <6>1
          <5> QED  BY <5>2, <5>3
        <4>2. ASSUME NEW t \in Types
              PROVE  shown[i].aborts[t] + counted.aborts[t] = all.aborts[t]
          BY <1>1, <2>3 DEF InStep, Results
        <4> QED  BY <4>1, <4>2 DEF InStep
      <3> QED  BY <1>1, <1>2, <2>1, <2>3, <2>4, <3>1, OneClient DEF TaskEnded
    <2>5. CASE /\ shown' = [shown EXCEPT ![i] = Sum(@, counted)]
               /\ batch' = [batch EXCEPT ![i] = EmptyResults]
      <3>1. /\ Sum(shown[i], counted) \in Results
            /\ \A u \in Types :
                  /\ Sum(shown[i], counted).counters[u] = shown[i].counters[u] + counted.counters[u]
                  /\ Sum(shown[i], counted).aborts[u] = shown[i].aborts[u] + counted.aborts[u]
        BY <1>1, <2>3, SumIsResults
      <3>2. \A u \in Types : EmptyResults.counters[u] = 0 /\ EmptyResults.aborts[u] = 0
        BY DEF EmptyResults
      <3>3. InStep(Sum(shown[i], counted), EmptyResults, all)
        BY <1>1, <2>3, <3>1, <3>2 DEF InStep, Results
      <3>4. shown' = [shown EXCEPT ![i] = Sum(shown[i], counted)]
        BY <2>5
      <3> QED  BY <1>1, <1>2, <2>1, <2>3, <2>5, <3>1, <3>3, <3>4, EmptyIsResults, OneClient DEF TaskEnded
    <2> QED  BY <1>6, <2>4, <2>5 DEF Completes, counted
  <1>7. ASSUME Aborted(i), pc[i] = "executing",
               UNCHANGED <<stopOnError, started, shown, mainVars>>,
               NEW s \in {"looping", "raised"}, pc' = [pc EXCEPT ![i] = s]
        PROVE  ExecIInv'
    <2> DEFINE new == AbortTransaction(batch[i], txn[i])
               all == AbortTransaction(global[i], txn[i])
    <2>1. /\ txn' = [txn EXCEPT ![i] = None]
          /\ global' = [global EXCEPT ![i] = all]
          /\ batch' = [batch EXCEPT ![i] = new]
      BY <1>7 DEF Aborted
    <2>2. txn[i] \in Types
      BY <1>5, <1>7
    <2>3. /\ new \in Results /\ all \in Results
          /\ \A u \in Types :
                /\ new.counters[u] = batch[i].counters[u]
                /\ new.aborts[u] = batch[i].aborts[u] + IF u = txn[i] THEN 1 ELSE 0
                /\ all.counters[u] = global[i].counters[u]
                /\ all.aborts[u] = global[i].aborts[u] + IF u = txn[i] THEN 1 ELSE 0
      BY <1>1, <2>2, AbortIsResults
    <2> HIDE DEF new, all
    <2>4. InStep(shown[i], new, all)
      BY <1>1, <2>3 DEF InStep, Results
    <2> QED  BY <1>1, <1>2, <1>7, <2>1, <2>3, <2>4, OneClient DEF TaskEnded
  <1>8. CASE Aborts(i)
    BY <1>7, <1>8 DEF Aborts
  <1>9. CASE Fails(i)
    <2>1. (IF stopOnError THEN "raised" ELSE "looping") \in {"looping", "raised"}
      OBVIOUS
    <2> QED  BY <1>7, <1>9, <2>1 DEF Fails
  <1>10. CASE Interrupt(i)
    <2>1. /\ pc[i] = "executing" /\ pc' = [pc EXCEPT ![i] = "interrupted"]
          /\ UNCHANGED <<stopOnError, txn, started, global, batch, shown, mainVars>>
      BY <1>10 DEF Interrupt
    <2> QED  BY <1>1, <2>1, OnlyPc DEF TaskEnded
  <1>11. CASE Finish(i)
    <2>1. /\ pc[i] = "looping" /\ pc' = [pc EXCEPT ![i] = "done"]
          /\ UNCHANGED <<stopOnError, txn, started, global, batch, shown, mainVars>>
      BY <1>11 DEF Finish
    <2> QED  BY <1>1, <2>1, OnlyPc DEF TaskEnded
  <1> QED  BY <1>3, <1>4, <1>6, <1>8, <1>9, <1>10, <1>11 DEF ClientStep

\* A step of main keeps it.
LEMMA MainIInv ==
    ASSUME ExecIInv, MainStep
    PROVE  ExecIInv'
PROOF
  <1>1. UNCHANGED <<stopOnError, pc, txn, started, global, batch, shown>>
    BY DEF MainStep, PoolJoin, Merge, Report
  <1>2. total' \in Results /\ merged' \in 0 .. NumClients
        /\ execution' \in {"joining", "merging", "reported", "raised", "exited"}
        /\ MergedAreDone'
    <2>1. CASE PoolJoin
      BY <2>1 DEF PoolJoin, ExecIInv, BatchesAddUp, ExecTypeOK, MergedAreDone, TaskEnded
    <2>2. CASE Report
      BY <2>2 DEF Report, ExecIInv, BatchesAddUp, ExecTypeOK, MergedAreDone, TaskEnded
    <2>3. CASE Merge
      <3> DEFINE i == merged
      <3>1. /\ execution = "merging" /\ merged < NumClients /\ merged \in Nat
            /\ i \in Clients
            /\ global[i] \in Results /\ total \in Results
        BY <2>3, ClientsAssumption DEF Merge, ExecIInv, BatchesAddUp, ExecTypeOK, Clients
      <3>2. CASE pc[i] = "done"
        <4>1. total' = AppendResults(total, global[i]) /\ merged' = merged + 1 /\ execution' = execution
          BY <2>3, <3>2 DEF Merge
        <4>2. total' \in Results
          BY <3>1, <4>1, AppendIsResults
        <4>3. MergedAreDone'
          BY <1>1, <3>1, <3>2, <4>1 DEF MergedAreDone, ExecIInv, TaskEnded
        <4> QED  BY <3>1, <4>1, <4>2, <4>3, ClientsAssumption DEF Clients
      <3>3. CASE pc[i] # "done"
        <4>1. total' = total /\ merged' = merged /\ execution' \in {"raised", "exited"}
          <5>1. pc[i] \in {"raised", "interrupted"}
            BY <3>1, <3>3 DEF ExecIInv, MergedAreDone, TaskEnded
          <5> QED  BY <2>3, <3>3, <5>1 DEF Merge
        <4> QED  BY <1>1, <3>1, <4>1 DEF MergedAreDone, ExecIInv, BatchesAddUp, ExecTypeOK, TaskEnded
      <3> QED  BY <3>2, <3>3
    <2> QED  BY <2>1, <2>2, <2>3 DEF MainStep
  <1> QED  BY <1>1, <1>2 DEF ExecIInv, BatchesAddUp, ExecTypeOK

\* So does every step.
LEMMA NextExecIInv == ExecIInv /\ [ExecNext]_execVars => ExecIInv'
PROOF
  <1> SUFFICES ASSUME ExecIInv, [ExecNext]_execVars PROVE ExecIInv'
    OBVIOUS
  <1>1. CASE UNCHANGED execVars
    BY <1>1 DEF execVars, ExecIInv, BatchesAddUp, ExecTypeOK, MergedAreDone, TaskEnded
  <1> QED  BY <1>1, MainIInv, ClientIInv DEF ExecNext

\* The invariant of the execution phase.
THEOREM ExecutionInvariant == ExecSpec => []ExecIInv
PROOF BY InitExecIInv, NextExecIInv, PTL DEF ExecSpec

\* The Results of the run and those of the batches are kept in step whichever
\* way the transactions of a client end (executor.py:52-103), however many there
\* are, and every variable keeps its type.
THEOREM BatchesAreWhole == ExecSpec => []BatchesAddUp
PROOF
  <1>1. ExecIInv => BatchesAddUp
    BY DEF ExecIInv
  <1> QED  BY <1>1, ExecutionInvariant, PTL

\* startExecution returns only if every client has returned its Results
\* (tpcc.py:150-176).
THEOREM NoReportWithoutAll == ExecSpec => []ReportNeedsEveryClient
PROOF
  <1>1. ExecIInv => ReportNeedsEveryClient
    BY DEF ExecIInv, MergedAreDone, ReportNeedsEveryClient, Clients
  <1> QED  BY <1>1, ExecutionInvariant, PTL

-----------------------------------------------------------------------------
(***************************************************************************)
(* What is reported.                                                       *)
(***************************************************************************)
Started(t) == [i \in Clients |-> started[i][t]]

\* The clients main has asked that have completed a transaction of type t.
Reporting(t) == {i \in 0 .. merged - 1 : global[i].counters[t] > 0}

\* A client has counted what it has started, but for what it executes; main has
\* added up what the clients it has asked, if they completed one, have started.
CountInv ==
    /\ \A i \in Clients, t \in Types :
          started[i][t] = global[i].counters[t] + global[i].aborts[t]
                             + IF txn[i] = t THEN 1 ELSE 0
    /\ execution = "joining" => merged = 0
    /\ \A t \in Types :
          total.counters[t] + total.aborts[t] = SumFunctionOnSet(Started(t), Reporting(t))

\* Nothing is counted before the clients start.
LEMMA InitCountInv == ExecInit => CountInv
PROOF
  <1> SUFFICES ASSUME ExecInit PROVE CountInv
    OBVIOUS
  <1>1. ASSUME NEW t \in Types
        PROVE  total.counters[t] + total.aborts[t] = SumFunctionOnSet(Started(t), Reporting(t))
    <2>1. total.counters[t] = 0 /\ total.aborts[t] = 0
      BY DEF ExecInit, EmptyResults
    <2>2. Reporting(t) = {}
      BY DEF ExecInit, Reporting
    <2> QED  BY <2>1, <2>2, SumEmpty
  <1>2. \A i \in Clients, t \in Types :
           started[i][t] = 0 /\ global[i].counters[t] = 0 /\ global[i].aborts[t] = 0 /\ txn[i] # t
    BY NoneAssumption DEF ExecInit, EmptyResults
  <1> QED  BY <1>1, <1>2 DEF CountInv, ExecInit

\* A client moves before main has asked anybody.
LEMMA ClientCountInv ==
    ASSUME ExecIInv, CountInv, NEW i \in Clients, ClientStep(i)
    PROVE  CountInv'
PROOF
  <1>1. UNCHANGED mainVars /\ pc[i] \in {"queued", "looping", "executing"}
    BY DEF ClientStep, TakeTask, Begin, Completes, Aborts, Fails, Interrupt, Finish
  <1>2. execution = "joining" /\ merged = 0 /\ execution' = execution /\ merged' = merged /\ total' = total
    BY <1>1 DEF ExecIInv, MergedAreDone, TaskEnded, CountInv, mainVars
  <1>3. ASSUME NEW t \in Types
        PROVE  total'.counters[t] + total'.aborts[t] = SumFunctionOnSet(Started(t), Reporting(t))'
    <2>1. Reporting(t) = {} /\ Reporting(t)' = {}
      BY <1>2 DEF Reporting
    <2>2. total.counters[t] + total.aborts[t] = 0
      BY <2>1, SumEmpty DEF CountInv
    <2>3. SumFunctionOnSet(Started(t)', {}) = 0
      BY SumEmpty
    <2> QED  BY <1>2, <2>1, <2>2, <2>3
  <1>4. /\ DOMAIN txn = Clients /\ DOMAIN global = Clients /\ started \in [Clients -> [Types -> Nat]]
        /\ \A j \in Clients : global[j] \in Results
        /\ \A j \in Clients, t \in Types :
              global[j].counters[t] \in Nat /\ global[j].aborts[t] \in Nat
    BY DEF ExecIInv, BatchesAddUp, ExecTypeOK, Results
  <1>5. pc[i] = "executing" => txn[i] \in Types
    BY DEF ExecIInv, BatchesAddUp, ExecTypeOK
  <1>6. pc[i] # "executing" => txn[i] = None
    BY <1>1 DEF ExecIInv, BatchesAddUp, ExecTypeOK
  <1>7. ASSUME NEW j \in Clients, NEW t \in Types
        PROVE  started'[j][t] = global'[j].counters[t] + global'[j].aborts[t]
                                   + IF txn'[j] = t THEN 1 ELSE 0
    <2>1. started[j][t] = global[j].counters[t] + global[j].aborts[t] + IF txn[j] = t THEN 1 ELSE 0
      BY DEF CountInv
    <2>2. CASE UNCHANGED <<started, global, txn>>
      BY <2>1, <2>2
    <2>3. CASE Begin(i)
      <3>1. PICK u \in Types : txn' = [txn EXCEPT ![i] = u] /\ started' = [started EXCEPT ![i][u] = @ + 1]
        BY <2>3 DEF Begin
      <3>2. global' = global /\ txn[i] = None
        BY <1>6, <2>3 DEF Begin
      <3>3. CASE j = i /\ t = u
        <4>1. started'[j][t] = started[j][t] + 1 /\ txn'[j] = t /\ txn[j] # t
          BY <1>4, <3>1, <3>2, <3>3, NoneAssumption
        <4> QED  BY <1>4, <2>1, <3>2, <4>1
      <3>4. CASE ~ (j = i /\ t = u)
        <4>1. started'[j][t] = started[j][t] /\ (txn'[j] = t <=> txn[j] = t)
          BY <1>4, <3>1, <3>2, <3>4, NoneAssumption
        <4> QED  BY <2>1, <3>2, <4>1
      <3> QED  BY <3>3, <3>4
    <2>4. CASE Completes(i)
      <3> DEFINE all == StopTransaction(global[i], txn[i])
      <3>1. /\ txn[i] \in Types /\ started' = started /\ txn' = [txn EXCEPT ![i] = None]
            /\ global' = [global EXCEPT ![i] = all]
        BY <1>5, <2>4 DEF Completes
      <3>2. all.counters[t] = global[i].counters[t] + IF t = txn[i] THEN 1 ELSE 0
        BY <1>4, <3>1, StopIsResults
      <3>3. all.aborts[t] = global[i].aborts[t]
        BY <1>4, <3>1, StopIsResults
      <3> HIDE DEF all
      <3>4. CASE j = i
        <4>1. global'[j] = all /\ txn'[j] # t
          BY <1>4, <3>1, <3>4, NoneAssumption
        <4>2. CASE t = txn[i]
          <5>1. txn[i] = t /\ started'[j][t] = started[i][t]
            BY <3>1, <3>4, <4>2
          <5>2. started[i][t] = global[i].counters[t] + global[i].aborts[t] + 1
            BY <2>1, <3>4, <5>1
          <5>3. global'[j].counters[t] + global'[j].aborts[t] =
                   global[i].counters[t] + global[i].aborts[t] + 1
            <6>1. all.counters[t] = global[i].counters[t] + 1
              BY <3>2, <4>2
            <6>2. global'[j].counters[t] = all.counters[t] /\ global'[j].aborts[t] = all.aborts[t]
              BY <4>1
            <6>3. global[i].counters[t] \in Nat /\ global[i].aborts[t] \in Nat
              BY <1>4
            <6> QED  BY <3>3, <6>1, <6>2, <6>3
          <5>4. global[i].counters[t] \in Nat /\ global[i].aborts[t] \in Nat
            BY <1>4
          <5> QED  BY <4>1, <5>1, <5>2, <5>3, <5>4
        <4>3. CASE t # txn[i]
          BY <1>4, <2>1, <3>1, <3>2, <3>3, <3>4, <4>1, <4>3
        <4> QED  BY <4>2, <4>3
      <3>5. CASE j # i
        BY <1>4, <2>1, <3>1, <3>5
      <3> QED  BY <3>4, <3>5
    <2>5. CASE Aborts(i) \/ Fails(i)
      <3> DEFINE all == AbortTransaction(global[i], txn[i])
      <3>1. /\ txn[i] \in Types /\ started' = started /\ txn' = [txn EXCEPT ![i] = None]
            /\ global' = [global EXCEPT ![i] = all]
        BY <1>5, <2>5 DEF Aborts, Fails, Aborted
      <3>2. all.aborts[t] = global[i].aborts[t] + IF t = txn[i] THEN 1 ELSE 0
        BY <1>4, <3>1, AbortIsResults
      <3>3. all.counters[t] = global[i].counters[t]
        BY <1>4, <3>1, AbortIsResults
      <3> HIDE DEF all
      <3>4. CASE j = i
        <4>1. global'[j] = all /\ txn'[j] # t
          BY <1>4, <3>1, <3>4, NoneAssumption
        <4>2. CASE t = txn[i]
          <5>1. txn[i] = t /\ started'[j][t] = started[i][t]
            BY <3>1, <3>4, <4>2
          <5>2. started[i][t] = global[i].counters[t] + global[i].aborts[t] + 1
            BY <2>1, <3>4, <5>1
          <5>3. global'[j].counters[t] + global'[j].aborts[t] =
                   global[i].counters[t] + global[i].aborts[t] + 1
            <6>1. all.aborts[t] = global[i].aborts[t] + 1
              BY <3>2, <4>2
            <6>2. global'[j].counters[t] = all.counters[t] /\ global'[j].aborts[t] = all.aborts[t]
              BY <4>1
            <6>3. global[i].counters[t] \in Nat /\ global[i].aborts[t] \in Nat
              BY <1>4
            <6> QED  BY <3>3, <6>1, <6>2, <6>3
          <5>4. global[i].counters[t] \in Nat /\ global[i].aborts[t] \in Nat
            BY <1>4
          <5> QED  BY <4>1, <5>1, <5>2, <5>3, <5>4
        <4>3. CASE t # txn[i]
          BY <1>4, <2>1, <3>1, <3>2, <3>3, <3>4, <4>1, <4>3
        <4> QED  BY <4>2, <4>3
      <3>5. CASE j # i
        BY <1>4, <2>1, <3>1, <3>5
      <3> QED  BY <3>4, <3>5
    <2> QED  BY <2>2, <2>3, <2>4, <2>5 DEF ClientStep, TakeTask, Interrupt, Finish
  <1> QED  BY <1>2, <1>3, <1>7 DEF CountInv

\* An answer adds what the client has started of a type it has completed, and
\* nothing of the others, though it may have counted aborts of them.
LEMMA MainCountInv ==
    ASSUME ExecIInv, CountInv, MainStep
    PROVE  CountInv'
PROOF
  <1>1. UNCHANGED <<pc, txn, started, global>>
    BY DEF MainStep, PoolJoin, Merge, Report
  <1>2. \A j \in Clients, t \in Types :
           started'[j][t] = global'[j].counters[t] + global'[j].aborts[t] + IF txn'[j] = t THEN 1 ELSE 0
    BY <1>1 DEF CountInv
  <1>3. \A t \in Types : Started(t)' = Started(t)
    BY <1>1 DEF Started
  <1>4. CASE merged' = merged /\ total' = total /\ (execution' = "joining" => execution = "joining")
    <2>1. \A t \in Types : Reporting(t)' = Reporting(t)
      BY <1>1, <1>4 DEF Reporting
    <2> QED  BY <1>2, <1>3, <1>4, <2>1 DEF CountInv
  <1>5. CASE Merge /\ pc[merged] = "done"
    <2> DEFINE i == merged
    <2>1. /\ total' = AppendResults(total, global[i]) /\ merged' = merged + 1 /\ execution' = "merging"
          /\ merged \in Nat /\ i \in Clients
      BY <1>5, ClientsAssumption DEF Merge, ExecIInv, BatchesAddUp, ExecTypeOK, Clients
    <2>2. ASSUME NEW t \in Types
          PROVE  total'.counters[t] + total'.aborts[t] = SumFunctionOnSet(Started(t), Reporting(t)')
      <3>1. /\ total'.counters[t] = total.counters[t] + global[i].counters[t]
            /\ total'.aborts[t] = total.aborts[t] +
                  IF global[i].counters[t] > 0 THEN global[i].aborts[t] ELSE 0
        BY <2>1 DEF AppendResults, HasKey
      <3>2. /\ total.counters[t] \in Nat /\ total.aborts[t] \in Nat
            /\ global[i].counters[t] \in Nat /\ global[i].aborts[t] \in Nat
        BY <2>1 DEF ExecIInv, BatchesAddUp, ExecTypeOK, Results
      <3>3. txn[i] # t
        BY <1>5, <2>1, NoneAssumption DEF ExecIInv, BatchesAddUp, ExecTypeOK
      <3>4. started[i][t] = global[i].counters[t] + global[i].aborts[t]
        <4>1. started[i][t] = global[i].counters[t] + global[i].aborts[t] + 0
          BY <2>1, <3>3 DEF CountInv
        <4> QED  BY <3>2, <4>1
      <3>5. total.counters[t] + total.aborts[t] = SumFunctionOnSet(Started(t), Reporting(t))
        BY DEF CountInv
      <3>6. CASE global[i].counters[t] > 0
        <4>1. Reporting(t)' = Reporting(t) \cup {i} /\ i \notin Reporting(t)
          BY <1>1, <2>1, <3>6 DEF Reporting
        <4>2. IsFiniteSet(Reporting(t)') /\ Reporting(t)' \subseteq Clients
          <5>1. IsFiniteSet(0 .. i) /\ 0 .. i \subseteq Clients
            BY <2>1, FS_Interval, ClientsAssumption DEF Clients
          <5> QED  BY <2>1, <5>1, FS_Subset DEF Reporting
        <4>3. \A x \in Reporting(t)' : Started(t)[x] \in Int
          BY <4>2 DEF Started, ExecIInv, BatchesAddUp, ExecTypeOK
        <4>4. SumFunctionOnSet(Started(t), Reporting(t)') =
                 Started(t)[i] + SumFunctionOnSet(Started(t), Reporting(t)' \ {i})
          BY <4>1, <4>2, <4>3, SumRemove
        <4>5. Reporting(t)' \ {i} = Reporting(t)
          BY <4>1
        <4>6. Started(t)[i] = started[i][t]
          BY <2>1 DEF Started
        <4>7. total'.aborts[t] = total.aborts[t] + global[i].aborts[t]
          BY <3>1, <3>6
        <4>8. SumFunctionOnSet(Started(t), Reporting(t)') =
                 (global[i].counters[t] + global[i].aborts[t]) + (total.counters[t] + total.aborts[t])
          BY <3>4, <3>5, <4>4, <4>5, <4>6
        <4>9. total'.counters[t] = total.counters[t] + global[i].counters[t]
          BY <3>1
        <4> QED  BY <3>2, <4>7, <4>8, <4>9
      <3>7. CASE ~ (global[i].counters[t] > 0)
        <4>1. Reporting(t)' = Reporting(t)
          BY <1>1, <2>1, <3>7 DEF Reporting
        <4>2. global[i].counters[t] = 0 /\ total'.aborts[t] = total.aborts[t]
          BY <3>1, <3>2, <3>7
        <4> QED  BY <3>1, <3>2, <3>5, <4>1, <4>2
      <3> QED  BY <3>6, <3>7
    <2> QED  BY <1>2, <1>3, <2>1, <2>2 DEF CountInv
  <1>6. Merge => \/ pc[merged] = "done"
                 \/ merged' = merged /\ total' = total /\ execution' # "joining"
    <2> SUFFICES ASSUME Merge, pc[merged] # "done"
                 PROVE  merged' = merged /\ total' = total /\ execution' # "joining"
      OBVIOUS
    <2>1. merged \in Clients
      BY ClientsAssumption DEF Merge, ExecIInv, BatchesAddUp, ExecTypeOK, Clients
    <2>2. pc[merged] \in {"raised", "interrupted"}
      BY <2>1 DEF Merge, ExecIInv, MergedAreDone, TaskEnded
    <2> QED  BY <2>2 DEF Merge
  <1> QED  BY <1>4, <1>5, <1>6 DEF MainStep, PoolJoin, Report

\* Every step keeps the counts in step with what was started.
LEMMA NextCountInv == ExecIInv /\ CountInv /\ [ExecNext]_execVars => CountInv'
PROOF
  <1> SUFFICES ASSUME ExecIInv, CountInv, [ExecNext]_execVars PROVE CountInv'
    OBVIOUS
  <1>1. CASE UNCHANGED execVars
    BY <1>1 DEF execVars, CountInv, Started, Reporting
  <1> QED  BY <1>1, MainCountInv, ClientCountInv DEF ExecNext

\* Of a type, the report counts every transaction started by the clients that
\* completed one, and none of the others (results.py:139-160 goes through the keys
\* of txn_counters), for any number of clients and transactions.
THEOREM ReportedAreStarted == ExecSpec => []ReportedWhereCompleted
PROOF
  <1>1. ASSUME ExecIInv, CountInv
        PROVE  ReportedWhereCompleted
    <2> SUFFICES ASSUME execution = "reported", NEW t \in Types
                 PROVE  total.counters[t] + total.aborts[t] =
                           SumFunctionOnSet([i \in Clients |-> started[i][t]],
                                            {i \in Clients : global[i].counters[t] > 0})
      BY DEF ReportedWhereCompleted
    <2>1. 0 .. merged - 1 = Clients
      BY <1>1 DEF ExecIInv, MergedAreDone, Clients
    <2>2. Reporting(t) = {i \in Clients : global[i].counters[t] > 0}
      BY <2>1 DEF Reporting
    <2> QED  BY <1>1, <2>2 DEF CountInv, Started
  <1>2. ExecSpec => []CountInv
    BY InitCountInv, NextCountInv, ExecutionInvariant, PTL DEF ExecSpec
  <1> QED  BY <1>1, <1>2, ExecutionInvariant, PTL
=============================================================================
