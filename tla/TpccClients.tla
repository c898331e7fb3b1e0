---------------------------- MODULE TpccClients -----------------------------
(***************************************************************************)
(* An execution with one of the drivers, the one named on the command      *)
(* line, and which of the consistency checks of TPC-C (verify.js)          *)
(* its clients cannot break however their statements interleave.           *)
(***************************************************************************)
EXTENDS DriverClients

CONSTANT Drivers   \* the systems a run may name

ASSUME DriversAssumption == Drivers \subseteq {"sqlite", "neo4j", "typedb2"}

VARIABLE driver

Sqlite  == INSTANCE SqliteClients
Neo4j   == INSTANCE Neo4jClients
Typedb2 == INSTANCE Typedb2Clients

Init ==
    /\ driver \in Drivers
    /\ \/ driver = "sqlite" /\ Sqlite!Init
       \/ driver = "neo4j" /\ Neo4j!Init
       \/ driver = "typedb2" /\ Typedb2!Init

Next ==
    /\ \/ driver = "sqlite" /\ Sqlite!Next
       \/ driver = "neo4j" /\ Neo4j!Next
       \/ driver = "typedb2" /\ Typedb2!Next
    /\ UNCHANGED driver

Spec == Init /\ [][Next]_<<driver, vars>>

----------------------------------------------------------------------------
(***************************************************************************)
(* Properties.                                                             *)
(***************************************************************************)
TypeOK ==
    /\ driver \in Drivers
    /\ \A i \in Clients :
          /\ request[i] \in Requests \cup {NoRequest}
          /\ pc[i] = "idle" <=> request[i] = NoRequest
          /\ open[i] \in CASE driver = "sqlite" -> {"no", "begun", "shared", "reserved"}
                           [] OTHER -> {"no", "yes"}
          /\ written[i] # NoRows => open[i] # "no"
    /\ ended \in [Clients -> 0 .. MaxTransactions]
    /\ LoadedRows \ {row \in LoadedRows : row[1] = "new_order"} \subseteq DOMAIN db

\* The delivered orders of customer c of district d.
CarriedTo(rows, d, c) ==
    {row \in OrdersOf(rows, d) : rows[row].delivered /\ rows[row].c = c}

\* What the customers of a district have paid and been credited.
BalancesArePaid ==
    \A d \in DIds, c \in CIds :
        db[CustomerRow(d, c)].balance + db[CustomerRow(d, c)].paid =
            SumFunction([row \in CarriedTo(db, d, c) |-> db[row].amount])

\* verify.js.  Check 1 holds for every driver: what a payment adds to W_YTD it
\* adds to D_YTD, whatever its transaction runs into.  Checks 8 and 9 hold where
\* HISTORY is written: with SQLite a call may raise and what it has written be
\* stored by the next one, but never a part of a payment.  Checks 3 and 5 are of
\* the driver with a table NEW_ORDER: a delivery that takes an order another one
\* has taken leaves no hole, and no order both new and delivered.  Check 12 holds
\* for the one driver whose whole call reads from a snapshot: payments and
\* deliveries of one customer lose nothing and credit no order twice.
Consistent ==
    /\ TypeOK
    /\ Check1(db)
    /\ driver # "neo4j" => Check9(db)
    /\ driver = "sqlite" => Check3(db) /\ Check5(db)
    /\ driver = "typedb2" => BalancesArePaid

\* D_NEXT_O_ID and the numbers of the orders (verify.js, consistency check 2).
\* Where the increment and the order are one query, or one transaction that is
\* refused as a whole, it has been increased once for every order.  Without Neo4j,
\* where numbers may repeat, none is left out and no two orders have one: the
\* primary key sees to it with SQLite, the snapshot with TypeDB.  With SQLite an
\* order that is refused has set D_NEXT_O_ID, and the next call stores that: it
\* may fall behind, never get ahead.
NumbersFollowOrders ==
    \A d \in DIds :
        LET orders == Numbered(db, "orders", d)
            next   == db[DistrictRow(d)].next
        IN  /\ driver # "sqlite" => next = Cardinality(OrdersOf(db, d)) + 1
            /\ driver # "neo4j" => /\ Cardinality(OrdersOf(db, d)) = Cardinality(orders)
                                   /\ orders = 1 .. Max(orders)
                                   /\ next <= Max(orders) + 1

Numbers == INSTANCE OrderNumbering WITH
    Districts   <- DIds,
    next        <- [d \in DIds |-> db[DistrictRow(d)].next],
    orders      <- [d \in DIds |-> Numbered(db, "orders", d)],
    undelivered <- [d \in DIds |-> {row[3] : row \in Flagged(db, d)}]

\* With TypeDB every commit is a step of the abstract numbering: it places one
\* order under the next number, or takes at most one new order of each district.
Typedb2NumbersOrders ==
    [][driver = "typedb2" => (Numbers!Next \/ UNCHANGED Numbers!vars)]_<<driver, vars>>

\* The lines for item n of the orders that have been placed.
LinesOf(n) ==
    {row \in DOMAIN db : /\ row[1] = "orders"
                         /\ "items" \in DOMAIN db[row]
                         /\ n \in ToSet(db[row].items)}

\* S_ORDER_CNT is set from what was read, and still counts the lines of the item
\* where the read is part of the transaction.
StockCountsLines ==
    driver # "neo4j" => \A n \in Items : db[StockRow(n)].count = Cardinality(LinesOf(n))
============================================================================
