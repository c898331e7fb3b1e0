---------------------- MODULE TpccVerification_proofs ----------------------
(***************************************************************************)
(* Where no customer's number reaches CPD, the row counts agree whenever   *)
(* verifyTableCounts compares them, and doDelivery reports what it does.   *)
(*                                                                         *)
(* The keys of typedb3driver.py are one-to-one, and the remainder undoes   *)
(* them; so doDelivery changes the orders it picked and no others.  The    *)
(* two databases do not hold the same new orders, since each picks its own *)
(* to deliver; but district by district they hold as many.                 *)
(*                                                                         *)
(* Where there is one warehouse, every payment is local; then in each      *)
(* database a customer's balance and payments make up the amount of the    *)
(* customer's delivered orders, which is a sum over a set of orders.       *)
(***************************************************************************)
EXTENDS TpccVerification, SumFacts

Scaled == CustomersPerDistrict < CPD

TNewIn(w, d) == {x \in tNew : x.d = DKey(w, d)}
PNewIn(w, d) == {x \in pNew : x.w = w /\ x.d = d}

\* An ORDER relation has the keys of a customer and of that customer's district.
Placed(y) ==
    \E w \in WIds, d \in DIds, c \in CIds : y.d = DKey(w, d) /\ y.c = CKey(w, d, c)

TypedbInv ==
    /\ tNext \in [DKeys -> Nat]
    /\ IsFiniteSet(tOrders)
    /\ tOrders \subseteq TOrders
    /\ \A y \in tOrders : Placed(y) /\ y.o < tNext[y.d]
    /\ \A x, y \in tOrders : x.d = y.d /\ x.o = y.o => x = y
    /\ tNew \subseteq tOrders
    /\ tReported \subseteq tOrders
    /\ ReportedIffDelivered

PostgresInv ==
    /\ pNext \in [Districts -> Nat]
    /\ IsFiniteSet(pOrders)
    /\ pOrders \subseteq Orders
    /\ \A x \in pOrders : x.o < pNext[<<x.w, x.d>>]
    /\ pNew \subseteq pOrders

NewOrdersAgree ==
    /\ Cardinality(tNew) = Cardinality(pNew)
    /\ \A w \in WIds, d \in DIds : Cardinality(TNewIn(w, d)) = Cardinality(PNewIn(w, d))

Agreement ==
    Usable => /\ Cardinality(tOrders) = Cardinality(pOrders)
              /\ NewOrdersAgree
              /\ tLines = pLines
              /\ tHistory = pHistory

VInv ==
    /\ TypedbInv
    /\ PostgresInv
    /\ Agreement
    /\ VerificationPasses

----------------------------------------------------------------------------
(***************************************************************************)
(* The keys.                                                               *)
(***************************************************************************)

\* A quotient and a remainder between 1 and n make a number in one way.
LEMMA QuotientUnique ==
    ASSUME NEW a \in Nat, NEW b \in Nat, NEW n \in Nat \ {0},
           NEW c \in 1 .. n, NEW e \in 1 .. n, a * n + c = b * n + e
    PROVE  a = b /\ c = e
<1>1. (a - b) * n = e - c
    OBVIOUS
<1>2. CASE a > b
    <2>1. (a - b) * n >= n
        BY <1>2
    <2>. QED BY <2>1, <1>1
<1>3. CASE a < b
    <2>1. (a - b) * n <= -n
        BY <1>3
    <2>. QED BY <2>1, <1>1
<1>. QED BY <1>1, <1>2, <1>3

\* The remainder recovers what is less than n.
LEMMA RemainderRecovers ==
    ASSUME NEW a \in Nat, NEW n \in Nat \ {0}, NEW c \in 0 .. n - 1
    PROVE  (a * n + c) % n = c
<1>. DEFINE q == (a * n + c) \div n
            r == (a * n + c) % n
<1>1. /\ q \in Int
      /\ r \in 0 .. n - 1
      /\ a * n + c = n * q + r
    OBVIOUS
<1>. HIDE DEF q, r
<1>2. (a - q) * n = r - c
    BY <1>1
<1>3. CASE a - q >= 1
    <2>1. (a - q) * n >= n
        BY <1>1, <1>3
    <2>. QED BY <2>1, <1>1, <1>2
<1>4. CASE a - q <= -1
    <2>1. (a - q) * n <= -n
        BY <1>1, <1>4
    <2>. QED BY <2>1, <1>1, <1>2
<1>. QED BY <1>1, <1>2, <1>3, <1>4 DEF r

\* DKey of typedb3driver.py names a district.
LEMMA DKeyInjective ==
    ASSUME NEW w1 \in WIds, NEW d1 \in DIds, NEW w2 \in WIds, NEW d2 \in DIds,
           DKey(w1, d1) = DKey(w2, d2)
    PROVE  w1 = w2 /\ d1 = d2
BY QuotientUnique, WarehousesAssumption, DistrictsAssumption DEF DKey, WIds, DIds

\* CKey of typedb3driver.py names a customer.
LEMMA CKeyInjective ==
    ASSUME NEW w1 \in WIds, NEW d1 \in DIds, NEW c1 \in CIds,
           NEW w2 \in WIds, NEW d2 \in DIds, NEW c2 \in CIds,
           CKey(w1, d1, c1) = CKey(w2, d2, c2)
    PROVE  w1 = w2 /\ d1 = d2 /\ c1 = c2
<1>1. /\ CPD \in Nat \ {0}
      /\ c1 \in 1 .. CPD
      /\ c2 \in 1 .. CPD
    BY CpdAssumption, CustomersAssumption DEF CIds
<1>2. DKey(w1, d1) \in Nat /\ DKey(w2, d2) \in Nat
    BY DistrictsAssumption DEF DKey, WIds, DIds
<1>3. DKey(w1, d1) * CPD + c1 = DKey(w2, d2) * CPD + c2
    BY DEF CKey, DKey
<1>4. DKey(w1, d1) = DKey(w2, d2) /\ c1 = c2
    BY <1>1, <1>2, <1>3, QuotientUnique
<1>. QED BY <1>4, DKeyInjective

\* doDelivery and doPayment recover the customer's number from the key.
LEMMA CIdRecovered ==
    ASSUME Scaled, NEW w \in WIds, NEW d \in DIds, NEW c \in CIds
    PROVE  CIdOf(CKey(w, d, c)) = c
<1>1. CPD \in Nat \ {0} /\ c \in 0 .. CPD - 1
    BY CpdAssumption, CustomersAssumption DEF CIds, Scaled
<1>2. w * DPW + d \in Nat
    BY DistrictsAssumption DEF WIds, DIds
<1>. QED BY <1>1, <1>2, RemainderRecovers DEF CIdOf, CKey

\* So doDelivery changes exactly the order it picked.
LEMMA DeliveredIsPicked ==
    ASSUME Scaled, TypedbInv, NEW x \in tOrders
    PROVE  Delivered(x) = {x}
<1>1. PICK w \in WIds, d \in DIds, c \in CIds : x.d = DKey(w, d) /\ x.c = CKey(w, d, c)
    BY DEF TypedbInv, Placed
<1>2. DeliveryKey(x) = x.c
    BY <1>1, CIdRecovered DEF DeliveryKey, DKey, CKey
<1>3. ASSUME NEW y \in tOrders, y.o = x.o, y.c = x.c
      PROVE  y = x
    <2>1. PICK w2 \in WIds, d2 \in DIds, c2 \in CIds :
              y.d = DKey(w2, d2) /\ y.c = CKey(w2, d2, c2)
        BY DEF TypedbInv, Placed
    <2>2. CKey(w2, d2, c2) = CKey(w, d, c)
        BY <1>1, <1>3, <2>1
    <2>3. w2 = w /\ d2 = d
        BY <2>2, CKeyInjective
    <2>. QED BY <1>1, <1>3, <2>1, <2>3 DEF TypedbInv
<1>. QED BY <1>2, <1>3 DEF Delivered

----------------------------------------------------------------------------
(***************************************************************************)
(* Counting.                                                               *)
(***************************************************************************)

\* TypeDB holds as many of a set of orders as Postgres.
LEMMA TOrderCardinality ==
    ASSUME NEW S \in SUBSET Orders, IsFiniteSet(S)
    PROVE  /\ IsFiniteSet({TOrder(x) : x \in S})
           /\ Cardinality({TOrder(x) : x \in S}) = Cardinality(S)
<1>. DEFINE T == {TOrder(x) : x \in S}
            f == [x \in S |-> TOrder(x)]
<1>1. f \in [S -> T] /\ \A t \in T : \E x \in S : f[x] = t
    OBVIOUS
<1>2. ASSUME NEW x \in S, NEW y \in S, f[x] = f[y]
      PROVE  x = y
    <2>1. /\ x.w \in WIds /\ x.d \in DIds /\ x.c \in CIds
          /\ y.w \in WIds /\ y.d \in DIds /\ y.c \in CIds
          /\ CKey(x.w, x.d, x.c) = CKey(y.w, y.d, y.c)
          /\ x.o = y.o /\ x.amount = y.amount
        BY <1>2 DEF TOrder, Orders
    <2>2. x.w = y.w /\ x.d = y.d /\ x.c = y.c
        BY <2>1, CKeyInjective
    <2>. QED BY <2>1, <2>2 DEF Orders
<1>3. f \in Bijection(S, T)
    BY <1>1, <1>2 DEF Bijection, Injection, Surjection, IsInjective
<1>4. ExistsBijection(S, T)
    BY <1>3 DEF ExistsBijection
<1>. QED BY <1>4, FS_Bijection

\* What one delivery picks in the two databases is as many orders, if the two
\* have new orders in the same districts.
LEMMA PicksAgree ==
    ASSUME TypedbInv, PostgresInv, NEW w \in WIds,
           NEW tpick \in Typedb3Picks(w), NEW ppick \in PostgresPicks(w),
           \A d \in DIds : TNewIn(w, d) = {} <=> PNewIn(w, d) = {}
    PROVE  Cardinality(tpick) = Cardinality(ppick)
<1>1. /\ tpick \subseteq tNew
      /\ \A x \in tpick : \E d \in DIds : x.d = DKey(w, d)
      /\ \A d \in DIds :
            (\E x \in tNew : x.d = DKey(w, d)) => \E x \in tpick : x.d = DKey(w, d)
      /\ \A x, y \in tpick : x.d = y.d => x = y
    BY DEF Typedb3Picks
<1>2. /\ ppick \subseteq pNew
      /\ \A x \in ppick : x.w = w /\ x.d \in DIds
      /\ \A d \in DIds :
            (\E x \in pNew : x.w = w /\ x.d = d) => \E x \in ppick : x.d = d
      /\ \A x, y \in ppick : x.d = y.d => x = y
    BY DEF PostgresPicks, PostgresInv, Orders
<1>. DEFINE f == [x \in ppick |-> CHOOSE y \in tpick : y.d = DKey(w, x.d)]
<1>3. ASSUME NEW x \in ppick
      PROVE  f[x] \in tpick /\ f[x].d = DKey(w, x.d)
    <2>1. x \in PNewIn(w, x.d)
        BY <1>2 DEF PNewIn
    <2>2. \E y \in tNew : y.d = DKey(w, x.d)
        BY <2>1, <1>2 DEF TNewIn
    <2>3. \E y \in tpick : y.d = DKey(w, x.d)
        BY <2>2, <1>1, <1>2
    <2>. QED BY <2>3
<1>4. f \in [ppick -> tpick]
    BY <1>3
<1>5. ASSUME NEW x \in ppick, NEW y \in ppick, f[x] = f[y]
      PROVE  x = y
    <2>1. DKey(w, x.d) = DKey(w, y.d)
        BY <1>3, <1>5
    <2>2. x.d = y.d
        BY <2>1, <1>2, DKeyInjective
    <2>. QED BY <2>2, <1>2
<1>6. ASSUME NEW y \in tpick
      PROVE  \E x \in ppick : f[x] = y
    <2>1. PICK d \in DIds : y.d = DKey(w, d)
        BY <1>1
    <2>2. y \in TNewIn(w, d)
        BY <1>1, <2>1 DEF TNewIn
    <2>3. \E x \in pNew : x.w = w /\ x.d = d
        BY <2>2 DEF PNewIn
    <2>4. PICK x \in ppick : x.d = d
        BY <2>3, <1>2
    <2>5. f[x] \in tpick /\ f[x].d = y.d
        BY <1>3, <2>1, <2>4
    <2>. QED BY <2>4, <2>5, <1>1
<1>7. f \in Bijection(ppick, tpick)
    BY <1>4, <1>5, <1>6 DEF Bijection, Injection, Surjection, IsInjective
<1>8. ExistsBijection(ppick, tpick)
    BY <1>7 DEF ExistsBijection
<1>9. IsFiniteSet(ppick)
    BY <1>2, FS_Subset DEF PostgresInv
<1>. QED BY <1>8, <1>9, FS_Bijection

\* A delivery takes one new order from a district that has any, in TypeDB ...
LEMMA TypedbDistrictCount ==
    ASSUME TypedbInv, NEW w \in WIds, NEW d \in DIds, NEW v \in WIds,
           NEW pick \in Typedb3Picks(w)
    PROVE  Cardinality(TNewIn(v, d) \ pick) =
               IF v = w /\ TNewIn(v, d) # {} THEN Cardinality(TNewIn(v, d)) - 1
                                             ELSE Cardinality(TNewIn(v, d))
<1>1. /\ \A x \in pick : \E e \in DIds : x.d = DKey(w, e)
      /\ (\E x \in tNew : x.d = DKey(w, d)) => \E x \in pick : x.d = DKey(w, d)
      /\ \A x, y \in pick : x.d = y.d => x = y
      /\ pick \subseteq tNew
    BY DEF Typedb3Picks
<1>2. IsFiniteSet(TNewIn(v, d))
    BY FS_Subset DEF TypedbInv, TNewIn
<1>3. CASE v = w /\ TNewIn(v, d) # {}
    <2>1. PICK x \in pick : x.d = DKey(w, d)
        BY <1>1, <1>3 DEF TNewIn
    <2>2. TNewIn(v, d) \ pick = TNewIn(v, d) \ {x} /\ x \in TNewIn(v, d)
        BY <1>1, <1>3, <2>1 DEF TNewIn
    <2>. QED BY <1>2, <1>3, <2>2, FS_RemoveElement
<1>4. CASE v # w
    <2>1. ASSUME NEW x \in pick, x \in TNewIn(v, d) PROVE FALSE
        <3>1. PICK e \in DIds : x.d = DKey(w, e)
            BY <1>1
        <3>2. DKey(w, e) = DKey(v, d)
            BY <2>1, <3>1 DEF TNewIn
        <3>. QED BY <3>2, <1>4, DKeyInjective
    <2>2. TNewIn(v, d) \ pick = TNewIn(v, d)
        BY <2>1
    <2>. QED BY <2>2, <1>4
<1>5. CASE TNewIn(v, d) = {}
    <2>1. TNewIn(v, d) \ pick = TNewIn(v, d)
        BY <1>5
    <2>. QED BY <2>1, <1>5
<1>. QED BY <1>3, <1>4, <1>5

\* ... and in Postgres.
LEMMA PostgresDistrictCount ==
    ASSUME PostgresInv, NEW w \in WIds, NEW d \in DIds, NEW v \in WIds,
           NEW pick \in PostgresPicks(w)
    PROVE  Cardinality(PNewIn(v, d) \ pick) =
               IF v = w /\ PNewIn(v, d) # {} THEN Cardinality(PNewIn(v, d)) - 1
                                             ELSE Cardinality(PNewIn(v, d))
<1>1. /\ \A x \in pick : x.w = w
      /\ (\E x \in pNew : x.w = w /\ x.d = d) => \E x \in pick : x.d = d
      /\ \A x, y \in pick : x.d = y.d => x = y
      /\ pick \subseteq pNew
    BY DEF PostgresPicks
<1>2. IsFiniteSet(PNewIn(v, d))
    BY FS_Subset DEF PostgresInv, PNewIn
<1>3. CASE v = w /\ PNewIn(v, d) # {}
    <2>1. PICK x \in pick : x.d = d
        BY <1>1, <1>3 DEF PNewIn
    <2>2. PNewIn(v, d) \ pick = PNewIn(v, d) \ {x} /\ x \in PNewIn(v, d)
        BY <1>1, <1>3, <2>1 DEF PNewIn
    <2>. QED BY <1>2, <1>3, <2>2, FS_RemoveElement
<1>4. CASE v # w \/ PNewIn(v, d) = {}
    <2>1. PNewIn(v, d) \ pick = PNewIn(v, d)
        BY <1>1, <1>4 DEF PNewIn
    <2>. QED BY <2>1, <1>4
<1>. QED BY <1>3, <1>4

----------------------------------------------------------------------------
(***************************************************************************)
(* The initial states.                                                     *)
(***************************************************************************)

\* There are finitely many customers.
LEMMA CustomersFinite ==
    IsFiniteSet(Customers)
<1>1. IsFiniteSet(WIds) /\ IsFiniteSet(DIds) /\ IsFiniteSet(CIds)
    BY FS_Interval, WarehousesAssumption, DistrictsAssumption, CustomersAssumption
    DEF WIds, DIds, CIds
<1>. DEFINE T == (WIds \X DIds) \X CIds
            g == [k \in T |-> <<k[1][1], k[1][2], k[2]>>]
<1>2. IsFiniteSet(T)
    BY <1>1, FS_Product
<1>3. g \in [T -> Customers]
    BY DEF Customers
<1>4. \A k \in Customers : \E t \in T : g[t] = k
    <2>1. TAKE k \in Customers
    <2>2. k = <<k[1], k[2], k[3]>> /\ k[1] \in WIds /\ k[2] \in DIds /\ k[3] \in CIds
        BY DEF Customers
    <2>. DEFINE t == <<<<k[1], k[2]>>, k[3]>>
    <2>3. t \in T
        BY <2>2
    <2>4. g[t] = k
        BY <2>2, <2>3
    <2>. QED BY <2>3, <2>4
<1>5. g \in Surjection(T, Customers)
    BY <1>3, <1>4 DEF Surjection
<1>. QED BY <1>2, <1>5, FS_Surjection

\* The load generates finitely many orders, numbered up to the customers.
LEMMA LoadedOrdersFacts ==
    ASSUME NEW perm \in [Districts -> Permutations]
    PROVE  /\ LoadedOrders(perm) \subseteq Orders
           /\ IsFiniteSet(LoadedOrders(perm))
           /\ \A x \in LoadedOrders(perm) : /\ x.o \in CIds
                                            /\ x.amount > 0 => LoadedNew(x.o)
           /\ \A x, y \in LoadedOrders(perm) :
                 x.w = y.w /\ x.d = y.d /\ x.o = y.o => x = y
<1>. DEFINE L == LoadedOrders(perm)
            load(w, d, o) ==
                Order(w, d, o, perm[<<w, d>>][o], IF LoadedNew(o) THEN 1 ELSE 0)
            f == [k \in Customers |-> load(k[1], k[2], k[3])]
<1>1. \A w \in WIds, d \in DIds, o \in CIds : perm[<<w, d>>][o] \in CIds
    BY DEF Districts, Permutations
<1>2. ASSUME NEW w \in WIds, NEW d \in DIds, NEW o \in CIds
      PROVE  /\ load(w, d, o) \in Orders
             /\ load(w, d, o).w = w /\ load(w, d, o).d = d /\ load(w, d, o).o = o
             /\ load(w, d, o).amount > 0 => LoadedNew(o)
    <2>. DEFINE c == perm[<<w, d>>][o]
                amount == IF LoadedNew(o) THEN 1 ELSE 0
    <2>1. c \in CIds
        BY <1>1
    <2>2. amount \in Nat /\ (amount > 0 => LoadedNew(o))
        BY DEF LoadedNew
    <2>3. o \in Nat
        BY DEF CIds
    <2>4. load(w, d, o) = [w |-> w, d |-> d, o |-> o, c |-> c, amount |-> amount]
        BY DEF Order
    <2>. HIDE DEF load, c, amount
    <2>. QED BY <2>1, <2>2, <2>3, <2>4 DEF Orders
<1>3. L = {load(w, d, o) : w \in WIds, d \in DIds, o \in CIds}
    BY DEF LoadedOrders
<1>. HIDE DEF load
<1>4. f \in Surjection(Customers, L)
    <2>1. f \in [Customers -> L]
        BY <1>3 DEF Customers
    <2>2. \A x \in L : \E k \in Customers : f[k] = x
        <3>1. TAKE x \in L
        <3>2. PICK w \in WIds, d \in DIds, o \in CIds : x = load(w, d, o)
            BY <1>3
        <3>3. <<w, d, o>> \in Customers /\ f[<<w, d, o>>] = load(w, d, o)
            BY DEF Customers
        <3>. QED BY <3>2, <3>3
    <2>. QED BY <2>1, <2>2 DEF Surjection
<1>5. IsFiniteSet(Customers)
    BY CustomersFinite
<1>6. IsFiniteSet(L)
    BY <1>4, <1>5, FS_Surjection
<1>. QED BY <1>2, <1>3, <1>6

\* There is one TypeDB key for every customer.
LEMMA CKeysCardinality ==
    Cardinality(CKeys) = Cardinality(Customers)
<1>. DEFINE f == [k \in Customers |-> CKey(k[1], k[2], k[3])]
<1>1. f \in [Customers -> CKeys]
    BY DEF Customers, CKeys
<1>2. ASSUME NEW k \in Customers, NEW l \in Customers, f[k] = f[l]
      PROVE  k = l
    <2>1. /\ k[1] \in WIds /\ k[2] \in DIds /\ k[3] \in CIds /\ k = <<k[1], k[2], k[3]>>
          /\ l[1] \in WIds /\ l[2] \in DIds /\ l[3] \in CIds /\ l = <<l[1], l[2], l[3]>>
          /\ CKey(k[1], k[2], k[3]) = CKey(l[1], l[2], l[3])
        BY <1>2 DEF Customers
    <2>2. k[1] = l[1] /\ k[2] = l[2] /\ k[3] = l[3]
        BY <2>1, CKeyInjective
    <2>. QED BY <2>1, <2>2
<1>3. \A key \in CKeys : \E k \in Customers : f[k] = key
    <2>1. TAKE key \in CKeys
    <2>2. PICK w \in WIds, d \in DIds, c \in CIds : key = CKey(w, d, c)
        BY DEF CKeys
    <2>3. <<w, d, c>> \in Customers /\ f[<<w, d, c>>] = CKey(w, d, c)
        BY DEF Customers
    <2>. QED BY <2>2, <2>3
<1>4. f \in Bijection(Customers, CKeys)
    BY <1>1, <1>2, <1>3 DEF Bijection, Injection, Surjection, IsInjective
<1>5. ExistsBijection(Customers, CKeys)
    BY <1>4 DEF ExistsBijection
<1>6. IsFiniteSet(Customers)
    BY CustomersFinite
<1>. QED BY <1>5, <1>6, FS_Bijection

\* Of the orders Postgres has in a district, TypeDB has the images under TOrder.
LEMMA DistrictImage ==
    ASSUME NEW N \in SUBSET Orders, NEW w \in WIds, NEW d \in DIds
    PROVE  {y \in {TOrder(x) : x \in N} : y.d = DKey(w, d)} =
               {TOrder(x) : x \in {z \in N : z.w = w /\ z.d = d}}
<1>1. ASSUME NEW x \in N
      PROVE  TOrder(x).d = DKey(w, d) <=> x.w = w /\ x.d = d
    <2>1. x.w \in WIds /\ x.d \in DIds /\ TOrder(x).d = DKey(x.w, x.d)
        BY DEF Orders, TOrder
    <2>. QED BY <2>1, DKeyInjective
<1>. QED BY <1>1

\* Both databases start with the rows of the load.
LEMMA InitVInv ==
    ASSUME Init
    PROVE  VInv
<1>1. PICK perm \in [Districts -> Permutations] :
          /\ Typedb3Init(LoadedOrders(perm), Cardinality(LoadedOrders(perm)))
          /\ PostgresInit(LoadedOrders(perm), Cardinality(LoadedOrders(perm)))
    BY DEF Init
<1>. DEFINE L == LoadedOrders(perm)
            N == {y \in L : LoadedNew(y.o)}
<1>2. /\ L \subseteq Orders
      /\ IsFiniteSet(L)
      /\ \A x \in L : x.o \in CIds /\ (x.amount > 0 => LoadedNew(x.o))
      /\ \A x, y \in L : x.w = y.w /\ x.d = y.d /\ x.o = y.o => x = y
    BY LoadedOrdersFacts
<1>3. /\ tNext = [k \in DKeys |-> CustomersPerDistrict + 1]
      /\ tOrders = {TOrder(x) : x \in L}
      /\ tNew = {TOrder(x) : x \in N}
      /\ tReported = {}
      /\ tHistory = Cardinality(CKeys)
      /\ pNext = [k \in Districts |-> CustomersPerDistrict + 1]
      /\ pOrders = L
      /\ pNew = N
      /\ pHistory = Cardinality(Customers)
      /\ tLines = pLines
    BY <1>1 DEF Typedb3Init, PostgresInit
<1>. HIDE DEF L
<1>4. CustomersPerDistrict + 1 \in Nat /\ \A o \in CIds : o < CustomersPerDistrict + 1
    BY CustomersAssumption DEF CIds
<1>5. ASSUME NEW x \in L
      PROVE  /\ x.w \in WIds /\ x.d \in DIds /\ x.c \in CIds
             /\ <<x.w, x.d>> \in Districts
             /\ TOrder(x).d = DKey(x.w, x.d) /\ TOrder(x).c = CKey(x.w, x.d, x.c)
             /\ TOrder(x).o = x.o /\ TOrder(x).amount = x.amount
             /\ TOrder(x) \in TOrders
             /\ Placed(TOrder(x))
             /\ DKey(x.w, x.d) \in DKeys
             /\ x.o < CustomersPerDistrict + 1
    <2>1. /\ x.w \in WIds /\ x.d \in DIds /\ x.c \in CIds /\ x.o \in Nat /\ x.amount \in Nat
        BY <1>2 DEF Orders
    <2>2. /\ DKey(x.w, x.d) \in DKeys /\ CKey(x.w, x.d, x.c) \in CKeys
        BY <2>1 DEF DKeys, CKeys
    <2>3. /\ TOrder(x).d = DKey(x.w, x.d) /\ TOrder(x).c = CKey(x.w, x.d, x.c)
          /\ TOrder(x).o = x.o /\ TOrder(x).amount = x.amount
        BY DEF TOrder
    <2>4. TOrder(x) \in TOrders
        BY <2>1, <2>2 DEF TOrder, TOrders
    <2>5. Placed(TOrder(x))
        BY <2>1, <2>3 DEF Placed
    <2>. QED BY <1>2, <1>4, <2>1, <2>2, <2>3, <2>4, <2>5 DEF Districts
<1>6. TypedbInv
    <2>1. tNext \in [DKeys -> Nat]
        BY <1>3, <1>4
    <2>2. IsFiniteSet(tOrders)
        BY <1>2, <1>3, TOrderCardinality
    <2>3. tOrders \subseteq TOrders
        BY <1>3, <1>5
    <2>4. \A y \in tOrders : Placed(y) /\ y.o < tNext[y.d]
        BY <1>3, <1>5
    <2>5. \A x, y \in tOrders : x.d = y.d /\ x.o = y.o => x = y
        <3>1. SUFFICES ASSUME NEW x \in L, NEW y \in L,
                              TOrder(x).d = TOrder(y).d, TOrder(x).o = TOrder(y).o
                       PROVE  x = y
            BY <1>3
        <3>2. DKey(x.w, x.d) = DKey(y.w, y.d) /\ x.o = y.o
            BY <3>1, <1>5
        <3>3. /\ x.w \in WIds /\ x.d \in DIds
              /\ y.w \in WIds /\ y.d \in DIds
            BY <1>5
        <3>4. x.w = y.w /\ x.d = y.d
            BY <3>2, <3>3, DKeyInjective
        <3>. QED BY <3>2, <3>4, <1>2
    <2>6. tNew \subseteq tOrders /\ tReported \subseteq tOrders
        BY <1>3
    <2>7. ReportedIffDelivered
        <3>1. SUFFICES ASSUME NEW x \in L, TOrder(x).amount > 0
                       PROVE  TOrder(x) \in tNew
            BY <1>3 DEF ReportedIffDelivered
        <3>2. x \in N
            BY <3>1, <1>2, <1>5
        <3>. QED BY <3>2, <1>3
    <2>. QED BY <2>1, <2>2, <2>3, <2>4, <2>5, <2>6, <2>7 DEF TypedbInv
<1>7. PostgresInv
    BY <1>2, <1>3, <1>4, <1>5 DEF PostgresInv
<1>8. Agreement
    <2>1. N \subseteq Orders /\ IsFiniteSet(N)
        BY <1>2, FS_Subset
    <2>2. Cardinality(tOrders) = Cardinality(pOrders)
        BY <1>2, <1>3, TOrderCardinality
    <2>3. Cardinality(tNew) = Cardinality(pNew)
        BY <2>1, <1>3, TOrderCardinality
    <2>4. ASSUME NEW w \in WIds, NEW d \in DIds
          PROVE  Cardinality(TNewIn(w, d)) = Cardinality(PNewIn(w, d))
        <3>1. PNewIn(w, d) \subseteq Orders /\ IsFiniteSet(PNewIn(w, d))
            BY <1>3, <2>1, FS_Subset DEF PNewIn
        <3>2. TNewIn(w, d) = {TOrder(x) : x \in PNewIn(w, d)}
            BY <1>3, <2>1, DistrictImage DEF TNewIn, PNewIn
        <3>. QED BY <3>1, <3>2, TOrderCardinality
    <2>. QED BY <2>2, <2>3, <2>4, <1>3, CKeysCardinality DEF Agreement, NewOrdersAgree
<1>. QED BY <1>6, <1>7, <1>8 DEF VInv, VerificationPasses, Init

----------------------------------------------------------------------------
(***************************************************************************)
(* The transactions, in each database.                                     *)
(***************************************************************************)

\* doNewOrder in TypeDB adds one order, new, to one district.
LEMMA TypedbNewOrderStep ==
    ASSUME TypedbInv, NEW p \in NewOrderParams, ~ p.rollback, Typedb3NewOrder(p)
    PROVE  /\ TypedbInv'
           /\ Cardinality(tOrders') = Cardinality(tOrders) + 1
           /\ Cardinality(tNew') = Cardinality(tNew) + 1
           /\ \A w \in WIds, d \in DIds :
                 Cardinality(TNewIn(w, d)') = IF w = p.w /\ d = p.d
                                                THEN Cardinality(TNewIn(w, d)) + 1
                                                ELSE Cardinality(TNewIn(w, d))
           /\ tLines' = tLines + p.lines /\ tHistory' = tHistory
<1>. DEFINE dkey  == DKey(p.w, p.d)
            order == [d |-> dkey, o |-> tNext[dkey], c |-> CKey(p.w, p.d, p.c),
                      amount |-> p.lines]
<1>1. /\ p.w \in WIds /\ p.d \in DIds /\ p.c \in CIds /\ p.lines \in Nat
      /\ dkey \in DKeys /\ CKey(p.w, p.d, p.c) \in CKeys
    BY LinesAssumption DEF NewOrderParams, DKeys, CKeys
<1>2. /\ tNext' = [tNext EXCEPT ![dkey] = @ + 1]
      /\ tOrders' = tOrders \cup {order}
      /\ tNew' = tNew \cup {order}
      /\ tReported' = tReported
      /\ tLines' = tLines + p.lines /\ tHistory' = tHistory
    BY DEF Typedb3NewOrder
<1>3. /\ order \in TOrders /\ Placed(order)
      /\ order.d = dkey /\ order.o = tNext[dkey] /\ tNext[dkey] \in Nat
    BY <1>1 DEF TypedbInv, TOrders, Placed
<1>. HIDE DEF order
<1>4. \A y \in tOrders : y.d \in DKeys /\ y.o \in Nat /\ tNext[y.d] \in Nat
    BY DEF TypedbInv, TOrders
<1>5. \A y \in tOrders : ~ (y.d = order.d /\ y.o = order.o)
    BY <1>3, <1>4 DEF TypedbInv
<1>6. order \notin tOrders /\ order \notin tNew /\ order \notin tReported
    BY <1>5 DEF TypedbInv
<1>7. IsFiniteSet(tNew)
    BY FS_Subset DEF TypedbInv
<1>8. TypedbInv'
    <2>1. tNext' \in [DKeys -> Nat]
        BY <1>1, <1>2, <1>3 DEF TypedbInv
    <2>2. IsFiniteSet(tOrders')
        BY <1>2, FS_AddElement DEF TypedbInv
    <2>3. (tOrders \subseteq TOrders)'
        BY <1>2, <1>3 DEF TypedbInv, TOrders, DKeys, CKeys
    <2>4. \A y \in tOrders' : Placed(y) /\ y.o < tNext'[y.d]
        <3>1. TAKE y \in tOrders'
        <3>2. CASE y = order
            BY <3>2, <1>1, <1>2, <1>3 DEF TypedbInv
        <3>3. CASE y \in tOrders
            <4>1. Placed(y) /\ y.o < tNext[y.d]
                BY <3>3 DEF TypedbInv
            <4>2. tNext'[y.d] >= tNext[y.d] /\ tNext'[y.d] \in Nat
                BY <3>3, <1>2, <1>4 DEF TypedbInv
            <4>. QED BY <4>1, <4>2, <3>3, <1>4
        <3>. QED BY <3>2, <3>3, <1>2
    <2>5. \A x, y \in tOrders' : x.d = y.d /\ x.o = y.o => x = y
        BY <1>2, <1>5 DEF TypedbInv
    <2>6. tNew' \subseteq tOrders' /\ tReported' \subseteq tOrders'
        BY <1>2 DEF TypedbInv
    <2>7. ReportedIffDelivered'
        BY <1>2, <1>6 DEF TypedbInv, ReportedIffDelivered
    <2>. QED BY <2>1, <2>2, <2>3, <2>4, <2>5, <2>6, <2>7 DEF TypedbInv, Placed
<1>9. /\ Cardinality(tOrders') = Cardinality(tOrders) + 1
      /\ Cardinality(tNew') = Cardinality(tNew) + 1
    BY <1>2, <1>6, <1>7, FS_AddElement DEF TypedbInv
<1>10. ASSUME NEW w \in WIds, NEW d \in DIds
       PROVE  Cardinality(TNewIn(w, d)') = IF w = p.w /\ d = p.d
                                             THEN Cardinality(TNewIn(w, d)) + 1
                                             ELSE Cardinality(TNewIn(w, d))
    <2>1. CASE w = p.w /\ d = p.d
        <3>1. TNewIn(w, d)' = TNewIn(w, d) \cup {order}
            BY <2>1, <1>2, <1>3 DEF TNewIn
        <3>2. order \notin TNewIn(w, d) /\ IsFiniteSet(TNewIn(w, d))
            BY <1>6, <1>7, FS_Subset DEF TNewIn
        <3>. QED BY <2>1, <3>1, <3>2, FS_AddElement
    <2>2. CASE ~ (w = p.w /\ d = p.d)
        <3>1. order.d # DKey(w, d)
            BY <2>2, <1>1, <1>3, DKeyInjective
        <3>2. TNewIn(w, d)' = TNewIn(w, d)
            BY <3>1, <1>2 DEF TNewIn
        <3>. QED BY <2>2, <3>2
    <2>. QED BY <2>1, <2>2
<1>. QED BY <1>2, <1>8, <1>9, <1>10

\* doNewOrder in Postgres does, too.
LEMMA PostgresNewOrderStep ==
    ASSUME PostgresInv, NEW p \in NewOrderParams, ~ p.rollback, PostgresNewOrder(p)
    PROVE  /\ PostgresInv'
           /\ Cardinality(pOrders') = Cardinality(pOrders) + 1
           /\ Cardinality(pNew') = Cardinality(pNew) + 1
           /\ \A w \in WIds, d \in DIds :
                 Cardinality(PNewIn(w, d)') = IF w = p.w /\ d = p.d
                                                THEN Cardinality(PNewIn(w, d)) + 1
                                                ELSE Cardinality(PNewIn(w, d))
           /\ pLines' = pLines + p.lines /\ pHistory' = pHistory
<1>. DEFINE district == <<p.w, p.d>>
            order    == Order(p.w, p.d, pNext[district], p.c, p.lines)
<1>1. /\ p.w \in WIds /\ p.d \in DIds /\ p.c \in CIds /\ p.lines \in Nat
      /\ district \in Districts
    BY LinesAssumption DEF NewOrderParams, Districts
<1>2. /\ pNext' = [pNext EXCEPT ![district] = @ + 1]
      /\ pOrders' = pOrders \cup {order}
      /\ pNew' = pNew \cup {order}
      /\ pLines' = pLines + p.lines /\ pHistory' = pHistory
    BY DEF PostgresNewOrder
<1>3. /\ order \in Orders
      /\ order.w = p.w /\ order.d = p.d /\ order.o = pNext[district]
      /\ pNext[district] \in Nat
    BY <1>1 DEF PostgresInv, Order, Orders
<1>. HIDE DEF order
<1>4. \A x \in pOrders : /\ x.w \in WIds /\ x.d \in DIds /\ x.o \in Nat
                          /\ <<x.w, x.d>> \in Districts /\ pNext[<<x.w, x.d>>] \in Nat
    BY DEF PostgresInv, Orders, Districts
<1>5. order \notin pOrders /\ order \notin pNew
    BY <1>3, <1>4 DEF PostgresInv
<1>6. IsFiniteSet(pNew)
    BY FS_Subset DEF PostgresInv
<1>7. PostgresInv'
    <2>1. pNext' \in [Districts -> Nat]
        BY <1>1, <1>2, <1>3 DEF PostgresInv
    <2>2. IsFiniteSet(pOrders') /\ pOrders' \subseteq Orders /\ pNew' \subseteq pOrders'
        BY <1>2, <1>3, FS_AddElement DEF PostgresInv
    <2>3. \A x \in pOrders' : x.o < pNext'[<<x.w, x.d>>]
        <3>1. TAKE x \in pOrders'
        <3>2. CASE x = order
            BY <3>2, <1>1, <1>2, <1>3 DEF PostgresInv
        <3>3. CASE x \in pOrders
            <4>1. x.o < pNext[<<x.w, x.d>>]
                BY <3>3 DEF PostgresInv
            <4>2. /\ pNext'[<<x.w, x.d>>] >= pNext[<<x.w, x.d>>]
                  /\ pNext'[<<x.w, x.d>>] \in Nat
                BY <3>3, <1>2, <1>4 DEF PostgresInv
            <4>. QED BY <4>1, <4>2, <3>3, <1>4
        <3>. QED BY <3>2, <3>3, <1>2
    <2>. QED BY <2>1, <2>2, <2>3 DEF PostgresInv
<1>8. /\ Cardinality(pOrders') = Cardinality(pOrders) + 1
      /\ Cardinality(pNew') = Cardinality(pNew) + 1
    BY <1>2, <1>5, <1>6, FS_AddElement DEF PostgresInv
<1>9. ASSUME NEW w \in WIds, NEW d \in DIds
      PROVE  Cardinality(PNewIn(w, d)') = IF w = p.w /\ d = p.d
                                            THEN Cardinality(PNewIn(w, d)) + 1
                                            ELSE Cardinality(PNewIn(w, d))
    <2>1. CASE w = p.w /\ d = p.d
        <3>1. PNewIn(w, d)' = PNewIn(w, d) \cup {order}
            BY <2>1, <1>2, <1>3 DEF PNewIn
        <3>2. order \notin PNewIn(w, d) /\ IsFiniteSet(PNewIn(w, d))
            BY <1>5, <1>6, FS_Subset DEF PNewIn
        <3>. QED BY <2>1, <3>1, <3>2, FS_AddElement
    <2>2. CASE ~ (w = p.w /\ d = p.d)
        <3>1. PNewIn(w, d)' = PNewIn(w, d)
            BY <2>2, <1>2, <1>3 DEF PNewIn
        <3>. QED BY <2>2, <3>1
    <2>. QED BY <2>1, <2>2
<1>. QED BY <1>2, <1>7, <1>8, <1>9

\* doDelivery in TypeDB takes the picked orders, and no others, from the new ones.
LEMMA TypedbDeliveryStep ==
    ASSUME Scaled, TypedbInv, NEW w \in WIds, Typedb3Delivery(w)
    PROVE  /\ TypedbInv'
           /\ \E pick \in Typedb3Picks(w) : tNew' = tNew \ pick
           /\ UNCHANGED <<tOrders, tLines, tHistory>>
<1>1. PICK pick \in Typedb3Picks(w) :
          /\ tNew' = tNew \ UNION {Delivered(x) : x \in pick}
          /\ tReported' = tReported \cup pick
          /\ UNCHANGED <<tNext, tOrders, tLines, tHistory>>
    BY DEF Typedb3Delivery
<1>2. pick \subseteq tNew /\ pick \subseteq tOrders
    BY DEF Typedb3Picks, TypedbInv
<1>3. \A x \in pick : Delivered(x) = {x}
    BY <1>2, DeliveredIsPicked
<1>4. UNION {Delivered(x) : x \in pick} = pick
    BY <1>3
<1>5. tNew' = tNew \ pick
    BY <1>1, <1>4
<1>6. ReportedIffDelivered'
    BY <1>1, <1>2, <1>5 DEF TypedbInv, ReportedIffDelivered
<1>7. TypedbInv'
    BY <1>1, <1>2, <1>5, <1>6 DEF TypedbInv, Placed, TOrders, DKeys, CKeys
<1>. QED BY <1>1, <1>5, <1>7

\* If the two databases have as many new orders in every district, they have
\* as many after a delivery in both.
LEMMA DeliveriesAgree ==
    ASSUME TypedbInv, PostgresInv, NewOrdersAgree, NEW w \in WIds,
           NEW tpick \in Typedb3Picks(w), NEW ppick \in PostgresPicks(w),
           tNew' = tNew \ tpick, pNew' = pNew \ ppick
    PROVE  NewOrdersAgree'
<1>1. IsFiniteSet(tNew) /\ IsFiniteSet(pNew)
    BY FS_Subset DEF TypedbInv, PostgresInv
<1>2. tpick \subseteq tNew /\ ppick \subseteq pNew
    BY DEF Typedb3Picks, PostgresPicks
<1>3. ASSUME NEW v \in WIds, NEW d \in DIds
      PROVE  /\ IsFiniteSet(TNewIn(v, d)) /\ IsFiniteSet(PNewIn(v, d))
             /\ TNewIn(v, d) = {} <=> PNewIn(v, d) = {}
    <2>1. IsFiniteSet(TNewIn(v, d)) /\ IsFiniteSet(PNewIn(v, d))
        BY <1>1, FS_Subset DEF TNewIn, PNewIn
    <2>2. Cardinality(TNewIn(v, d)) = Cardinality(PNewIn(v, d))
        BY DEF NewOrdersAgree
    <2>. QED BY <2>1, <2>2, FS_EmptySet
<1>4. Cardinality(tNew \ tpick) = Cardinality(pNew \ ppick)
    <2>1. Cardinality(tpick) = Cardinality(ppick)
        BY <1>3, PicksAgree
    <2>2. /\ Cardinality(tNew \ tpick) = Cardinality(tNew) - Cardinality(tNew \cap tpick)
          /\ Cardinality(pNew \ ppick) = Cardinality(pNew) - Cardinality(pNew \cap ppick)
        BY <1>1, FS_Difference
    <2>3. tNew \cap tpick = tpick /\ pNew \cap ppick = ppick
        BY <1>2
    <2>. QED BY <2>1, <2>2, <2>3 DEF NewOrdersAgree
<1>5. ASSUME NEW v \in WIds, NEW d \in DIds
      PROVE  Cardinality(TNewIn(v, d)') = Cardinality(PNewIn(v, d)')
    <2>1. TNewIn(v, d)' = TNewIn(v, d) \ tpick /\ PNewIn(v, d)' = PNewIn(v, d) \ ppick
        BY DEF TNewIn, PNewIn
    <2>2. Cardinality(TNewIn(v, d)) = Cardinality(PNewIn(v, d))
        BY DEF NewOrdersAgree
    <2>3. Cardinality(TNewIn(v, d) \ tpick) =
              IF v = w /\ TNewIn(v, d) # {} THEN Cardinality(TNewIn(v, d)) - 1
                                            ELSE Cardinality(TNewIn(v, d))
        BY TypedbDistrictCount
    <2>4. Cardinality(PNewIn(v, d) \ ppick) =
              IF v = w /\ PNewIn(v, d) # {} THEN Cardinality(PNewIn(v, d)) - 1
                                            ELSE Cardinality(PNewIn(v, d))
        BY PostgresDistrictCount
    <2>. QED BY <2>1, <2>2, <2>3, <2>4, <1>3
<1>. QED BY <1>4, <1>5 DEF NewOrdersAgree

\* doPayment in TypeDB finds the customer it writes to, and adds one history.
LEMMA TypedbPaymentStep ==
    ASSUME Scaled, TypedbInv, NEW p \in PaymentParams, Typedb3Payment(p)
    PROVE  /\ TypedbInv'
           /\ tHistory' = tHistory + 1
           /\ UNCHANGED <<tOrders, tNew, tLines>>
<1>1. /\ p.w \in WIds /\ p.d \in DIds /\ p.cw \in WIds /\ p.cd \in DIds
      /\ PayingIds(p) \subseteq CIds
    BY DEF PaymentParams, PayingIds
<1>. DEFINE id(c) == IF p.byName THEN CIdOf(CKey(p.w, p.d, c)) ELSE c
<1>2. /\ UNCHANGED <<tNext, tOrders, tNew, tLines, tReported>>
      /\ \E c \in PayingIds(p) :
            tHistory' = IF CKey(p.cw, p.cd, id(c)) \in CKeys THEN tHistory + 1 ELSE tHistory
    BY DEF Typedb3Payment
<1>3. \A c \in CIds : id(c) = c /\ CKey(p.cw, p.cd, c) \in CKeys
    BY <1>1, CIdRecovered DEF CKeys
<1>4. tHistory' = tHistory + 1
    BY <1>1, <1>2, <1>3
<1>5. TypedbInv'
    BY <1>2 DEF TypedbInv, ReportedIffDelivered, Placed, TOrders, DKeys, CKeys
<1>. QED BY <1>2, <1>4, <1>5

\* A transaction that leaves the data as it is, in one database and the other.
LEMMA TypedbUnchanged ==
    ASSUME TypedbInv, UNCHANGED tVars
    PROVE  TypedbInv'
BY DEF TypedbInv, tVars, ReportedIffDelivered, Placed, TOrders, DKeys, CKeys

\* A step that leaves the verifier's store alone keeps what is known of it.
LEMMA PostgresUnchanged ==
    ASSUME PostgresInv, UNCHANGED <<pNext, pOrders, pNew>>
    PROVE  PostgresInv'
BY DEF PostgresInv, Orders

\* A step that leaves both stores alone keeps their agreement.
LEMMA AgreementUnchanged ==
    ASSUME Agreement, Usable, UNCHANGED <<tOrders, tNew, tLines, tHistory>>,
           UNCHANGED <<pOrders, pNew, pLines, pHistory>>
    PROVE  Agreement'
BY DEF Agreement, NewOrdersAgree, TNewIn, PNewIn

\* Once a statement of the verifier has raised, there is nothing to agree on.
LEMMA VerifierRaisesStep ==
    ASSUME PostgresInv, VerifierRaises
    PROVE  PostgresInv' /\ Agreement'
BY PostgresUnchanged DEF VerifierRaises, PostgresRaises, pData, Agreement, Usable

----------------------------------------------------------------------------
(***************************************************************************)
(* The theorems.                                                           *)
(***************************************************************************)

\* Every step of a verified run keeps the two databases in agreement.
LEMMA StepVInv ==
    ASSUME Scaled, VInv, [Next]_vars
    PROVE  VInv'
<1>. USE DEF VInv
<1>1. CASE NewOrder
    <2>1. PICK p \in NewOrderParams :
              Typedb3NewOrder(p) /\ (PostgresNewOrder(p) \/ VerifierRaises)
        BY <1>1 DEF NewOrder
    <2>2. VerificationPasses'
        BY <1>1 DEF NewOrder, Iterates, VerificationPasses
    <2>3. CASE p.rollback
        <3>1. UNCHANGED tVars
            BY <2>1, <2>3 DEF Typedb3NewOrder
        <3>2. CASE PostgresNewOrder(p)
            <4>1. Usable /\ UNCHANGED pData
                BY <2>3, <3>2 DEF PostgresNewOrder
            <4>. QED BY <2>2, <3>1, <4>1, TypedbUnchanged, PostgresUnchanged, AgreementUnchanged
                     DEF tVars, pData
        <3>. QED BY <2>1, <2>2, <3>1, <3>2, TypedbUnchanged, VerifierRaisesStep
    <2>4. CASE ~ p.rollback
        <3>1. TypedbInv'
            BY <2>1, <2>4, TypedbNewOrderStep
        <3>2. CASE PostgresNewOrder(p)
            <4>1. PostgresInv'
                BY <2>4, <3>2, PostgresNewOrderStep
            <4>2. Usable
                BY <3>2 DEF PostgresNewOrder
            <4>3. /\ Cardinality(tOrders') = Cardinality(pOrders')
                  /\ Cardinality(tNew') = Cardinality(pNew')
                  /\ tLines' = pLines' /\ tHistory' = pHistory'
                BY <2>1, <2>4, <3>2, <4>2, TypedbNewOrderStep, PostgresNewOrderStep
                DEF Agreement, NewOrdersAgree
            <4>4. ASSUME NEW w \in WIds, NEW d \in DIds
                  PROVE  Cardinality(TNewIn(w, d)') = Cardinality(PNewIn(w, d)')
                <5>1. Cardinality(TNewIn(w, d)) = Cardinality(PNewIn(w, d))
                    BY <4>2 DEF Agreement, NewOrdersAgree
                <5>2. Cardinality(TNewIn(w, d)') = IF w = p.w /\ d = p.d
                                                     THEN Cardinality(TNewIn(w, d)) + 1
                                                     ELSE Cardinality(TNewIn(w, d))
                    BY <2>1, <2>4, TypedbNewOrderStep
                <5>3. Cardinality(PNewIn(w, d)') = IF w = p.w /\ d = p.d
                                                     THEN Cardinality(PNewIn(w, d)) + 1
                                                     ELSE Cardinality(PNewIn(w, d))
                    BY <2>4, <3>2, PostgresNewOrderStep
                <5>. QED BY <5>1, <5>2, <5>3
            <4>5. Agreement'
                BY <4>3, <4>4 DEF Agreement, NewOrdersAgree
            <4>. QED BY <2>2, <3>1, <4>1, <4>5
        <3>. QED BY <2>1, <2>2, <3>1, <3>2, VerifierRaisesStep
    <2>. QED BY <2>3, <2>4
<1>2. CASE Payment
    <2>1. PICK p \in PaymentParams :
              Typedb3Payment(p) /\ (PostgresPayment(p) \/ VerifierRaises)
        BY <1>2 DEF Payment
    <2>2. VerificationPasses'
        BY <1>2 DEF Payment, Iterates, VerificationPasses
    <2>3. /\ TypedbInv'
          /\ tHistory' = tHistory + 1
          /\ UNCHANGED <<tOrders, tNew, tLines>>
        BY <2>1, TypedbPaymentStep
    <2>4. CASE PostgresPayment(p)
        <3>1. Usable /\ pHistory' = pHistory + 1 /\ UNCHANGED <<pNext, pOrders, pNew, pLines>>
            BY <2>4 DEF PostgresPayment
        <3>2. Agreement'
            BY <2>3, <3>1 DEF Agreement, NewOrdersAgree, TNewIn, PNewIn
        <3>. QED BY <2>2, <2>3, <3>1, <3>2, PostgresUnchanged
    <2>. QED BY <2>1, <2>2, <2>3, <2>4, VerifierRaisesStep
<1>3. CASE Delivery
    <2>1. PICK p \in DeliveryParams :
              Typedb3Delivery(p.w) /\ (PostgresDelivery(p.w) \/ VerifierRaises)
        BY <1>3 DEF Delivery
    <2>2. p.w \in WIds
        BY DEF DeliveryParams
    <2>3. VerificationPasses'
        BY <1>3 DEF Delivery, Iterates, VerificationPasses
    <2>4. /\ TypedbInv'
          /\ \E pick \in Typedb3Picks(p.w) : tNew' = tNew \ pick
          /\ UNCHANGED <<tOrders, tLines, tHistory>>
        BY <2>1, <2>2, TypedbDeliveryStep
    <2>5. CASE PostgresDelivery(p.w)
        <3>1. PICK ppick \in PostgresPicks(p.w) : pNew' = pNew \ ppick
            BY <2>5 DEF PostgresDelivery
        <3>2. PICK tpick \in Typedb3Picks(p.w) : tNew' = tNew \ tpick
            BY <2>4
        <3>3. Usable /\ UNCHANGED <<pNext, pOrders, pLines, pHistory>>
            BY <2>5 DEF PostgresDelivery
        <3>4. NewOrdersAgree'
            BY <2>2, <3>1, <3>2, <3>3, DeliveriesAgree DEF Agreement
        <3>5. Agreement'
            BY <2>4, <3>3, <3>4 DEF Agreement
        <3>6. PostgresInv'
            BY <3>1, <3>3 DEF PostgresInv, Orders
        <3>. QED BY <2>3, <2>4, <3>5, <3>6
    <2>. QED BY <2>1, <2>3, <2>4, <2>5, VerifierRaisesStep
<1>4. CASE ReadOnly
    <2>1. UNCHANGED tVars /\ VerificationPasses'
        BY <1>4 DEF ReadOnly, Typedb3Read, Iterates, VerificationPasses
    <2>2. CASE PostgresRead
        <3>1. Usable /\ UNCHANGED pData
            BY <2>2 DEF PostgresRead
        <3>. QED BY <2>1, <3>1, TypedbUnchanged, PostgresUnchanged, AgreementUnchanged
                 DEF tVars, pData
    <2>. QED BY <1>4, <2>1, <2>2, TypedbUnchanged, VerifierRaisesStep DEF ReadOnly
<1>5. CASE DriverRaises \/ UNCHANGED vars
    <2>1. UNCHANGED <<tVars, pConn, pData>> /\ VerificationPasses'
        BY <1>5 DEF DriverRaises, Iterates, VerificationPasses, vars
    <2>2. Agreement'
        BY <2>1 DEF Agreement, Usable, NewOrdersAgree, TNewIn, PNewIn, tVars, pData
    <2>. QED BY <2>1, <2>2, TypedbUnchanged, PostgresUnchanged DEF pData
<1>6. CASE VerifyTableCounts
    <2>1. UNCHANGED <<tVars, pConn, pData>>
        BY <1>6 DEF VerifyTableCounts
    <2>2. CountsEqual
        BY <1>6 DEF VerifyTableCounts, CountsEqual, Agreement, NewOrdersAgree
    <2>3. VerificationPasses'
        BY <1>6, <2>2 DEF VerifyTableCounts, VerificationPasses
    <2>4. Agreement'
        BY <2>1 DEF Agreement, Usable, NewOrdersAgree, TNewIn, PNewIn, tVars, pData
    <2>. QED BY <2>1, <2>3, <2>4, TypedbUnchanged, PostgresUnchanged DEF pData
<1>. QED BY <1>1, <1>2, <1>3, <1>4, <1>5, <1>6 DEF Next

\* The invariant holds in every state of a verified run.
THEOREM VerificationInvariant ==
    ASSUME Scaled
    PROVE  Spec => []VInv
<1>1. Init => VInv
    BY InitVInv
<1>2. VInv /\ [Next]_vars => VInv'
    BY StepVInv
<1>. QED BY <1>1, <1>2, PTL DEF Spec

\* tpcc.py --verify: whatever the number of warehouses, districts, customers and
\* transactions, whichever orders and customers the databases find first, and
\* whichever transactions fail in the driver, verifyTableCounts never exits
\* with status 1 on a scaled database.
THEOREM CountsAgree ==
    ASSUME Scaled
    PROVE  Spec => []VerificationPasses
<1>1. VInv => VerificationPasses
    BY DEF VInv
<1>. QED BY <1>1, VerificationInvariant, PTL

\* typedb3driver.doDelivery reports an order once and only if it delivers it, on
\* a scaled database.
THEOREM DeliveriesReported ==
    ASSUME Scaled
    PROVE  Spec => []ReportedIffDelivered
<1>1. VInv => ReportedIffDelivered
    BY DEF VInv, TypedbInv
<1>. QED BY <1>1, VerificationInvariant, PTL

----------------------------------------------------------------------------
(***************************************************************************)
(* Types, and the amounts of orders.                                       *)
(***************************************************************************)

\* What TypedbInv and PostgresInv do not say of the types.
TypesInv ==
    /\ tBalance \in [CKeys -> Int]
    /\ tPaid \in [CKeys -> Nat]
    /\ tLines \in Nat
    /\ tHistory \in Nat
    /\ pConn \in {"idle", "open", "aborted"}
    /\ pBalance \in [Customers -> Int]
    /\ pPaid \in [Customers -> Nat]
    /\ pLines \in Nat
    /\ pHistory \in Nat
    /\ executed \in 0 .. MaxTransactions
    /\ phase \in {"executing", "passed", "mismatch"}

\* Finitely many orders, each with an amount.
Priced(S) == IsFiniteSet(S) /\ \A x \in S : x.amount \in Nat

\* An amount is an integer.
LEMMA AmountType ==
    ASSUME NEW S, Priced(S)
    PROVE  TotalAmount(S) \in Int
<1>. DEFINE f == [x \in S |-> x.amount]
<1>1. \A x \in S : f[x] \in Int
    BY DEF Priced
<1>2. SumFunctionOnSet(f, S) \in Int
    <2>. HIDE DEF f
    <2>. QED BY <1>1, SumType DEF Priced
<1>. QED BY <1>2 DEF TotalAmount, SumFunction

\* Orders whose lines cost nothing cost nothing together.
LEMMA AmountZero ==
    ASSUME NEW S, IsFiniteSet(S), \A x \in S : x.amount = 0
    PROVE  TotalAmount(S) = 0
<1>. DEFINE f == [x \in S |-> x.amount]
<1>1. \A x \in S : f[x] = 0
    OBVIOUS
<1>2. SumFunctionOnSet(f, S) = 0
    <2>. HIDE DEF f
    <2>. QED BY <1>1, SumZero
<1>. QED BY <1>2 DEF TotalAmount, SumFunction

\* What separate orders cost adds up.
LEMMA AmountUnion ==
    ASSUME NEW S, NEW T, Priced(S), Priced(T), S \cap T = {}
    PROVE  TotalAmount(S \cup T) = TotalAmount(S) + TotalAmount(T)
<1>. DEFINE f == [x \in S |-> x.amount]
            g == [x \in T |-> x.amount]
            h == [x \in S \cup T |-> x.amount]
<1>1. /\ \A x \in S : h[x] = f[x]
      /\ \A x \in T : h[x] = g[x]
      /\ \A x \in S \cup T : h[x] \in Int
    BY DEF Priced
<1>2. /\ TotalAmount(S) = SumFunctionOnSet(f, S)
      /\ TotalAmount(T) = SumFunctionOnSet(g, T)
      /\ TotalAmount(S \cup T) = SumFunctionOnSet(h, S \cup T)
    BY DEF TotalAmount, SumFunction
<1>. HIDE DEF f, g, h
<1>3. IsFiniteSet(S) /\ IsFiniteSet(T)
    BY DEF Priced
<1>4. SumFunctionOnSet(h, S) = SumFunctionOnSet(f, S)
    BY <1>1, <1>3, SumSame
<1>5. SumFunctionOnSet(h, T) = SumFunctionOnSet(g, T)
    BY <1>1, <1>3, SumSame
<1>6. SumFunctionOnSet(h, S \cup T) = SumFunctionOnSet(h, S) + SumFunctionOnSet(h, T)
    BY <1>1, <1>3, SumUnion
<1>. QED BY <1>2, <1>4, <1>5, <1>6

\* The orders of either database have amounts.
LEMMA OrdersPriced ==
    ASSUME VInv
    PROVE  /\ \A S \in SUBSET tOrders : Priced(S)
           /\ \A S \in SUBSET pOrders : Priced(S)
<1>1. IsFiniteSet(tOrders) /\ IsFiniteSet(pOrders)
    BY DEF VInv, TypedbInv, PostgresInv
<1>2. \A x \in tOrders : x.amount \in Nat
    BY DEF VInv, TypedbInv, TOrders
<1>3. \A x \in pOrders : x.amount \in Nat
    BY DEF VInv, PostgresInv, Orders
<1>. QED BY <1>1, <1>2, <1>3, FS_Subset DEF Priced

\* doDelivery in TypeDB credits the customers of the orders it picked.
LEMMA TypedbCredits ==
    ASSUME Scaled, TypedbInv, NEW w \in WIds, Typedb3Delivery(w)
    PROVE  \E pick \in SUBSET tNew :
              /\ tNew' = tNew \ pick
              /\ tBalance' = [k \in CKeys |->
                                 tBalance[k] + TotalAmount({x \in pick : x.c = k})]
<1>1. PICK pick \in Typedb3Picks(w) :
          /\ tNew' = tNew \ UNION {Delivered(x) : x \in pick}
          /\ tBalance' = [k \in CKeys |-> tBalance[k] + TotalAmount(
                              {x \in pick : DeliveryKey(x) = k /\ Delivered(x) # {}})]
    BY DEF Typedb3Delivery
<1>2. pick \subseteq tNew /\ pick \subseteq tOrders
    BY DEF Typedb3Picks, TypedbInv
<1>3. \A x \in pick : Delivered(x) = {x}
    BY <1>2, DeliveredIsPicked
<1>4. \A x \in pick : DeliveryKey(x) = x.c
    BY <1>3 DEF Delivered
<1>5. \A k : {x \in pick : DeliveryKey(x) = k /\ Delivered(x) # {}} = {x \in pick : x.c = k}
    BY <1>3, <1>4
<1>6. UNION {Delivered(x) : x \in pick} = pick
    BY <1>3
<1>7. tBalance' = [k \in CKeys |-> tBalance[k] + TotalAmount({x \in pick : x.c = k})]
    BY <1>1, <1>5
<1>. QED BY <1>1, <1>2, <1>6, <1>7

\* doPayment in TypeDB reads one customer and writes a customer of the same
\* number.
LEMMA TypedbCharges ==
    ASSUME Scaled, NEW p \in PaymentParams, Typedb3Payment(p)
    PROVE  \E c \in CIds :
              LET from == CKey(p.w, p.d, c)
                  to   == CKey(p.cw, p.cd, c)
              IN /\ from \in CKeys /\ to \in CKeys
                 /\ tBalance' = [tBalance EXCEPT ![to] = tBalance[from] - 1]
                 /\ tPaid' = [tPaid EXCEPT ![to] = tPaid[from] + 1]
<1>1. /\ p.w \in WIds /\ p.d \in DIds /\ p.cw \in WIds /\ p.cd \in DIds
      /\ PayingIds(p) \subseteq CIds
    BY DEF PaymentParams, PayingIds
<1>. DEFINE id(c) == IF p.byName THEN CIdOf(CKey(p.w, p.d, c)) ELSE c
<1>2. PICK c \in PayingIds(p) :
          CKey(p.cw, p.cd, id(c)) \in CKeys =>
             /\ tBalance' = [tBalance EXCEPT
                                ![CKey(p.cw, p.cd, id(c))] = tBalance[CKey(p.w, p.d, c)] - 1]
             /\ tPaid' = [tPaid EXCEPT
                                ![CKey(p.cw, p.cd, id(c))] = tPaid[CKey(p.w, p.d, c)] + 1]
    BY DEF Typedb3Payment
<1>3. c \in CIds /\ id(c) = c
    BY <1>1, CIdRecovered
<1>4. CKey(p.w, p.d, c) \in CKeys /\ CKey(p.cw, p.cd, c) \in CKeys
    BY <1>1, <1>3 DEF CKeys
<1>. QED BY <1>2, <1>3, <1>4

\* The load gives both databases values of their types.
LEMMA InitTypesInv ==
    ASSUME Init
    PROVE  TypesInv
<1>1. PICK perm \in [Districts -> Permutations] :
          /\ Typedb3Init(LoadedOrders(perm), Cardinality(LoadedOrders(perm)))
          /\ PostgresInit(LoadedOrders(perm), Cardinality(LoadedOrders(perm)))
    BY DEF Init
<1>2. Cardinality(LoadedOrders(perm)) \in Nat
    BY LoadedOrdersFacts, FS_CardinalityType
<1>3. Cardinality(Customers) \in Nat /\ Cardinality(CKeys) \in Nat
    BY CustomersFinite, CKeysCardinality, FS_CardinalityType
<1>4. executed \in 0 .. MaxTransactions /\ phase \in {"executing", "passed", "mismatch"}
    BY DurationAssumption DEF Init
<1>5. /\ tBalance \in [CKeys -> Int] /\ tPaid \in [CKeys -> Nat]
      /\ tLines \in Nat /\ tHistory \in Nat
    BY <1>1, <1>2, <1>3 DEF Typedb3Init
<1>6. /\ pBalance \in [Customers -> Int] /\ pPaid \in [Customers -> Nat]
      /\ pLines \in Nat /\ pHistory \in Nat /\ pConn = "idle"
    BY <1>1, <1>2, <1>3 DEF PostgresInit
<1>. QED BY <1>4, <1>5, <1>6 DEF TypesInv

\* The iterations and the phase keep their types.
LEMMA IteratesTypes ==
    ASSUME TypesInv, Iterates
    PROVE  executed' \in 0 .. MaxTransactions /\ phase' = phase
BY DurationAssumption DEF TypesInv, Iterates

\* Every step keeps the types.
LEMMA StepTypesInv ==
    ASSUME Scaled, VInv, TypesInv, [Next]_vars
    PROVE  TypesInv'
<1>1. CASE NewOrder
    <2>1. PICK p \in NewOrderParams :
              Typedb3NewOrder(p) /\ (PostgresNewOrder(p) \/ VerifierRaises)
        BY <1>1 DEF NewOrder
    <2>2. p.lines \in Nat
        BY LinesAssumption DEF NewOrderParams
    <2>3. tLines' \in Nat /\ UNCHANGED <<tBalance, tPaid, tHistory>>
        BY <2>1, <2>2 DEF Typedb3NewOrder, tVars, TypesInv
    <2>4. /\ pConn' \in {"idle", "open", "aborted"} /\ pLines' \in Nat
          /\ UNCHANGED <<pBalance, pPaid, pHistory>>
        BY <2>1, <2>2 DEF PostgresNewOrder, VerifierRaises, PostgresRaises, pData, TypesInv
    <2>. QED BY <1>1, <2>3, <2>4, IteratesTypes DEF TypesInv, NewOrder, Customers, CKeys
<1>2. CASE Payment
    <2>1. PICK p \in PaymentParams :
              Typedb3Payment(p) /\ (PostgresPayment(p) \/ VerifierRaises)
        BY <1>2 DEF Payment
    <2>2. /\ tHistory' = tHistory + 1
          /\ UNCHANGED tLines
        BY <2>1, TypedbPaymentStep DEF VInv
    <2>3. tBalance' \in [CKeys -> Int] /\ tPaid' \in [CKeys -> Nat]
        <3>1. PICK c \in CIds :
                  LET from == CKey(p.w, p.d, c)
                      to   == CKey(p.cw, p.cd, c)
                  IN /\ from \in CKeys /\ to \in CKeys
                     /\ tBalance' = [tBalance EXCEPT ![to] = tBalance[from] - 1]
                     /\ tPaid' = [tPaid EXCEPT ![to] = tPaid[from] + 1]
            BY <2>1, TypedbCharges
        <3>. QED BY <3>1 DEF TypesInv
    <2>4. CASE PostgresPayment(p)
        <3>1. PICK c \in PayingIds(p) :
                  LET from == <<p.w, p.d, c>>
                      to   == <<p.cw, p.cd, c>>
                  IN /\ pBalance' = [pBalance EXCEPT ![to] = pBalance[from] - 1]
                     /\ pPaid' = [pPaid EXCEPT ![to] = pPaid[from] + 1]
            BY <2>4 DEF PostgresPayment
        <3>2. <<p.w, p.d, c>> \in Customers /\ <<p.cw, p.cd, c>> \in Customers
            BY DEF PaymentParams, PayingIds, Customers
        <3>3. pBalance' \in [Customers -> Int] /\ pPaid' \in [Customers -> Nat]
            BY <3>1, <3>2 DEF TypesInv
        <3>4. pConn' = "idle" /\ pHistory' = pHistory + 1 /\ UNCHANGED pLines
            BY <2>4 DEF PostgresPayment
        <3>. QED BY <3>3, <3>4, <2>2, <2>3, <1>2, IteratesTypes DEF TypesInv, Payment, Customers, CKeys
    <2>5. CASE VerifierRaises
        <3>1. pConn' = "aborted" /\ UNCHANGED pData
            BY <2>5 DEF VerifierRaises, PostgresRaises
        <3>. QED BY <3>1, <2>2, <2>3, <1>2, IteratesTypes DEF TypesInv, Payment, Customers, CKeys, pData
    <2>. QED BY <2>1, <2>4, <2>5
<1>3. CASE Delivery
    <2>1. PICK p \in DeliveryParams :
              Typedb3Delivery(p.w) /\ (PostgresDelivery(p.w) \/ VerifierRaises)
        BY <1>3 DEF Delivery
    <2>2. p.w \in WIds
        BY DEF DeliveryParams
    <2>3. UNCHANGED <<tLines, tPaid, tHistory>>
        BY <2>1 DEF Typedb3Delivery
    <2>4. tBalance' \in [CKeys -> Int]
        <3>1. PICK pick \in SUBSET tNew :
                  tBalance' = [k \in CKeys |->
                                  tBalance[k] + TotalAmount({x \in pick : x.c = k})]
            BY <2>1, <2>2, TypedbCredits DEF VInv
        <3>2. ASSUME NEW k PROVE TotalAmount({x \in pick : x.c = k}) \in Int
            <4>1. {x \in pick : x.c = k} \in SUBSET tOrders
                BY DEF VInv, TypedbInv
            <4>. QED BY <4>1, OrdersPriced, AmountType
        <3>. DEFINE credit(k) == TotalAmount({x \in pick : x.c = k})
        <3>3. /\ tBalance \in [CKeys -> Int]
              /\ tBalance' = [k \in CKeys |-> tBalance[k] + credit(k)]
            BY <3>1 DEF TypesInv
        <3>. HIDE DEF credit
        <3>4. \A k \in CKeys : credit(k) \in Int
            BY <3>2 DEF credit
        <3>. QED BY <3>3, <3>4
    <2>5. CASE PostgresDelivery(p.w)
        <3>1. PICK pick \in PostgresPicks(p.w) :
                  pBalance' = [k \in Customers |->
                      pBalance[k] + TotalAmount({x \in pick : <<x.w, x.d, x.c>> = k})]
            BY <2>5 DEF PostgresDelivery
        <3>2. ASSUME NEW k PROVE TotalAmount({x \in pick : <<x.w, x.d, x.c>> = k}) \in Int
            <4>1. {x \in pick : <<x.w, x.d, x.c>> = k} \in SUBSET pOrders
                BY DEF VInv, PostgresInv, PostgresPicks
            <4>. QED BY <4>1, OrdersPriced, AmountType
        <3>3. pBalance' \in [Customers -> Int]
            BY <3>1, <3>2 DEF TypesInv
        <3>4. pConn' = "idle" /\ UNCHANGED <<pLines, pPaid, pHistory>>
            BY <2>5 DEF PostgresDelivery
        <3>. QED BY <3>3, <3>4, <2>3, <2>4, <1>3, IteratesTypes DEF TypesInv, Delivery, Customers, CKeys
    <2>6. CASE VerifierRaises
        <3>1. pConn' = "aborted" /\ UNCHANGED pData
            BY <2>6 DEF VerifierRaises, PostgresRaises
        <3>. QED BY <3>1, <2>3, <2>4, <1>3, IteratesTypes DEF TypesInv, Delivery, Customers, CKeys, pData
    <2>. QED BY <2>1, <2>5, <2>6
<1>4. CASE ReadOnly
    <2>1. UNCHANGED <<tVars, pData>> /\ pConn' \in {"idle", "aborted"}
        BY <1>4 DEF ReadOnly, Typedb3Read, PostgresRead, VerifierRaises, PostgresRaises
    <2>. QED BY <1>4, <2>1, IteratesTypes DEF TypesInv, ReadOnly, Customers, CKeys, tVars, pData
<1>5. CASE DriverRaises
    <2>. QED BY <1>5, IteratesTypes DEF TypesInv, DriverRaises, Customers, CKeys, tVars, pData
<1>6. CASE VerifyTableCounts
    <2>1. UNCHANGED <<tVars, pConn, pData, executed>> /\ phase' \in {"passed", "mismatch"}
        BY <1>6 DEF VerifyTableCounts
    <2>. QED BY <2>1 DEF TypesInv, Customers, CKeys, tVars, pData
<1>7. CASE UNCHANGED vars
    BY <1>7 DEF TypesInv, Customers, CKeys, vars, tVars, pData
<1>. QED BY <1>1, <1>2, <1>3, <1>4, <1>5, <1>6, <1>7 DEF Next

----------------------------------------------------------------------------
(***************************************************************************)
(* Balances, where there is one warehouse.                                 *)
(***************************************************************************)

\* What BalancesArePaid says of TypeDB, and of Postgres.
TypedbPaid ==
    \A k \in CKeys : tBalance[k] + tPaid[k] = TotalAmount({x \in tOrders \ tNew : x.c = k})

PostgresPaid ==
    \A k \in Customers :
        pBalance[k] + pPaid[k] = TotalAmount({x \in pOrders \ pNew : <<x.w, x.d, x.c>> = k})

\* A payment is by a customer of the district it is made through.
LEMMA PaymentIsLocal ==
    ASSUME NumWarehouses = 1, NEW p \in PaymentParams
    PROVE  p.cw = p.w /\ p.cd = p.d
BY DEF PaymentParams, WIds

\* The orders the load delivered cost nothing.
LEMMA InitPaid ==
    ASSUME Init
    PROVE  TypedbPaid /\ PostgresPaid
<1>1. PICK perm \in [Districts -> Permutations] :
          /\ Typedb3Init(LoadedOrders(perm), Cardinality(LoadedOrders(perm)))
          /\ PostgresInit(LoadedOrders(perm), Cardinality(LoadedOrders(perm)))
    BY DEF Init
<1>. DEFINE L == LoadedOrders(perm)
            N == {y \in L : LoadedNew(y.o)}
<1>2. /\ tOrders = {TOrder(x) : x \in L} /\ tNew = {TOrder(x) : x \in N}
      /\ tBalance = [k \in CKeys |-> 0] /\ tPaid = [k \in CKeys |-> 0]
      /\ pOrders = L /\ pNew = N
      /\ pBalance = [k \in Customers |-> 0] /\ pPaid = [k \in Customers |-> 0]
    BY <1>1 DEF Typedb3Init, PostgresInit
<1>3. \A x \in L : x \in Orders /\ (x.amount > 0 => LoadedNew(x.o))
    BY LoadedOrdersFacts
<1>4. VInv
    BY InitVInv
<1>. HIDE DEF L
<1>5. \A x \in pOrders \ pNew : x.amount = 0
    BY <1>2, <1>3 DEF Orders
<1>6. \A x \in tOrders \ tNew : x.amount = 0
    <2>1. SUFFICES ASSUME NEW x \in L, TOrder(x) \notin tNew
                   PROVE  TOrder(x).amount = 0
        BY <1>2
    <2>2. TOrder(x).amount = x.amount
        BY DEF TOrder
    <2>3. x \notin N
        BY <1>2, <2>1
    <2>4. x.amount \in Nat /\ ~ (x.amount > 0)
        BY <1>3, <2>3 DEF Orders
    <2>. QED BY <2>2, <2>4
<1>7. ASSUME NEW k \in CKeys
      PROVE  tBalance[k] + tPaid[k] = TotalAmount({x \in tOrders \ tNew : x.c = k})
    <2>1. IsFiniteSet({x \in tOrders \ tNew : x.c = k})
        BY <1>4, OrdersPriced DEF Priced
    <2>2. TotalAmount({x \in tOrders \ tNew : x.c = k}) = 0
        BY <1>6, <2>1, AmountZero
    <2>. QED BY <1>2, <2>2
<1>8. ASSUME NEW k \in Customers
      PROVE  pBalance[k] + pPaid[k] = TotalAmount({x \in pOrders \ pNew : <<x.w, x.d, x.c>> = k})
    <2>1. IsFiniteSet({x \in pOrders \ pNew : <<x.w, x.d, x.c>> = k})
        BY <1>4, OrdersPriced DEF Priced
    <2>2. TotalAmount({x \in pOrders \ pNew : <<x.w, x.d, x.c>> = k}) = 0
        BY <1>5, <2>1, AmountZero
    <2>. QED BY <1>2, <2>2
<1>. QED BY <1>7, <1>8 DEF TypedbPaid, PostgresPaid

\* Every step keeps the balances of TypeDB.
LEMMA StepTypedbPaid ==
    ASSUME Scaled, NumWarehouses = 1, VInv, TypesInv, TypedbPaid, [Next]_vars
    PROVE  TypedbPaid'
<1>1. CASE NewOrder
    <2>1. PICK p \in NewOrderParams : Typedb3NewOrder(p)
        BY <1>1 DEF NewOrder
    <2>2. UNCHANGED <<tBalance, tPaid>>
        BY <2>1 DEF Typedb3NewOrder, tVars
    <2>3. tOrders' \ tNew' = tOrders \ tNew
        <3>1. CASE p.rollback
            BY <2>1, <3>1 DEF Typedb3NewOrder, tVars
        <3>2. CASE ~ p.rollback
            <4>. DEFINE dkey  == DKey(p.w, p.d)
                        order == [d |-> dkey, o |-> tNext[dkey], c |-> CKey(p.w, p.d, p.c),
                                  amount |-> p.lines]
            <4>1. tOrders' = tOrders \cup {order} /\ tNew' = tNew \cup {order}
                BY <2>1, <3>2 DEF Typedb3NewOrder
            <4>2. order.d = dkey /\ order.o = tNext[dkey]
                OBVIOUS
            <4>3. order \notin tOrders
                <5>. HIDE DEF order
                <5>1. dkey \in DKeys /\ tNext[dkey] \in Nat
                    BY DEF NewOrderParams, DKeys, VInv, TypedbInv
                <5>. QED BY <4>2, <5>1 DEF VInv, TypedbInv
            <4>. HIDE DEF order
            <4>. QED BY <4>1, <4>3
        <3>. QED BY <3>1, <3>2
    <2>. QED BY <2>2, <2>3 DEF TypedbPaid, CKeys
<1>2. CASE Payment
    <2>1. PICK p \in PaymentParams : Typedb3Payment(p)
        BY <1>2 DEF Payment
    <2>2. UNCHANGED <<tOrders, tNew>>
        BY <2>1 DEF Typedb3Payment
    <2>3. PICK c \in CIds :
              LET from == CKey(p.w, p.d, c)
                  to   == CKey(p.cw, p.cd, c)
              IN /\ from \in CKeys /\ to \in CKeys
                 /\ tBalance' = [tBalance EXCEPT ![to] = tBalance[from] - 1]
                 /\ tPaid' = [tPaid EXCEPT ![to] = tPaid[from] + 1]
        BY <2>1, TypedbCharges
    <2>. DEFINE key == CKey(p.w, p.d, c)
    <2>4. /\ key \in CKeys
          /\ tBalance' = [tBalance EXCEPT ![key] = tBalance[key] - 1]
          /\ tPaid' = [tPaid EXCEPT ![key] = tPaid[key] + 1]
        BY <2>3, PaymentIsLocal
    <2>. HIDE DEF key
    <2>5. ASSUME NEW k \in CKeys
          PROVE  tBalance'[k] + tPaid'[k] = tBalance[k] + tPaid[k]
        BY <2>4 DEF TypesInv
    <2>. QED BY <2>2, <2>5 DEF TypedbPaid, CKeys
<1>3. CASE Delivery
    <2>1. PICK p \in DeliveryParams : Typedb3Delivery(p.w)
        BY <1>3 DEF Delivery
    <2>2. p.w \in WIds
        BY DEF DeliveryParams
    <2>3. UNCHANGED <<tOrders, tPaid>>
        BY <2>1 DEF Typedb3Delivery
    <2>4. PICK pick \in SUBSET tNew :
              /\ tNew' = tNew \ pick
              /\ tBalance' = [k \in CKeys |->
                                 tBalance[k] + TotalAmount({x \in pick : x.c = k})]
        BY <2>1, <2>2, TypedbCredits DEF VInv
    <2>5. ASSUME NEW k \in CKeys
          PROVE  tBalance'[k] + tPaid'[k] = TotalAmount({x \in tOrders' \ tNew' : x.c = k})
        <3>. DEFINE old == {x \in tOrders \ tNew : x.c = k}
                    now == {x \in pick : x.c = k}
        <3>1. {x \in tOrders' \ tNew' : x.c = k} = old \cup now /\ old \cap now = {}
            BY <2>3, <2>4 DEF VInv, TypedbInv
        <3>2. old \in SUBSET tOrders /\ now \in SUBSET tOrders
            BY DEF VInv, TypedbInv
        <3>3. tBalance'[k] = tBalance[k] + TotalAmount(now) /\ tPaid'[k] = tPaid[k]
            BY <2>3, <2>4
        <3>4. tBalance[k] + tPaid[k] = TotalAmount(old)
            BY DEF TypedbPaid
        <3>5. tBalance[k] \in Int /\ tPaid[k] \in Int
            BY DEF TypesInv
        <3>. HIDE DEF old, now
        <3>6. Priced(old) /\ Priced(now)
            BY <3>2, OrdersPriced
        <3>7. TotalAmount(old \cup now) = TotalAmount(old) + TotalAmount(now)
            BY <3>1, <3>6, AmountUnion
        <3>8. TotalAmount(old) \in Int /\ TotalAmount(now) \in Int
            BY <3>6, AmountType
        <3>9. TotalAmount({x \in tOrders' \ tNew' : x.c = k}) =
                  TotalAmount(old) + TotalAmount(now)
            BY <3>1, <3>7, Zenon
        <3>10. tBalance'[k] + tPaid'[k] = TotalAmount(old) + TotalAmount(now)
            BY <3>3, <3>4, <3>5, <3>8
        <3>. QED BY <3>9, <3>10
    <2>. QED BY <2>5 DEF TypedbPaid, CKeys
<1>4. CASE ReadOnly \/ DriverRaises \/ VerifyTableCounts \/ UNCHANGED vars
    <2>1. UNCHANGED tVars
        BY <1>4 DEF ReadOnly, Typedb3Read, DriverRaises, VerifyTableCounts, vars
    <2>. QED BY <2>1 DEF TypedbPaid, tVars, CKeys
<1>. QED BY <1>1, <1>2, <1>3, <1>4 DEF Next

\* Every step keeps the balances of Postgres.
LEMMA StepPostgresPaid ==
    ASSUME NumWarehouses = 1, VInv, TypesInv, PostgresPaid, [Next]_vars
    PROVE  PostgresPaid'
<1>1. CASE UNCHANGED pData
    BY <1>1 DEF PostgresPaid, pData, Customers
<1>2. ASSUME NEW p \in NewOrderParams, PostgresNewOrder(p)
      PROVE  PostgresPaid'
    <2>1. CASE p.rollback
        BY <1>1, <1>2, <2>1 DEF PostgresNewOrder
    <2>2. CASE ~ p.rollback
        <3>. DEFINE order == Order(p.w, p.d, pNext[<<p.w, p.d>>], p.c, p.lines)
        <3>1. /\ pOrders' = pOrders \cup {order} /\ pNew' = pNew \cup {order}
              /\ UNCHANGED <<pBalance, pPaid>>
            BY <1>2, <2>2 DEF PostgresNewOrder
        <3>2. order.w = p.w /\ order.d = p.d /\ order.o = pNext[<<p.w, p.d>>]
            BY DEF Order
        <3>3. order \notin pOrders
            <4>. HIDE DEF order
            <4>1. <<p.w, p.d>> \in Districts
                BY DEF NewOrderParams, Districts
            <4>2. pNext[<<p.w, p.d>>] \in Nat
                BY <4>1 DEF VInv, PostgresInv
            <4>. QED BY <3>2, <4>2 DEF VInv, PostgresInv
        <3>. HIDE DEF order
        <3>4. pOrders' \ pNew' = pOrders \ pNew
            BY <3>1, <3>3
        <3>. QED BY <3>1, <3>4 DEF PostgresPaid, Customers
    <2>. QED BY <2>1, <2>2
<1>3. ASSUME NEW p \in PaymentParams, PostgresPayment(p)
      PROVE  PostgresPaid'
    <2>1. UNCHANGED <<pOrders, pNew>>
        BY <1>3 DEF PostgresPayment
    <2>2. PICK c \in PayingIds(p) :
              LET from == <<p.w, p.d, c>>
                  to   == <<p.cw, p.cd, c>>
              IN /\ pBalance' = [pBalance EXCEPT ![to] = pBalance[from] - 1]
                 /\ pPaid' = [pPaid EXCEPT ![to] = pPaid[from] + 1]
        BY <1>3 DEF PostgresPayment
    <2>. DEFINE key == <<p.w, p.d, c>>
    <2>3. /\ key \in Customers
          /\ pBalance' = [pBalance EXCEPT ![key] = pBalance[key] - 1]
          /\ pPaid' = [pPaid EXCEPT ![key] = pPaid[key] + 1]
        BY <2>2, PaymentIsLocal DEF PaymentParams, PayingIds, Customers
    <2>. HIDE DEF key
    <2>4. ASSUME NEW k \in Customers
          PROVE  pBalance'[k] + pPaid'[k] = pBalance[k] + pPaid[k]
        BY <2>3 DEF TypesInv
    <2>. QED BY <2>1, <2>4 DEF PostgresPaid, Customers
<1>4. ASSUME NEW w \in WIds, PostgresDelivery(w)
      PROVE  PostgresPaid'
    <2>1. UNCHANGED <<pOrders, pPaid>>
        BY <1>4 DEF PostgresDelivery
    <2>2. PICK pick \in PostgresPicks(w) :
              /\ pNew' = pNew \ pick
              /\ pBalance' = [k \in Customers |->
                      pBalance[k] + TotalAmount({x \in pick : <<x.w, x.d, x.c>> = k})]
        BY <1>4 DEF PostgresDelivery
    <2>3. pick \subseteq pNew /\ pNew \subseteq pOrders
        BY DEF PostgresPicks, VInv, PostgresInv
    <2>4. ASSUME NEW k \in Customers
          PROVE  pBalance'[k] + pPaid'[k] =
                     TotalAmount({x \in pOrders' \ pNew' : <<x.w, x.d, x.c>> = k})
        <3>. DEFINE old == {x \in pOrders \ pNew : <<x.w, x.d, x.c>> = k}
                    now == {x \in pick : <<x.w, x.d, x.c>> = k}
        <3>1. /\ {x \in pOrders' \ pNew' : <<x.w, x.d, x.c>> = k} = old \cup now
              /\ old \cap now = {}
            BY <2>1, <2>2, <2>3
        <3>2. old \in SUBSET pOrders /\ now \in SUBSET pOrders
            BY <2>3
        <3>3. pBalance'[k] = pBalance[k] + TotalAmount(now) /\ pPaid'[k] = pPaid[k]
            BY <2>1, <2>2
        <3>4. pBalance[k] + pPaid[k] = TotalAmount(old)
            BY DEF PostgresPaid
        <3>5. pBalance[k] \in Int /\ pPaid[k] \in Int
            BY DEF TypesInv
        <3>. HIDE DEF old, now
        <3>6. Priced(old) /\ Priced(now)
            BY <3>2, OrdersPriced
        <3>7. TotalAmount(old \cup now) = TotalAmount(old) + TotalAmount(now)
            BY <3>1, <3>6, AmountUnion
        <3>8. TotalAmount(old) \in Int /\ TotalAmount(now) \in Int
            BY <3>6, AmountType
        <3>9. TotalAmount({x \in pOrders' \ pNew' : <<x.w, x.d, x.c>> = k}) =
                  TotalAmount(old) + TotalAmount(now)
            BY <3>1, <3>7, Zenon
        <3>10. pBalance'[k] + pPaid'[k] = TotalAmount(old) + TotalAmount(now)
            BY <3>3, <3>4, <3>5, <3>8
        <3>. QED BY <3>9, <3>10
    <2>. QED BY <2>4 DEF PostgresPaid, Customers
<1>5. \/ UNCHANGED pData
      \/ \E p \in NewOrderParams : PostgresNewOrder(p)
      \/ \E p \in PaymentParams : PostgresPayment(p)
      \/ \E p \in DeliveryParams : PostgresDelivery(p.w)
    BY DEF Next, NewOrder, Payment, Delivery, ReadOnly, PostgresRead, VerifierRaises,
           PostgresRaises, DriverRaises, VerifyTableCounts, vars
<1>6. \A p \in DeliveryParams : p.w \in WIds
    BY DEF DeliveryParams
<1>. QED BY <1>1, <1>2, <1>3, <1>4, <1>5, <1>6

----------------------------------------------------------------------------
(***************************************************************************)
(* The theorems on types and balances.                                     *)
(***************************************************************************)

\* Every variable of a verified run keeps its type, on a scaled database.
THEOREM TypeCorrect ==
    ASSUME Scaled
    PROVE  Spec => []TypeOK
<1>1. Init => TypesInv
    BY InitTypesInv
<1>2. VInv /\ TypesInv /\ [Next]_vars => TypesInv'
    BY StepTypesInv
<1>3. VInv /\ TypesInv => TypeOK
    BY DEF VInv, TypedbInv, PostgresInv, TypesInv, TypeOK
<1>. QED BY <1>1, <1>2, <1>3, VerificationInvariant, PTL DEF Spec

\* typedb3driver.doDelivery and doPayment, and those of the Postgres verifier:
\* whichever order and customer the database finds first, a customer's balance
\* and payments make up the customer's delivered orders.  The database is scaled
\* and has one warehouse, so that payments are local.
THEOREM BalancesPaid ==
    ASSUME Scaled, NumWarehouses = 1
    PROVE  Spec => []BalancesArePaid
<1>1. Init => TypesInv /\ TypedbPaid /\ PostgresPaid
    BY InitTypesInv, InitPaid
<1>2. VInv /\ TypesInv /\ TypedbPaid /\ PostgresPaid /\ [Next]_vars
          => TypesInv' /\ TypedbPaid' /\ PostgresPaid'
    BY StepTypesInv, StepTypedbPaid, StepPostgresPaid
<1>3. TypeOK /\ TypedbPaid /\ PostgresPaid => BalancesArePaid
    BY DEF TypedbPaid, PostgresPaid, BalancesArePaid
<1>. QED BY <1>1, <1>2, <1>3, VerificationInvariant, TypeCorrect, PTL DEF Spec
============================================================================
