-------------------------- MODULE TpccVerification --------------------------
(***************************************************************************)
(* tpcc.py --verify with one client: Executor.execute runs every           *)
(* transaction on the TypeDB 3 driver and then on a Postgres verifier that *)
(* was loaded with the same rows; at the end verifyTableCounts compares    *)
(* the number of rows of every table.                                      *)
(***************************************************************************)
EXTENDS Typedb3Store, PostgresStore

CONSTANTS
    MaxTransactions,   \* bound: transactions that fit in --duration
    DriverMayFail,     \* whether a transaction of the driver may raise
    VerifierMayFail    \* whether a statement of the verifier may raise

ASSUME DurationAssumption == MaxTransactions \in Nat
ASSUME FailureAssumption  == DriverMayFail \in BOOLEAN /\ VerifierMayFail \in BOOLEAN

VARIABLES
    executed,   \* iterations of Executor.execute
    phase       \* where main is

vars == <<tVars, pConn, pData, executed, phase>>

TOrders == [d : DKeys, o : Nat, c : CKeys, amount : Nat]

TypeOK ==
    /\ tNext \in [DKeys -> Nat]
    /\ tOrders \subseteq TOrders
    /\ tNew \subseteq tOrders
    /\ tReported \subseteq tOrders
    /\ tBalance \in [CKeys -> Int]
    /\ tPaid \in [CKeys -> Nat]
    /\ tLines \in Nat
    /\ tHistory \in Nat
    /\ pConn \in {"idle", "open", "aborted"}
    /\ pNext \in [Districts -> Nat]
    /\ pOrders \subseteq Orders
    /\ pNew \subseteq pOrders
    /\ pBalance \in [Customers -> Int]
    /\ pPaid \in [Customers -> Nat]
    /\ pLines \in Nat
    /\ pHistory \in Nat
    /\ executed \in 0 .. MaxTransactions
    /\ phase \in {"executing", "passed", "mismatch"}

\* The load gave both databases the same rows.
Init ==
    /\ \E perm \in [Districts -> Permutations] :
          LET orders == LoadedOrders(perm)
              lines  == Cardinality(orders)
          IN Typedb3Init(orders, lines) /\ PostgresInit(orders, lines)
    /\ executed = 0
    /\ phase = "executing"

\* An iteration of Executor.execute.
Iterates ==
    /\ phase = "executing"
    /\ executed < MaxTransactions
    /\ executed' = executed + 1
    /\ UNCHANGED phase

\* The verifier is called after the driver.  Its exception is caught, and the
\* loop goes on.
VerifierRaises ==
    /\ ~ Usable \/ VerifierMayFail
    /\ PostgresRaises

NewOrder ==
    /\ Iterates
    /\ \E p \in NewOrderParams :
          Typedb3NewOrder(p) /\ (PostgresNewOrder(p) \/ VerifierRaises)

Payment ==
    /\ Iterates
    /\ \E p \in PaymentParams :
          Typedb3Payment(p) /\ (PostgresPayment(p) \/ VerifierRaises)

Delivery ==
    /\ Iterates
    /\ \E p \in DeliveryParams :
          Typedb3Delivery(p.w) /\ (PostgresDelivery(p.w) \/ VerifierRaises)

ReadOnly ==
    /\ Iterates
    /\ Typedb3Read
    /\ PostgresRead \/ VerifierRaises

\* The driver raises, its transaction is closed without a commit, and the
\* verifier is not called.
DriverRaises ==
    /\ Iterates
    /\ DriverMayFail
    /\ UNCHANGED <<tVars, pConn, pData>>

CountsEqual ==
    /\ Cardinality(tOrders) = Cardinality(pOrders)
    /\ Cardinality(tNew) = Cardinality(pNew)
    /\ tLines = pLines
    /\ tHistory = pHistory

\* The duration is over: verifyTableCounts passes, or exits with status 1.  On
\* an aborted connection its own SELECTs raise, and there is no verdict.
VerifyTableCounts ==
    /\ phase = "executing"
    /\ Usable
    /\ phase' = IF CountsEqual THEN "passed" ELSE "mismatch"
    /\ UNCHANGED <<tVars, pConn, pData, executed>>

Next == NewOrder \/ Payment \/ Delivery \/ ReadOnly \/ DriverRaises \/ VerifyTableCounts

Spec == Init /\ [][Next]_vars

----------------------------------------------------------------------------
(***************************************************************************)
(* Properties.                                                             *)
(***************************************************************************)

\* The two drivers pick different orders to deliver, find customers by
\* different keys and treat a missing item differently, and a transaction may
\* fail in the driver at any time: the row counts agree whenever verifyTable-
\* Counts compares them.
VerificationPasses == phase # "mismatch"

\* An order whose lines cost something was new once.  doDelivery has reported
\* it if and only if it is not new any more: no order is reported and then
\* delivered again, and none is delivered without a report.
ReportedIffDelivered ==
    \A x \in tOrders : x.amount > 0 => (x \in tReported <=> x \notin tNew)

\* verify.js, consistency check 12, in both databases: a customer's balance and
\* payments make up the amount of the customer's delivered orders.  It needs
\* payments to be local: in Postgres a payment through another warehouse writes
\* the balance of one customer over another's.
BalancesArePaid ==
    /\ TypeOK
    /\ \A k \in CKeys :
        tBalance[k] + tPaid[k] = TotalAmount({x \in tOrders \ tNew : x.c = k})
    /\ \A k \in Customers :
        pBalance[k] + pPaid[k] = TotalAmount({x \in pOrders \ pNew : <<x.w, x.d, x.c>> = k})
============================================================================
