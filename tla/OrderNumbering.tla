--------------------------- MODULE OrderNumbering ---------------------------
(***************************************************************************)
(* What every driver owes the order numbers of TPC-C, however it stores    *)
(* and protects them: doNewOrder gives the orders of a district the        *)
(* numbers 1, 2, 3 and so on (D_NEXT_O_ID being the next), every order is  *)
(* new until doDelivery takes it, and a delivery takes at most one new     *)
(* order of a district.                                                    *)
(***************************************************************************)
EXTENDS Integers

CONSTANT Districts

VARIABLES
    next,         \* D_NEXT_O_ID of each district
    orders,       \* numbers of the orders of each district
    undelivered   \* those of them that are still new

vars == <<next, orders, undelivered>>

Init ==
    /\ next \in [Districts -> Nat \ {0}]
    /\ orders = [d \in Districts |-> 1 .. next[d] - 1]
    /\ undelivered \in [Districts -> SUBSET Nat]
    /\ \A d \in Districts : undelivered[d] \subseteq orders[d]

Place(d) ==
    /\ next' = [next EXCEPT ![d] = @ + 1]
    /\ orders' = [orders EXCEPT ![d] = @ \cup {next[d]}]
    /\ undelivered' = [undelivered EXCEPT ![d] = @ \cup {next[d]}]

Deliver ==
    /\ undelivered' \in [Districts -> SUBSET Nat]
    /\ \A d \in Districts :
          /\ undelivered'[d] \subseteq undelivered[d]
          /\ \A o, p \in undelivered[d] \ undelivered'[d] : o = p
    /\ UNCHANGED <<next, orders>>

Next == Deliver \/ \E d \in Districts : Place(d)

Spec == Init /\ [][Next]_vars
============================================================================
