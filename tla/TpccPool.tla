------------------------------ MODULE TpccPool ------------------------------
(***************************************************************************)
(* The multiprocessing pools of tpcc.py: startLoading and startExecution   *)
(* each make one task per client, and main calls them only for more than   *)
(* one.                                                                    *)
(***************************************************************************)
EXTENDS Integers

CONSTANT NumClients    \* --clients

ASSUME ClientsAssumption == NumClients \in Nat \ {0, 1}

Clients == 0 .. NumClients - 1
=============================================================================
