--------------------------- MODULE TpccExecution ---------------------------
(***************************************************************************)
(* The execution phase of the TPC-C harness with several clients:          *)
(* startExecution and executorFunc of tpcc.py, Executor.execute and the    *)
(* Results it fills (util/results.py).                                     *)
(*                                                                         *)
(* Every client runs transactions until the duration is over and counts    *)
(* them twice: in the Results of the whole run, and in those of the        *)
(* current batch, which is shown and replaced every 15 minutes.  main      *)
(* waits for the pool and appends the clients' Results one by one.  Times, *)
(* latencies and retries are left out.                                     *)
(***************************************************************************)
EXTENDS TpccPool, Functions

CONSTANTS
    Types,             \* the transaction types
    None,              \* no transaction
    MaxTransactions    \* bound: transactions of a client in --duration

ASSUME DurationAssumption == MaxTransactions \in Nat
ASSUME NoneAssumption     == None \notin Types

(***************************************************************************)
(* Results.  A type that was never completed has no key in txn_counters.   *)
(***************************************************************************)
Results == [counters : [Types -> Nat], aborts : [Types -> Nat]]

EmptyResults == [counters |-> [t \in Types |-> 0], aborts |-> [t \in Types |-> 0]]

StopTransaction(r, t)  == [r EXCEPT !.counters[t] = @ + 1]
AbortTransaction(r, t) == [r EXCEPT !.aborts[t] = @ + 1]

HasKey(r, t) == r.counters[t] > 0

Sum(r, s) ==
    [counters |-> [t \in Types |-> r.counters[t] + s.counters[t]],
     aborts   |-> [t \in Types |-> r.aborts[t] + s.aborts[t]]]

\* Mutant: a result that replaces what was there.
AppendLast(sofar, r) ==
    [counters |-> [t \in Types |-> r.counters[t]],
     aborts   |-> [t \in Types |-> sofar.aborts[t] + IF HasKey(r, t) THEN r.aborts[t] ELSE 0]]

\* Results.append goes through the keys of r.txn_counters.
AppendResults(sofar, r) ==
    [counters |-> [t \in Types |-> sofar.counters[t] + r.counters[t]],
     aborts   |-> [t \in Types |-> sofar.aborts[t] + IF HasKey(r, t) THEN r.aborts[t] ELSE 0]]

VARIABLES
    stopOnError,   \* --stop-on-error
    pc,        \* pc[i]: where the task of client i is
    txn,       \* txn[i]: the type of the transaction it executes, or None
    started,   \* started[i][t]: transactions of type t it has started
    global,    \* global[i]: global_result
    batch,     \* batch[i]: batch_result
    shown,     \* shown[i]: the batches shown so far, added up
    total,     \* total_results
    merged,    \* results startExecution has appended
    execution  \* where startExecution is

execVars == <<stopOnError, pc, txn, started, global, batch, shown, total, merged, execution>>

mainVars == <<total, merged, execution>>

Executed(i) == SumFunction(started[i])

ExecTypeOK ==
    /\ stopOnError \in BOOLEAN
    /\ pc \in [Clients -> {"queued", "looping", "executing", "done", "raised", "interrupted"}]
    /\ txn \in [Clients -> Types \cup {None}]
    /\ started \in [Clients -> [Types -> Nat]]
    /\ global \in [Clients -> Results]
    /\ batch \in [Clients -> Results]
    /\ shown \in [Clients -> Results]
    /\ total \in Results
    /\ \A i \in Clients : txn[i] # None <=> pc[i] \in {"executing", "interrupted"}
    /\ merged \in 0 .. NumClients
    /\ execution \in {"joining", "merging", "reported", "raised", "exited"}

ExecInit ==
    /\ stopOnError \in BOOLEAN
    /\ pc = [i \in Clients |-> "queued"]
    /\ txn = [i \in Clients |-> None]
    /\ started = [i \in Clients |-> [t \in Types |-> 0]]
    /\ global = [i \in Clients |-> EmptyResults]
    /\ batch = [i \in Clients |-> EmptyResults]
    /\ shown = [i \in Clients |-> EmptyResults]
    /\ total = EmptyResults
    /\ merged = 0
    /\ execution = "joining"

\* A pool process takes the task: driver, loadConfig, executeStart and the
\* first lines of execute; or one of them raises.
TakeTask(i) ==
    /\ pc[i] = "queued"
    /\ \E s \in {"looping", "raised"} : pc' = [pc EXCEPT ![i] = s]
    /\ UNCHANGED <<stopOnError, txn, started, global, batch, shown, mainVars>>

\* doOne, and startTransaction in both Results.
Begin(i) ==
    /\ pc[i] = "looping"
    /\ Executed(i) < MaxTransactions
    /\ \E t \in Types :
          /\ txn' = [txn EXCEPT ![i] = t]
          /\ started' = [started EXCEPT ![i][t] = @ + 1]
    /\ pc' = [pc EXCEPT ![i] = "executing"]
    /\ UNCHANGED <<stopOnError, global, batch, shown, mainVars>>

\* Mutant: the completed transaction goes to the batch that is being replaced
\* after it was shown.
CompletesAfterShowing(i) ==
    /\ pc[i] = "executing"
    /\ global' = [global EXCEPT ![i] = StopTransaction(@, txn[i])]
    /\ \/ /\ batch' = [batch EXCEPT ![i] = StopTransaction(@, txn[i])]
          /\ UNCHANGED shown
       \/ /\ shown' = [shown EXCEPT ![i] = Sum(@, batch[i])]
          /\ batch' = [batch EXCEPT ![i] = EmptyResults]
    /\ txn' = [txn EXCEPT ![i] = None]
    /\ pc' = [pc EXCEPT ![i] = "looping"]
    /\ UNCHANGED <<stopOnError, started, mainVars>>

\* The driver returns a value.  If the batch is old enough it is shown, and a
\* new one begun.
Completes(i) ==
    LET counted == StopTransaction(batch[i], txn[i]) IN
    /\ pc[i] = "executing"
    /\ global' = [global EXCEPT ![i] = StopTransaction(@, txn[i])]
    /\ \/ /\ batch' = [batch EXCEPT ![i] = counted]
          /\ UNCHANGED shown
       \/ /\ shown' = [shown EXCEPT ![i] = Sum(@, counted)]
          /\ batch' = [batch EXCEPT ![i] = EmptyResults]
    /\ txn' = [txn EXCEPT ![i] = None]
    /\ pc' = [pc EXCEPT ![i] = "looping"]
    /\ UNCHANGED <<stopOnError, started, mainVars>>

\* abortTransaction in both Results.
Aborted(i) ==
    /\ global' = [global EXCEPT ![i] = AbortTransaction(@, txn[i])]
    /\ batch' = [batch EXCEPT ![i] = AbortTransaction(@, txn[i])]
    /\ txn' = [txn EXCEPT ![i] = None]

\* The driver returns None: an abort, and "continue".
Aborts(i) ==
    /\ pc[i] = "executing"
    /\ Aborted(i)
    /\ pc' = [pc EXCEPT ![i] = "looping"]
    /\ UNCHANGED <<stopOnError, started, shown, mainVars>>

\* The driver raises: an abort, and "continue", or the end of the task.
Fails(i) ==
    /\ pc[i] = "executing"
    /\ Aborted(i)
    /\ pc' = [pc EXCEPT ![i] = IF stopOnError THEN "raised" ELSE "looping"]
    /\ UNCHANGED <<stopOnError, started, shown, mainVars>>

\* A KeyboardInterrupt in the driver: execute returns -1.
Interrupt(i) ==
    /\ pc[i] = "executing"
    /\ pc' = [pc EXCEPT ![i] = "interrupted"]
    /\ UNCHANGED <<stopOnError, txn, started, global, batch, shown, mainVars>>

\* The duration is over, at the head of the loop.
Finish(i) ==
    /\ pc[i] = "looping"
    /\ pc' = [pc EXCEPT ![i] = "done"]
    /\ UNCHANGED <<stopOnError, txn, started, global, batch, shown, mainVars>>

\* Mutant: only tasks that return end for the pool.
ReturnedOnly(i) == pc[i] \in {"done", "interrupted"}

TaskEnded(i) == pc[i] \in {"done", "raised", "interrupted"}

\* pool.join() returns.
PoolJoin ==
    /\ execution = "joining"
    /\ \A i \in Clients : TaskEnded(i)
    /\ execution' = "merging"
    /\ UNCHANGED <<stopOnError, pc, txn, started, global, batch, shown, total, merged>>

\* Mutant: a result of -1 is skipped.
MergeSkips ==
    /\ execution = "merging"
    /\ merged < NumClients
    /\ merged' = merged + 1
    /\ total' = IF pc[merged] = "done" THEN AppendResults(total, global[merged]) ELSE total
    /\ UNCHANGED <<stopOnError, pc, txn, started, global, batch, shown, execution>>

\* asyncr.get() of the next client: its Results are appended; its exception is
\* raised again; a result of -1 makes main exit with status 1.
Merge ==
    LET i == merged IN
    /\ execution = "merging"
    /\ merged < NumClients
    /\ CASE pc[i] = "done" ->
              /\ total' = AppendResults(total, global[i])
              /\ merged' = merged + 1
              /\ UNCHANGED execution
         [] pc[i] = "raised" ->
              /\ execution' = "raised"
              /\ UNCHANGED <<total, merged>>
         [] pc[i] = "interrupted" ->
              /\ execution' = "exited"
              /\ UNCHANGED <<total, merged>>
    /\ UNCHANGED <<stopOnError, pc, txn, started, global, batch, shown>>

\* startExecution returns, and main shows the results.
Report ==
    /\ execution = "merging"
    /\ merged = NumClients
    /\ execution' = "reported"
    /\ UNCHANGED <<stopOnError, pc, txn, started, global, batch, shown, total, merged>>

ClientStep(i) ==
    \/ TakeTask(i)
    \/ Begin(i)
    \/ Completes(i)
    \/ Aborts(i)
    \/ Fails(i)
    \/ Interrupt(i)
    \/ Finish(i)

MainStep == PoolJoin \/ Merge \/ Report

ExecNext == MainStep \/ \E i \in Clients : ClientStep(i)

ExecSpec == ExecInit /\ [][ExecNext]_execVars

\* Every task of the pool runs in a process of its own, a driver call returns
\* or raises, the duration passes, and main goes on when join() returns.
FairExecSpec == ExecSpec /\ WF_execVars(MainStep) /\ \A i \in Clients : WF_execVars(ClientStep(i))

----------------------------------------------------------------------------
(***************************************************************************)
(* Properties.                                                             *)
(***************************************************************************)

\* The batches a client has shown, and the one it has begun, add up to the
\* Results of its run, whichever way its transactions ended.
BatchesAddUp ==
    /\ ExecTypeOK
    /\ \A i \in Clients, t \in Types :
        /\ shown[i].counters[t] + batch[i].counters[t] = global[i].counters[t]
        /\ shown[i].aborts[t] + batch[i].aborts[t] = global[i].aborts[t]

\* Results are reported only if every client ran to the end of the duration:
\* one exception or interrupt of one client, and there is no report.
ReportNeedsEveryClient ==
    execution = "reported" => \A i \in Clients : pc[i] = "done"

\* What is reported of a type is every transaction of that type started by the
\* clients that completed one.
ReportedWhereCompleted ==
    execution = "reported" =>
        \A t \in Types :
            total.counters[t] + total.aborts[t] =
                SumFunctionOnSet([i \in Clients |-> started[i][t]],
                                 {i \in Clients : global[i].counters[t] > 0})

\* main always gets an answer of the clients.
ExecutionEnds == <>(execution \in {"reported", "raised", "exited"})
============================================================================
