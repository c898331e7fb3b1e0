------------------------------ MODULE AgentRuns ------------------------------
(***************************************************************************)
(* What the framework and the agents of a simulation share: an agent runs  *)
(* once for each partition, and a run performs actionsPerIteration actions *)
(* one after another.                                                      *)
(***************************************************************************)
EXTENDS Integers

CONSTANTS
    NumPartitions,         \* run.partitions
    ActionsPerIteration

ASSUME PartitionsAssumption == NumPartitions \in Nat \ {0}
ASSUME ActionsAssumption    == ActionsPerIteration \in Nat \ {0}

\* In the order of context.partitions, in which their runs are submitted.
Partitions == 1 .. NumPartitions
=============================================================================
