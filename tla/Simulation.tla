----------------------------- MODULE Simulation -----------------------------
(***************************************************************************)
(* The simulation framework (simulation/framework): Simulation.run and     *)
(* iterate, Agent.iterate and run, the thread pool of Context, the shared  *)
(* RandomSource, the sessions of the database client and Runner.run, which *)
(* closes everything at the end.                                           *)
(*                                                                         *)
(* In an iteration the agents of the configuration run one after another.  *)
(* An agent runs once per partition, on the pool, and every run performs   *)
(* actionsPerIteration actions, each with a RandomSource of its own drawn  *)
(* from the one the runs share.                                            *)
(***************************************************************************)
EXTENDS AgentRuns, FiniteSets

CONSTANTS
    NumGroups,            \* keys of the session map (partition.group or .name)
    NumAgents,            \* entries of agentConfigs
    Parallelism,          \* threads of context.executor
    Iterations,           \* iterationMax
    MayFail               \* whether an action handler may throw

ASSUME GroupsAssumption      == NumGroups \in Nat \ {0}
ASSUME AgentsAssumption      == NumAgents \in Nat \ {0}
ASSUME ParallelismAssumption == Parallelism \in Nat \ {0}
ASSUME IterationsAssumption  == Iterations \in Nat \ {0}
ASSUME MayFailAssumption     == MayFail \in BOOLEAN

Agents  == 1 .. NumAgents
Actions == 1 .. ActionsPerIteration

\* The session map's key: partition.group for TypeDB, partition.name for Neo4j.
Group(p) == p % NumGroups

Groups == {Group(p) : p \in Partitions}

None == 0

VARIABLES
    iteration,     \* context.iterationNumber
    agent,         \* the agent whose iterate is running; None between iterations
    pc,            \* pc[p]: where the run of partition p is
    action,        \* action[p]: actions the run of p has finished
    high,          \* high[p]: the first of the two draws of nextLong, or None
    drawn,         \* 32-bit values taken so far from the shared Random
    sources,       \* which draws seeded the source of each action, as records
    reports,       \* partitions whose run has put its report
    agentReports,  \* agentReports[a]: the partitions in a's report map
    sessions,      \* keys of the open sessions
    main           \* the thread in Runner.run

vars == <<iteration, agent, pc, action, high, drawn, sources, reports,
          agentReports, sessions, main>>

runVars == <<pc, action, high>>

States == {"idle", "queued", "nextLong", "handler", "done", "threw"}

\* An action, and the two draws that make the seed of its RandomSource.
Source(i, a, p, k, d1, d2) ==
    [iteration |-> i, agent |-> a, partition |-> p, action |-> k, seed |-> <<d1, d2>>]

TypeOK ==
    /\ iteration \in 1 .. Iterations + 1
    /\ agent \in Agents \cup {None}
    /\ pc \in [Partitions -> States]
    /\ action \in [Partitions -> 0 .. ActionsPerIteration]
    /\ high \in [Partitions -> Nat]
    /\ drawn \in Nat
    /\ sources \subseteq [iteration : 1 .. Iterations, agent : Agents,
                           partition : Partitions, action : Actions,
                           seed : Nat \X Nat]
    /\ reports \subseteq Partitions
    /\ agentReports \in [Agents -> SUBSET Partitions]
    /\ sessions \subseteq Groups
    /\ main \in {"running", "failed", "closed"}

\* Simulation.init has drawn one source for the initial data, whether or not
\* the database is recreated.
Init ==
    /\ iteration = 1
    /\ agent = None
    /\ pc = [p \in Partitions |-> "idle"]
    /\ action = [p \in Partitions |-> 0]
    /\ high = [p \in Partitions |-> None]
    /\ drawn = 2
    /\ sources = {}
    /\ reports = {}
    /\ agentReports = [a \in Agents |-> {}]
    /\ sessions = {}
    /\ main = "running"

\* Agent.iterate submits a run for every partition to the pool.
Submit(a) ==
    /\ agent' = a
    /\ pc' = [p \in Partitions |-> "queued"]
    /\ action' = [p \in Partitions |-> 0]
    /\ reports' = {}
    /\ UNCHANGED high

\* Simulation.iterate: forget the reports, build the agents, start the first.
BeginIteration ==
    /\ main = "running"
    /\ agent = None
    /\ iteration <= Iterations
    /\ agentReports' = [a \in Agents |-> {}]
    /\ Submit(1)
    /\ UNCHANGED <<iteration, drawn, sources, sessions, main>>

\* Mutant: a run that throws keeps its thread.
ThreadsLost(p) == pc[p] \in {"nextLong", "handler", "threw"}

InThread(p) == pc[p] \in {"nextLong", "handler"}

\* A thread of the fixed pool takes the first task of its queue and asks the
\* client for the session of the partition, which opens it if there is none.
StartRun(p) ==
    /\ pc[p] = "queued"
    /\ \A q \in 1 .. p - 1 : pc[q] # "queued"
    /\ Cardinality({q \in Partitions : InThread(q)}) < Parallelism
    /\ sessions' = sessions \cup {Group(p)}
    /\ pc' = [pc EXCEPT ![p] = "nextLong"]
    /\ UNCHANGED <<iteration, agent, action, high, drawn, sources, reports,
                   agentReports, main>>

\* Mutant: a draw that does not advance the shared generator atomically.
DrawStale(p) ==
    /\ pc[p] = "nextLong"
    /\ high[p] = None
    /\ action[p] < ActionsPerIteration
    /\ high' = [high EXCEPT ![p] = drawn + 1]
    /\ UNCHANGED <<iteration, agent, pc, action, drawn, sources, reports,
                   agentReports, sessions, main>>

\* random.nextSource() takes a long from the shared java.util.Random: two
\* atomic draws of 32 bits, between which other threads may draw.
DrawHigh(p) ==
    /\ pc[p] = "nextLong"
    /\ high[p] = None
    /\ action[p] < ActionsPerIteration
    /\ high' = [high EXCEPT ![p] = drawn + 1]
    /\ drawn' = drawn + 1
    /\ UNCHANGED <<iteration, agent, pc, action, sources, reports,
                   agentReports, sessions, main>>

DrawLow(p) ==
    /\ pc[p] = "nextLong"
    /\ high[p] # None
    /\ drawn' = drawn + 1
    /\ sources' = sources \cup
          {Source(iteration, agent, p, action[p] + 1, high[p], drawn + 1)}
    /\ high' = [high EXCEPT ![p] = None]
    /\ pc' = [pc EXCEPT ![p] = "handler"]
    /\ UNCHANGED <<iteration, agent, action, reports, agentReports, sessions, main>>

\* The action handler returns, or throws and ends the run.
HandlerReturns(p) ==
    /\ pc[p] = "handler"
    /\ action' = [action EXCEPT ![p] = @ + 1]
    /\ pc' = [pc EXCEPT ![p] = "nextLong"]
    /\ UNCHANGED <<iteration, agent, high, drawn, sources, reports,
                   agentReports, sessions, main>>

HandlerThrows(p) ==
    /\ MayFail
    /\ pc[p] = "handler"
    /\ pc' = [pc EXCEPT ![p] = "threw"]
    /\ UNCHANGED <<iteration, agent, action, high, drawn, sources, reports,
                   agentReports, sessions, main>>

\* The run has performed its actions and, as the context is reporting, puts its
\* report.
EndRun(p) ==
    /\ pc[p] = "nextLong"
    /\ action[p] = ActionsPerIteration
    /\ reports' = reports \cup {p}
    /\ pc' = [pc EXCEPT ![p] = "done"]
    /\ UNCHANGED <<iteration, agent, action, high, drawn, sources,
                   agentReports, sessions, main>>

\* What iterate does once join() has returned normally.
NextAgent ==
    /\ agentReports' = [agentReports EXCEPT ![agent] = reports]
    /\ IF agent < NumAgents
         THEN /\ Submit(agent + 1)
              /\ UNCHANGED iteration
         ELSE /\ agent' = None
              /\ iteration' = iteration + 1
              /\ pc' = [p \in Partitions |-> "idle"]
              /\ UNCHANGED <<action, high, reports>>
    /\ UNCHANGED <<drawn, sources, sessions, main>>

\* Mutant: anyOf in place of allOf.
JoinAny ==
    /\ agent # None
    /\ main = "running"
    /\ \E p \in Partitions : pc[p] = "done"
    /\ NextAgent

\* allOf(...).join(): every run has ended.  Then the next agent's turn comes,
\* or the next iteration's.
Join ==
    /\ agent # None
    /\ main = "running"
    /\ \A p \in Partitions : pc[p] = "done"
    /\ NextAgent

\* Mutant: the join gives up at the first exception.
JoinFailsFast ==
    /\ agent # None
    /\ main = "running"
    /\ \E p \in Partitions : pc[p] = "threw"
    /\ main' = "failed"
    /\ UNCHANGED <<iteration, agent, runVars, drawn, sources, reports,
                   agentReports, sessions>>

\* allOf waits for every run even when one has failed; join() then throws out
\* of Agent.iterate, Simulation.iterate and Simulation.run.
JoinThrows ==
    /\ agent # None
    /\ main = "running"
    /\ \A p \in Partitions : pc[p] \in {"done", "threw"}
    /\ \E p \in Partitions : pc[p] = "threw"
    /\ main' = "failed"
    /\ UNCHANGED <<iteration, agent, runVars, drawn, sources, reports,
                   agentReports, sessions>>

\* Runner.run: use {} closes the client with its sessions and the executor,
\* after the last iteration or on the way out of an exception.
Close ==
    /\ \/ main = "failed"
       \/ main = "running" /\ agent = None /\ iteration > Iterations
    /\ main' = "closed"
    /\ sessions' = {}
    /\ UNCHANGED <<iteration, agent, runVars, drawn, sources, reports, agentReports>>

RunStep(p) ==
    \/ StartRun(p)
    \/ DrawHigh(p)
    \/ DrawLow(p)
    \/ HandlerReturns(p)
    \/ HandlerThrows(p)
    \/ EndRun(p)

MainStep == BeginIteration \/ Join \/ JoinThrows \/ Close

Next == MainStep \/ \E p \in Partitions : RunStep(p)

Spec == Init /\ [][Next]_vars

\* The main thread runs until it blocks in join(); a pool thread finishes the
\* run it has and then takes the next task of the queue.
FairSpec == Spec /\ WF_vars(MainStep) /\ \A p \in Partitions : WF_vars(RunStep(p))

----------------------------------------------------------------------------
(***************************************************************************)
(* Properties.                                                             *)
(***************************************************************************)

\* An iteration ends with a report of every agent for every partition, and of
\* this iteration only: needs the clear, the join and the order of the agents.
ReportsComplete ==
    [][iteration' # iteration => \A a \in Agents : agentReports'[a] = Partitions]_vars

\* No two actions share a draw of the common generator, whatever the threads do
\* between the two draws of a seed: the streams of the actions stay different.
DrawsAreNotShared ==
    \A s, t \in sources :
        s # t => {s.seed[1], s.seed[2]} \cap {t.seed[1], t.seed[2]} = {}

\* Runner.run's close never pulls a session from under a handler, and a handler
\* always has the session of its partition.
HandlersHaveSessions ==
    \A p \in Partitions : InThread(p) => Group(p) \in sessions

\* The draws that action k of agent a's run of partition p gets when the runs
\* happen one after another in the order of the partitions.
SequentialDraw(s) ==
    2 + 2 * ((((s.iteration - 1) * NumAgents + s.agent - 1) * NumPartitions
                + s.partition - 1) * ActionsPerIteration + s.action - 1)

\* What Agent.kt's comment asks for ("generate pairs of Partition and Random
\* deterministically"): an action's randomness depends on its place in the
\* simulation, and not on the schedule.
DeterministicSources ==
    \A s \in sources : s.seed = <<SequentialDraw(s) + 1, SequentialDraw(s) + 2>>

\* The draws taken before the turn of agent a in iteration i.
FirstDraw(i, a) ==
    2 + 2 * ((i - 1) * NumAgents + a - 1) * NumPartitions * ActionsPerIteration

\* The draws of the agents do not mix: in iteration i agent a takes its sources
\* from a block of the stream that the schedule does not change, because join()
\* lets no run draw after the turn of its agent, and none is left out.
DrawsStayInBlock ==
    \A s \in sources : \A d \in {s.seed[1], s.seed[2]} :
        d - FirstDraw(s.iteration, s.agent) \in 1 .. 2 * NumPartitions * ActionsPerIteration

\* The simulation ends, by its last iteration or by an exception, and closes.
SimulationEnds == <>(main = "closed")
============================================================================
