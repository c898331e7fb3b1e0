------------------------- MODULE Simulation_proofs -------------------------
(***************************************************************************)
(* The framework and the agents of the read-write simulation.              *)
(*                                                                         *)
(* The framework of Simulation, for any number of partitions, agents,      *)
(* threads and iterations: the actions' random streams never share a draw  *)
(* of the common generator, an agent draws from a block of its own, and no *)
(* handler runs without its session.                                       *)
(*                                                                         *)
(* The agents of PersonAgent, for any number of partitions, iterations and *)
(* actions, and any order of agents unless a theorem names one: what       *)
(* deletePersons takes with it, and whom it never takes.                   *)
(***************************************************************************)
EXTENDS Simulation, PersonAgent, SumFacts, SequenceTheorems

\* The draws taken so far are 1..drawn, and each has one owner: the source it
\* seeds, or the run that waits for the second half of its seed.
DrawsOwned ==
    /\ \A s \in sources : s.seed[1] <= drawn /\ s.seed[2] <= drawn
    /\ \A p \in Partitions : high[p] <= drawn
    /\ \A p \in Partitions, s \in sources :
          high[p] # None => high[p] # s.seed[1] /\ high[p] # s.seed[2]
    /\ \A p, q \in Partitions : p # q /\ high[p] # None => high[p] # high[q]
    /\ DrawsAreNotShared

\* Nothing is on the pool between iterations and once main has left the loop.
PoolIdle ==
    /\ agent = None => \A p \in Partitions : pc[p] = "idle"
    /\ main # "running" => \A p \in Partitions : pc[p] \in {"idle", "done", "threw"}
    /\ agent # None => iteration <= Iterations

\* A run draws and handles only as long as it has actions left.
RunsBounded ==
    \A p \in Partitions :
        /\ high[p] # None => pc[p] = "nextLong" /\ action[p] < ActionsPerIteration
        /\ pc[p] = "handler" => action[p] < ActionsPerIteration

IInv == TypeOK /\ PoolIdle /\ RunsBounded /\ DrawsOwned /\ HandlersHaveSessions

-----------------------------------------------------------------------------
\* The invariant holds when the simulation starts.
LEMMA InitIInv == Init => IInv
PROOF
  <1> SUFFICES ASSUME Init PROVE IInv
    OBVIOUS
  <1>1. TypeOK
    BY IterationsAssumption, ActionsAssumption, SMT DEF Init, TypeOK, States, None
  <1>2. PoolIdle
    BY IterationsAssumption DEF Init, PoolIdle
  <1>3. DrawsOwned /\ RunsBounded
    BY SMT DEF Init, DrawsOwned, DrawsAreNotShared, RunsBounded, None
  <1>4. HandlersHaveSessions
    BY DEF Init, HandlersHaveSessions, InThread
  <1> QED  BY <1>1, <1>2, <1>3, <1>4 DEF IInv

\* What Submit leaves: a well-typed pool with nothing running.
LEMMA SubmitIdle ==
    ASSUME TypeOK, NEW a \in Agents, Submit(a)
    PROVE  /\ agent' \in Agents
           /\ pc' \in [Partitions -> States]
           /\ action' \in [Partitions -> 0 .. ActionsPerIteration]
           /\ reports' = {}
           /\ high' = high
           /\ \A p \in Partitions : ~ InThread(p)'
  BY ActionsAssumption, SMT DEF TypeOK, Submit, States, InThread

\* Every step keeps the types.
LEMMA NextTypeOK ==
    ASSUME IInv, [Next]_vars
    PROVE  TypeOK'
PROOF
  <1> USE DEF IInv, TypeOK
  <1>1. CASE BeginIteration
    <2>1. 1 \in Agents
      BY AgentsAssumption, SMT DEF Agents
    <2> QED  BY <1>1, <2>1, SubmitIdle DEF BeginIteration
  <1>2. CASE Join
    <2>1. agent \in Agents /\ iteration <= Iterations
      BY <1>2 DEF Join, PoolIdle
    <2>2. agentReports' \in [Agents -> SUBSET Partitions]
      BY <1>2 DEF Join, NextAgent
    <2>3. CASE agent < NumAgents
      <3>1. agent + 1 \in Agents
        BY <2>1, <2>3, AgentsAssumption, SMT DEF Agents
      <3> QED  BY <1>2, <2>2, <2>3, <3>1, SubmitIdle DEF Join, NextAgent
    <2>4. CASE ~ agent < NumAgents
      <3>1. iteration + 1 \in 1 .. Iterations + 1
        BY <2>1, IterationsAssumption, SMT
      <3> QED  BY <1>2, <2>2, <2>4, <3>1 DEF Join, NextAgent, States
    <2> QED  BY <2>3, <2>4
  <1>3. CASE JoinThrows
    BY <1>3 DEF JoinThrows, runVars
  <1>4. CASE Close
    BY <1>4 DEF Close, runVars
  <1>5. ASSUME NEW p \in Partitions, StartRun(p) PROVE TypeOK'
    BY <1>5 DEF StartRun, States, Groups
  <1>6. ASSUME NEW p \in Partitions, DrawHigh(p) PROVE TypeOK'
    BY <1>6, SMT DEF DrawHigh
  <1>7. ASSUME NEW p \in Partitions, DrawLow(p) PROVE TypeOK'
    <2>1. action[p] + 1 \in Actions
      BY <1>7, ActionsAssumption, SMT DEF DrawLow, Actions, RunsBounded
    <2>2. agent \in Agents /\ iteration \in 1 .. Iterations
      <3>1. pc[p] = "nextLong"
        BY <1>7 DEF DrawLow
      <3>2. agent # None /\ iteration <= Iterations
        BY <3>1 DEF PoolIdle
      <3> QED  BY <3>2, IterationsAssumption, SMT
    <2>3. Source(iteration, agent, p, action[p] + 1, high[p], drawn + 1)
            \in [iteration : 1 .. Iterations, agent : Agents, partition : Partitions,
                 action : Actions, seed : Nat \X Nat]
      BY <2>1, <2>2, SMT DEF Source
    <2> QED  BY <1>7, <2>3, SMT DEF DrawLow, States, None
  <1>8. ASSUME NEW p \in Partitions, HandlerReturns(p) PROVE TypeOK'
    <2>1. action[p] + 1 \in 0 .. ActionsPerIteration
      BY <1>8, ActionsAssumption, SMT DEF HandlerReturns, RunsBounded
    <2> QED  BY <1>8, <2>1 DEF HandlerReturns, States
  <1>9. ASSUME NEW p \in Partitions, HandlerThrows(p) PROVE TypeOK'
    BY <1>9 DEF HandlerThrows, States
  <1>10. ASSUME NEW p \in Partitions, EndRun(p) PROVE TypeOK'
    BY <1>10 DEF EndRun, States
  <1>11. CASE UNCHANGED vars
    BY <1>11 DEF vars
  <1> QED
    BY <1>1, <1>2, <1>3, <1>4, <1>5, <1>6, <1>7, <1>8, <1>9, <1>10, <1>11
    DEF Next, MainStep, RunStep

\* The pool is idle where it should be, and runs stay within their actions.
LEMMA NextPool ==
    ASSUME IInv, TypeOK', [Next]_vars
    PROVE  PoolIdle' /\ RunsBounded'
PROOF
  <1> USE DEF IInv
  <1> DEFINE Goal == PoolIdle' /\ RunsBounded'
  <1>1. CASE BeginIteration
    <2>1. agent' # None /\ main' = "running" /\ iteration' <= Iterations
      BY <1>1, SMT DEF BeginIteration, Submit, None
    <2>2. \A p \in Partitions : high'[p] = None
      BY <1>1 DEF BeginIteration, Submit, RunsBounded, PoolIdle
    <2> QED  BY <1>1, <2>1, <2>2 DEF PoolIdle, RunsBounded, BeginIteration, Submit
  <1>2. CASE Join
    <2>1. \A p \in Partitions : high'[p] = None
      BY <1>2 DEF Join, NextAgent, Submit, RunsBounded
    <2>2. main' = "running" /\ \A p \in Partitions : pc'[p] # "handler"
      BY <1>2 DEF Join, NextAgent, Submit
    <2>3. CASE agent < NumAgents
      <3>1. agent' # None /\ iteration' <= Iterations
        BY <1>2, <2>3, AgentsAssumption, SMT
        DEF Join, NextAgent, Submit, PoolIdle, TypeOK, None, Agents
      <3> QED  BY <2>1, <2>2, <3>1 DEF PoolIdle, RunsBounded
    <2>4. CASE ~ agent < NumAgents
      <3>1. agent' = None /\ \A p \in Partitions : pc'[p] = "idle"
        BY <1>2, <2>4 DEF Join, NextAgent
      <3> QED  BY <2>1, <2>2, <3>1 DEF PoolIdle, RunsBounded
    <2> QED  BY <2>3, <2>4
  <1>3. CASE JoinThrows
    BY <1>3 DEF JoinThrows, runVars, PoolIdle, RunsBounded
  <1>4. CASE Close
    BY <1>4 DEF Close, runVars, PoolIdle, RunsBounded
  <1>5. ASSUME NEW p \in Partitions, StartRun(p) PROVE Goal
    BY <1>5 DEF StartRun, PoolIdle, RunsBounded, TypeOK
  <1>6. ASSUME NEW p \in Partitions, DrawHigh(p) PROVE Goal
    BY <1>6 DEF DrawHigh, PoolIdle, RunsBounded, TypeOK
  <1>7. ASSUME NEW p \in Partitions, DrawLow(p) PROVE Goal
    BY <1>7 DEF DrawLow, PoolIdle, RunsBounded, TypeOK
  <1>8. ASSUME NEW p \in Partitions, HandlerReturns(p) PROVE Goal
    <2>1. high[p] = None
      BY <1>8 DEF HandlerReturns, RunsBounded
    <2> QED  BY <1>8, <2>1 DEF HandlerReturns, PoolIdle, RunsBounded, TypeOK
  <1>9. ASSUME NEW p \in Partitions, HandlerThrows(p) PROVE Goal
    <2>1. high[p] = None
      BY <1>9 DEF HandlerThrows, RunsBounded
    <2> QED  BY <1>9, <2>1 DEF HandlerThrows, PoolIdle, RunsBounded, TypeOK
  <1>10. ASSUME NEW p \in Partitions, EndRun(p) PROVE Goal
    <2>1. high[p] = None
      BY <1>10, ActionsAssumption, SMT DEF EndRun, RunsBounded
    <2> QED  BY <1>10, <2>1 DEF EndRun, PoolIdle, RunsBounded, TypeOK
  <1>11. CASE UNCHANGED vars
    BY <1>11 DEF vars, PoolIdle, RunsBounded
  <1> QED
    BY <1>1, <1>2, <1>3, <1>4, <1>5, <1>6, <1>7, <1>8, <1>9, <1>10, <1>11
    DEF Next, MainStep, RunStep

\* A step that draws nothing keeps the owners of the draws.
LEMMA NextDraws ==
    ASSUME IInv, TypeOK', [Next]_vars
    PROVE  DrawsOwned'
PROOF
  <1> USE DEF IInv
  <1>1. ASSUME UNCHANGED <<drawn, sources, high>> PROVE DrawsOwned'
    BY <1>1 DEF DrawsOwned, DrawsAreNotShared
  <1>2. ASSUME NEW p \in Partitions, DrawHigh(p) PROVE DrawsOwned'
    <2>1. /\ drawn' = drawn + 1 /\ sources' = sources
          /\ high' = [high EXCEPT ![p] = drawn + 1]
      BY <1>2 DEF DrawHigh
    <2>2. /\ \A s \in sources : s.seed[1] \in Nat /\ s.seed[2] \in Nat
          /\ drawn \in Nat /\ high \in [Partitions -> Nat]
      BY DEF TypeOK
    <2> QED  BY <2>1, <2>2, SMT DEF DrawsOwned, DrawsAreNotShared
  <1>3. ASSUME NEW p \in Partitions, DrawLow(p) PROVE DrawsOwned'
    <2> DEFINE new == Source(iteration, agent, p, action[p] + 1, high[p], drawn + 1)
    <2>1. /\ drawn' = drawn + 1 /\ sources' = sources \cup {new}
          /\ high' = [high EXCEPT ![p] = None] /\ high[p] # None
      BY <1>3 DEF DrawLow
    <2>2. /\ \A s \in sources : s.seed[1] \in Nat /\ s.seed[2] \in Nat
          /\ drawn \in Nat /\ high \in [Partitions -> Nat]
      BY DEF TypeOK
    <2>3. new.seed[1] = high[p] /\ new.seed[2] = drawn + 1
      BY DEF Source
    <2> HIDE DEF new
    <2>4. \A s \in sources :
            /\ s.seed[1] <= drawn /\ s.seed[2] <= drawn
            /\ high[p] # s.seed[1] /\ high[p] # s.seed[2]
      BY <2>1 DEF DrawsOwned
    <2>5. DrawsAreNotShared'
      BY <2>1, <2>2, <2>3, <2>4, SMT DEF DrawsOwned, DrawsAreNotShared
    <2>6. /\ \A s \in sources' : s.seed[1] <= drawn' /\ s.seed[2] <= drawn'
          /\ \A q \in Partitions : high'[q] <= drawn'
      BY <2>1, <2>2, <2>3, <2>4, SMT DEF DrawsOwned, None
    <2>7. \A q \in Partitions, s \in sources' :
            high'[q] # None => high'[q] # s.seed[1] /\ high'[q] # s.seed[2]
      BY <2>1, <2>2, <2>3, SMT DEF DrawsOwned, None
    <2>8. \A q, r \in Partitions : q # r /\ high'[q] # None => high'[q] # high'[r]
      BY <2>1, <2>2, SMT DEF DrawsOwned, None
    <2> QED  BY <2>5, <2>6, <2>7, <2>8 DEF DrawsOwned
  <1>4. ASSUME NEW p \in Partitions,
               StartRun(p) \/ HandlerReturns(p) \/ HandlerThrows(p) \/ EndRun(p)
        PROVE  UNCHANGED <<drawn, sources, high>>
    BY <1>4 DEF StartRun, HandlerReturns, HandlerThrows, EndRun
  <1>5. ASSUME MainStep PROVE UNCHANGED <<drawn, sources, high>>
    BY <1>5 DEF MainStep, BeginIteration, Join, NextAgent, JoinThrows, Close, Submit, runVars
  <1> QED
    BY <1>1, <1>2, <1>3, <1>4, <1>5 DEF Next, RunStep, vars

\* Only close takes sessions away, and then nothing runs.
LEMMA NextSessions ==
    ASSUME IInv, TypeOK', [Next]_vars
    PROVE  HandlersHaveSessions'
PROOF
  <1> USE DEF IInv, HandlersHaveSessions, InThread
  <1>1. CASE BeginIteration
    BY <1>1 DEF BeginIteration, Submit
  <1>2. CASE Join
    BY <1>2 DEF Join, NextAgent, Submit
  <1>3. CASE JoinThrows
    BY <1>3 DEF JoinThrows, runVars
  <1>4. CASE Close
    <2>1. \A p \in Partitions : pc[p] \in {"idle", "done", "threw"}
      BY <1>4 DEF Close, PoolIdle
    <2> QED  BY <1>4, <2>1 DEF Close, runVars
  <1>5. ASSUME NEW p \in Partitions, StartRun(p) PROVE HandlersHaveSessions'
    BY <1>5 DEF StartRun, TypeOK
  <1>6. ASSUME NEW p \in Partitions, DrawHigh(p) \/ DrawLow(p) PROVE HandlersHaveSessions'
    BY <1>6 DEF DrawHigh, DrawLow, TypeOK
  <1>7. ASSUME NEW p \in Partitions, HandlerReturns(p) \/ HandlerThrows(p) \/ EndRun(p)
        PROVE  HandlersHaveSessions'
    BY <1>7 DEF HandlerReturns, HandlerThrows, EndRun, TypeOK
  <1>8. CASE UNCHANGED vars
    BY <1>8 DEF vars
  <1> QED
    BY <1>1, <1>2, <1>3, <1>4, <1>5, <1>6, <1>7, <1>8 DEF Next, MainStep, RunStep

-----------------------------------------------------------------------------
\* What the pool, the draws and the sessions look like, for any number of threads
\* (Simulation.kt:76-89, Agent.kt:55-107, RandomSource.kt:29-35).
THEOREM SimulationInvariant == Spec => []IInv
PROOF
  <1>1. Init => IInv
    BY InitIInv
  <1>2. IInv /\ [Next]_vars => IInv'
    BY NextTypeOK, NextPool, NextDraws, NextSessions DEF IInv
  <1> QED  BY <1>1, <1>2, PTL DEF Spec

\* TypeOK, for every configuration of the simulation.
THEOREM TypeCorrect == Spec => []TypeOK
PROOF
  <1>1. IInv => TypeOK
    BY DEF IInv
  <1> QED  BY <1>1, SimulationInvariant, PTL

\* Whatever the threads do between the two halves of a seed, no draw of the
\* shared generator seeds two sources.
THEOREM StreamsDisjoint == Spec => []DrawsAreNotShared
PROOF
  <1>1. IInv => DrawsAreNotShared
    BY DEF IInv, DrawsOwned
  <1> QED  BY <1>1, SimulationInvariant, PTL

\* No session is closed while a handler may be using it, failures included.
THEOREM SessionsOutliveHandlers == Spec => []HandlersHaveSessions
PROOF
  <1>1. IInv => HandlersHaveSessions
    BY DEF IInv
  <1> QED  BY <1>1, SimulationInvariant, PTL

-----------------------------------------------------------------------------
(***************************************************************************)
(* The reports of an iteration.                                            *)
(***************************************************************************)

\* The agents that have had their turn in this iteration have the reports of all
\* partitions, and a run that is done has put its own.
ReportsSoFar ==
    agent # None =>
        /\ \A a \in Agents : a < agent => agentReports[a] = Partitions
        /\ \A p \in Partitions : pc[p] = "done" => p \in reports

\* Every step keeps the reports of the agents that have had their turn.
LEMMA NextReports ==
    ASSUME TypeOK, TypeOK', ReportsSoFar, [Next]_vars
    PROVE  ReportsSoFar'
PROOF
  <1> USE DEF ReportsSoFar, TypeOK
  <1>1. CASE BeginIteration
    BY <1>1, SMT DEF BeginIteration, Submit, Agents
  <1>2. CASE Join
    <2>1. /\ agent # None /\ agent \in Agents
          /\ \A p \in Partitions : p \in reports
          /\ agentReports' = [agentReports EXCEPT ![agent] = reports]
      BY <1>2 DEF Join, NextAgent
    <2>2. reports = Partitions
      BY <2>1
    <2>3. CASE agent < NumAgents
      <3>1. agent' = agent + 1 /\ pc' = [p \in Partitions |-> "queued"]
        BY <1>2, <2>3 DEF Join, NextAgent, Submit
      <3>2. \A a \in Agents : a < agent + 1 => a < agent \/ a = agent
        BY <2>1, SMT DEF Agents
      <3> QED  BY <2>1, <2>2, <3>1, <3>2
    <2>4. CASE ~ agent < NumAgents
      BY <1>2, <2>4 DEF Join, NextAgent
    <2> QED  BY <2>3, <2>4
  <1>3. CASE JoinThrows
    BY <1>3 DEF JoinThrows, runVars
  <1>4. CASE Close
    BY <1>4 DEF Close, runVars
  <1>5. ASSUME NEW p \in Partitions,
               StartRun(p) \/ DrawHigh(p) \/ DrawLow(p) \/ HandlerReturns(p) \/ HandlerThrows(p)
        PROVE  ReportsSoFar'
    BY <1>5 DEF StartRun, DrawHigh, DrawLow, HandlerReturns, HandlerThrows
  <1>6. ASSUME NEW p \in Partitions, EndRun(p) PROVE ReportsSoFar'
    BY <1>6 DEF EndRun
  <1>7. CASE UNCHANGED vars
    BY <1>7 DEF vars
  <1> QED  BY <1>1, <1>2, <1>3, <1>4, <1>5, <1>6, <1>7 DEF Next, MainStep, RunStep

\* An iteration ends only after the last agent's turn, which leaves the reports of
\* all agents for all partitions (Simulation.kt:78-88, Agent.kt:63-78).
THEOREM NoReportMissing == Spec => ReportsComplete
PROOF
  <1>1. Init => ReportsSoFar
    BY DEF Init, ReportsSoFar
  <1>2. TypeOK /\ TypeOK' /\ ReportsSoFar /\ [Next]_vars => ReportsSoFar'
    BY NextReports
  <1>3. ASSUME TypeOK, ReportsSoFar, [Next]_vars
        PROVE  [iteration' # iteration => \A a \in Agents : agentReports'[a] = Partitions]_vars
    <2> SUFFICES ASSUME iteration' # iteration
                 PROVE  \A a \in Agents : agentReports'[a] = Partitions
      OBVIOUS
    <2>1. Join /\ ~ agent < NumAgents
      BY <1>3 DEF Next, MainStep, RunStep, BeginIteration, Join, NextAgent, JoinThrows, Close,
                  StartRun, DrawHigh, DrawLow, HandlerReturns, HandlerThrows, EndRun, vars
    <2>2. /\ agent \in Agents /\ reports = Partitions
          /\ agentReports' = [agentReports EXCEPT ![agent] = reports]
      BY <1>3, <2>1 DEF Join, NextAgent, TypeOK, ReportsSoFar
    <2>3. \A a \in Agents : a < agent \/ a = agent
      BY <2>1, <2>2, AgentsAssumption, SMT DEF Agents
    <2> QED  BY <1>3, <2>1, <2>2, <2>3 DEF Join, TypeOK, ReportsSoFar
  <1> QED  BY <1>1, <1>2, <1>3, TypeCorrect, PTL DEF Spec, ReportsComplete

-----------------------------------------------------------------------------
(***************************************************************************)
(* The blocks of the common generator.                                     *)
(***************************************************************************)
Block == 2 * NumPartitions * ActionsPerIteration

\* What the run of partition p has drawn in the turn of its agent, and all have.
DrawsOf(p) ==
    2 * action[p] + (CASE pc[p] \in {"handler", "threw"} -> 2
                       [] high[p] # None -> 1
                       [] OTHER -> 0)

Taken == SumFunctionOnSet([p \in Partitions |-> DrawsOf(p)], Partitions)

\* In its turn a run begins with nothing drawn and is done when all is drawn.
TurnOK(p) ==
    /\ pc[p] \in {"idle", "queued"} => action[p] = 0
    /\ pc[p] = "done" => action[p] = ActionsPerIteration
    /\ pc[p] \in {"handler", "threw"} => action[p] < ActionsPerIteration

\* What is drawn is what earlier turns have, which is all of their blocks, and
\* what the runs of this turn have so far.
BlocksInv ==
    /\ agent = None => drawn = FirstDraw(iteration, 1)
    /\ agent # None =>
          /\ drawn = FirstDraw(iteration, agent) + Taken
          /\ \A p \in Partitions :
                /\ TurnOK(p)
                /\ high[p] # None => high[p] > FirstDraw(iteration, agent)
    /\ DrawsStayInBlock

\* There are NumPartitions of them.
LEMMA PartitionsFinite == IsFiniteSet(Partitions) /\ Cardinality(Partitions) = NumPartitions
PROOF BY FS_Interval, PartitionsAssumption DEF Partitions

\* The block of an agent ends where the next agent's begins, the last one's where
\* the next iteration begins.
LEMMA NextBlock ==
    ASSUME NEW i \in Nat, NEW a \in Nat
    PROVE  /\ FirstDraw(i, a) \in Int
           /\ Block \in Nat
           /\ FirstDraw(i, a + 1) = FirstDraw(i, a) + Block
           /\ FirstDraw(i + 1, 1) = FirstDraw(i, NumAgents) + Block
PROOF
  <1> DEFINE n == NumPartitions
             k == ActionsPerIteration
             x == (i - 1) * NumAgents + a - 1
             y == (i - 1) * NumAgents + NumAgents - 1
  <1>1. n \in Nat /\ k \in Nat /\ NumAgents \in Nat /\ x \in Int /\ y \in Int
    BY PartitionsAssumption, ActionsAssumption, AgentsAssumption
  <1>2. ASSUME NEW z \in Int
        PROVE  /\ 2 + 2 * z * n * k \in Int
               /\ 2 + 2 * (z + 1) * n * k = (2 + 2 * z * n * k) + 2 * n * k
    <2> HIDE DEF n, k
    <2> QED  BY <1>1
  <1>3. (i - 1) * NumAgents + (a + 1) - 1 = x + 1
    BY <1>1
  <1>4. ((i + 1) - 1) * NumAgents + 1 - 1 = y + 1
    BY <1>1
  <1>5. 2 * n * k \in Nat
    <2> HIDE DEF n, k
    <2> QED  BY <1>1
  <1> HIDE DEF x, y
  <1> QED  BY <1>1, <1>2, <1>3, <1>4, <1>5 DEF FirstDraw, Block, x, y

\* A run draws at most two values for each of its actions.
LEMMA DrawsType ==
    ASSUME IInv, \A p \in Partitions : TurnOK(p), NEW p \in Partitions
    PROVE  DrawsOf(p) \in 0 .. 2 * ActionsPerIteration
PROOF
  <1>1. action[p] \in 0 .. ActionsPerIteration
    BY DEF IInv, TypeOK
  <1>2. /\ pc[p] \in {"handler", "threw"} => action[p] < ActionsPerIteration
        /\ high[p] # None => action[p] < ActionsPerIteration
    BY DEF IInv, RunsBounded, TurnOK
  <1> QED  BY <1>1, <1>2, ActionsAssumption DEF DrawsOf

\* So all of them draw no more than a block.
LEMMA TakenType ==
    ASSUME IInv, \A p \in Partitions : TurnOK(p)
    PROVE  Taken \in 0 .. Block
PROOF
  <1> DEFINE f == [p \in Partitions |-> DrawsOf(p)]
             m == 2 * ActionsPerIteration
  <1>1. m \in Nat /\ NumPartitions \in Nat
    BY ActionsAssumption, PartitionsAssumption
  <1>2. \A p \in Partitions : f[p] \in Int /\ 0 <= f[p] /\ f[p] <= m
    BY <1>1, DrawsType
  <1> HIDE DEF f
  <1>3. /\ NumPartitions * 0 <= SumFunctionOnSet(f, Partitions)
        /\ SumFunctionOnSet(f, Partitions) <= NumPartitions * m
    <2> DEFINE z == 0
    <2>1. z \in Int /\ m \in Int /\ \A p \in Partitions : f[p] \in Int /\ z <= f[p] /\ f[p] <= m
      BY <1>1, <1>2
    <2> HIDE DEF m, z
    <2>2. /\ NumPartitions * z <= SumFunctionOnSet(f, Partitions)
          /\ SumFunctionOnSet(f, Partitions) <= NumPartitions * m
      BY <2>1, PartitionsFinite, SumBounds
    <2> QED  BY <2>2 DEF z
  <1>4. SumFunctionOnSet(f, Partitions) \in Int
    BY <1>2, PartitionsFinite, SumType
  <1>5. NumPartitions * m = Block
    BY ActionsAssumption, PartitionsAssumption DEF Block
  <1>6. NumPartitions * 0 = 0
    BY <1>1
  <1> QED  BY <1>3, <1>4, <1>5, <1>6 DEF Taken, f

\* When all are done they have drawn a block.
LEMMA TakenAll ==
    ASSUME IInv, \A p \in Partitions : TurnOK(p) /\ pc[p] = "done"
    PROVE  Taken = Block
PROOF
  <1> DEFINE f == [p \in Partitions |-> DrawsOf(p)]
             m == 2 * ActionsPerIteration
  <1>1. m \in Nat /\ NumPartitions \in Nat
    BY ActionsAssumption, PartitionsAssumption
  <1>2. ASSUME NEW p \in Partitions PROVE f[p] = m
    <2>1. high[p] = None /\ action[p] = ActionsPerIteration /\ pc[p] = "done"
      BY DEF IInv, RunsBounded, TurnOK
    <2> QED  BY <2>1, ActionsAssumption DEF DrawsOf
  <1>3. \A p \in Partitions : f[p] \in Int /\ m <= f[p] /\ f[p] <= m
    BY <1>1, <1>2
  <1> HIDE DEF f
  <1>4. /\ NumPartitions * m <= SumFunctionOnSet(f, Partitions)
        /\ SumFunctionOnSet(f, Partitions) <= NumPartitions * m
    <2> HIDE DEF m
    <2> QED  BY <1>1, <1>3, PartitionsFinite, SumBounds
  <1>5. SumFunctionOnSet(f, Partitions) \in Int
    BY <1>3, PartitionsFinite, SumType
  <1>6. NumPartitions * m = Block /\ Block \in Int
    BY ActionsAssumption, PartitionsAssumption, NextBlock DEF Block
  <1> QED  BY <1>4, <1>5, <1>6 DEF Taken, f

\* When none has begun they have drawn nothing.
LEMMA TakenNothing ==
    ASSUME \A p \in Partitions : action[p] = 0 /\ pc[p] = "queued" /\ high[p] = None
    PROVE  Taken = 0
PROOF
  <1> DEFINE f == [p \in Partitions |-> DrawsOf(p)]
  <1>1. \A p \in Partitions : f[p] = 0
    BY DEF DrawsOf
  <1> HIDE DEF f
  <1>2. SumFunctionOnSet(f, Partitions) = 0
    BY <1>1, PartitionsFinite, SumZero
  <1> QED  BY <1>2 DEF Taken, f

\* The same after a step.
LEMMA TakenNothingNext ==
    (\A p \in Partitions : action[p] = 0 /\ pc[p] = "queued" /\ high[p] = None)'
        => (Taken = 0)'
PROOF
  <1>1. (\A p \in Partitions : action[p] = 0 /\ pc[p] = "queued" /\ high[p] = None)
            => Taken = 0
    BY TakenNothing
  <1> QED  BY <1>1, PTL

\* A step of the run of p changes what p has drawn, and the sum by as much.
LEMMA TakenStep ==
    ASSUME IInv, IInv', \A p \in Partitions : TurnOK(p) /\ TurnOK(p)',
           NEW p \in Partitions,
           \A q \in Partitions \ {p} :
               pc'[q] = pc[q] /\ action'[q] = action[q] /\ high'[q] = high[q]
    PROVE  Taken' = Taken + (DrawsOf(p)' - DrawsOf(p))
PROOF
  <1> DEFINE f == [q \in Partitions |-> DrawsOf(q)]
             g == [q \in Partitions |-> DrawsOf(q)']
  <1>1. \A q \in Partitions : f[q] \in Int /\ g[q] \in Int
    <2>1. \A q \in Partitions : DrawsOf(q) \in Int
      BY DrawsType, ActionsAssumption
    <2>2. \A q \in Partitions : DrawsOf(q)' \in Int
      <3>1. ASSUME NEW q \in Partitions PROVE DrawsOf(q)' \in Int
        <4>1. action'[q] \in Nat
          BY ActionsAssumption DEF IInv, TypeOK
        <4> QED  BY <4>1 DEF DrawsOf
      <3> QED  BY <3>1
    <2> QED  BY <2>1, <2>2
  <1>2. \A q \in Partitions \ {p} : g[q] = f[q]
    BY DEF DrawsOf
  <1>3. f[p] = DrawsOf(p) /\ g[p] = DrawsOf(p)'
    OBVIOUS
  <1>4. Taken = SumFunctionOnSet(f, Partitions) /\ Taken' = SumFunctionOnSet(g, Partitions)
    BY DEF Taken
  <1> HIDE DEF f, g
  <1>5. SumFunctionOnSet(g, Partitions) = SumFunctionOnSet(f, Partitions) + (g[p] - f[p])
    BY <1>1, <1>2, PartitionsFinite, SumChange
  <1> QED  BY <1>3, <1>4, <1>5

\* The same after a step.
LEMMA TakenTypeNext ==
    IInv' /\ (\A p \in Partitions : TurnOK(p))' =>
        /\ (Taken \in 0 .. Block)'
        /\ (\A p \in Partitions : DrawsOf(p) \in 0 .. 2 * ActionsPerIteration)'
PROOF
  <1>1. IInv /\ (\A p \in Partitions : TurnOK(p)) =>
            /\ Taken \in 0 .. Block
            /\ \A p \in Partitions : DrawsOf(p) \in 0 .. 2 * ActionsPerIteration
    BY TakenType, DrawsType
  <1> QED  BY <1>1, PTL

\* The simulation begins with the first block.
LEMMA InitBlocks == Init => BlocksInv
PROOF
  <1> SUFFICES ASSUME Init PROVE BlocksInv
    OBVIOUS
  <1>1. agent = None /\ drawn = 2 /\ iteration = 1 /\ sources = {}
    BY DEF Init
  <1>2. FirstDraw(1, 1) = 2
    <2>1. (1 - 1) * NumAgents + 1 - 1 = 0
      BY AgentsAssumption
    <2>2. 2 + 2 * 0 * NumPartitions * ActionsPerIteration = 2
      BY PartitionsAssumption, ActionsAssumption
    <2> QED  BY <2>1, <2>2 DEF FirstDraw
  <1> QED  BY <1>1, <1>2 DEF BlocksInv, DrawsStayInBlock

\* A step of the run of p, which has drawn as many values as its own count says,
\* keeps the blocks if it keeps the run within its actions and the new sources
\* within the block.
LEMMA RunBlocks ==
    ASSUME IInv, IInv', BlocksInv, NEW p \in Partitions,
           agent # None, UNCHANGED <<iteration, agent>>,
           \A q \in Partitions \ {p} :
               pc'[q] = pc[q] /\ action'[q] = action[q] /\ high'[q] = high[q],
           TurnOK(p)',
           drawn' = drawn + (DrawsOf(p)' - DrawsOf(p)),
           high'[p] # None => high'[p] = high[p] \/ (high'[p] = drawn' /\ drawn' # drawn),
           drawn' # drawn => drawn' = drawn + 1,
           \A s \in sources' : s \in sources \/
              (/\ s.iteration = iteration /\ s.agent = agent
               /\ s.seed[1] = high[p] /\ s.seed[2] = drawn' /\ high[p] # None /\ drawn' # drawn)
    PROVE  BlocksInv'
PROOF
  <1> DEFINE first == FirstDraw(iteration, agent)
  <1>1. iteration \in Nat /\ agent \in Nat /\ iteration' = iteration /\ agent' = agent
    BY IterationsAssumption, AgentsAssumption DEF IInv, TypeOK, Agents
  <1>2. first \in Int /\ Block \in Nat /\ FirstDraw(iteration, agent)' = first
    BY <1>1, NextBlock DEF FirstDraw
  <1>3. /\ \A q \in Partitions : TurnOK(q)
        /\ \A q \in Partitions : high[q] # None => high[q] > first
        /\ drawn = first + Taken
    BY DEF BlocksInv
  <1>4. \A q \in Partitions : TurnOK(q)'
    BY <1>3 DEF TurnOK
  <1>5. Taken' = Taken + (DrawsOf(p)' - DrawsOf(p))
    BY <1>3, <1>4, TakenStep
  <1>6. Taken \in 0 .. Block /\ Taken' \in 0 .. Block
    <2>1. Taken \in 0 .. Block
      BY <1>3, TakenType
    <2>2. (Taken \in 0 .. Block)'
      BY <1>4, TakenTypeNext
    <2> QED  BY <2>1, <2>2 DEF Block
  <1>7. /\ DrawsOf(p) \in Int /\ DrawsOf(p)' \in Int
        /\ drawn \in Nat /\ drawn' \in Nat /\ high \in [Partitions -> Nat]
    <2>1. DrawsOf(p) \in 0 .. 2 * ActionsPerIteration
      BY <1>3, DrawsType
    <2>2. (DrawsOf(p) \in 0 .. 2 * ActionsPerIteration)'
      BY <1>4, TakenTypeNext
    <2> QED  BY <2>1, <2>2, ActionsAssumption DEF IInv, TypeOK
  <1> HIDE DEF first
  <1>8. drawn' = first + Taken'
    BY <1>2, <1>3, <1>5, <1>6, <1>7
  <1>9. \A q \in Partitions : high'[q] # None => high'[q] > first
    <2>1. drawn' # drawn => drawn' > first
      BY <1>2, <1>3, <1>6
    <2>2. high'[p] # None => high'[p] > first
      BY <1>2, <1>3, <1>7, <2>1
    <2> QED  BY <1>3, <2>2
  <1>10. DrawsStayInBlock'
    <2> SUFFICES ASSUME NEW s \in sources', NEW d \in {s.seed[1], s.seed[2]}
                 PROVE  d - FirstDraw(s.iteration, s.agent) \in 1 .. Block
      BY DEF DrawsStayInBlock, Block, FirstDraw
    <2>1. CASE s \in sources
      BY <2>1 DEF BlocksInv, DrawsStayInBlock, Block
    <2>2. CASE s \notin sources
      <3>1. /\ FirstDraw(s.iteration, s.agent) = first
            /\ d = high[p] \/ d = drawn'
            /\ high[p] # None /\ drawn' = drawn + 1
        BY <2>2 DEF first
      <3>2. high[p] > first /\ high[p] <= drawn /\ high[p] \in Nat
        BY <1>3, <1>7, <3>1 DEF IInv, DrawsOwned
      <3>3. d \in Int /\ first < d /\ d <= first + Block
        BY <1>2, <1>3, <1>6, <1>7, <1>8, <3>1, <3>2
      <3> QED  BY <1>2, <3>1, <3>3
    <2> QED  BY <2>1, <2>2
  <1> QED  BY <1>1, <1>2, <1>4, <1>8, <1>9, <1>10 DEF BlocksInv, first

\* A new turn begins with nothing drawn, at the first value of its block.
LEMMA SubmitBlocks ==
    ASSUME IInv, NEW a \in Agents, Submit(a), \A p \in Partitions : high[p] = None,
           drawn = FirstDraw(iteration, a), UNCHANGED <<iteration, drawn, sources>>,
           DrawsStayInBlock
    PROVE  BlocksInv'
PROOF
  <1>1. /\ \A p \in Partitions : action'[p] = 0 /\ pc'[p] = "queued" /\ high'[p] = None
        /\ agent' = a
    BY DEF Submit
  <1>2. Taken' = 0
    <2>1. (\A p \in Partitions : action[p] = 0 /\ pc[p] = "queued" /\ high[p] = None)'
      BY <1>1
    <2> QED  BY <2>1, TakenNothingNext
  <1>3. a # None
    BY DEF Agents, None
  <1>4. FirstDraw(iteration, agent)' = FirstDraw(iteration, a) /\ FirstDraw(iteration, a) \in Int
    <2>1. iteration \in Nat /\ a \in Nat
      BY IterationsAssumption, AgentsAssumption DEF IInv, TypeOK, Agents
    <2> QED  BY <1>1, <2>1, NextBlock DEF FirstDraw
  <1>5. drawn' = FirstDraw(iteration, agent)' + Taken'
    BY <1>2, <1>4
  <1>6. DrawsStayInBlock'
    BY DEF DrawsStayInBlock, FirstDraw
  <1> QED  BY <1>1, <1>3, <1>5, <1>6 DEF BlocksInv, TurnOK

\* Every step keeps the blocks.
LEMMA NextBlocks ==
    ASSUME IInv, IInv', BlocksInv, [Next]_vars
    PROVE  BlocksInv'
PROOF
  <1>1. CASE BeginIteration
    <2>1. 1 \in Agents
      BY AgentsAssumption DEF Agents
    <2>2. \A p \in Partitions : high[p] = None
      BY <1>1 DEF BeginIteration, IInv, PoolIdle, RunsBounded
    <2> QED  BY <1>1, <2>1, <2>2, SubmitBlocks DEF BeginIteration, BlocksInv
  <1>2. CASE Join
    <2>1. /\ agent # None /\ agent \in Agents
          /\ \A p \in Partitions : pc[p] = "done" /\ TurnOK(p) /\ high[p] = None
      BY <1>2 DEF Join, BlocksInv, IInv, TypeOK, RunsBounded
    <2>2. Taken = Block
      BY <2>1, TakenAll
    <2>3. iteration \in Nat /\ agent \in Nat
      BY <2>1, IterationsAssumption, AgentsAssumption DEF IInv, TypeOK, Agents
    <2>4. drawn = FirstDraw(iteration, agent) + Block /\ drawn' = drawn /\ sources' = sources
      BY <1>2, <2>1, <2>2 DEF BlocksInv, Join, NextAgent
    <2>5. CASE agent < NumAgents
      <3>1. agent + 1 \in Agents
        BY <2>1, <2>5, AgentsAssumption DEF Agents
      <3>2. drawn = FirstDraw(iteration, agent + 1)
        BY <2>3, <2>4, NextBlock
      <3>3. Submit(agent + 1) /\ iteration' = iteration
        BY <1>2, <2>5 DEF Join, NextAgent
      <3> QED  BY <2>1, <2>4, <3>1, <3>2, <3>3, SubmitBlocks DEF BlocksInv
    <2>6. CASE ~ agent < NumAgents
      <3>1. agent = NumAgents
        BY <2>1, <2>6, AgentsAssumption DEF Agents
      <3>2. drawn = FirstDraw(iteration + 1, 1)
        BY <2>3, <2>4, <3>1, NextBlock
      <3>3. agent' = None /\ iteration' = iteration + 1
        BY <1>2, <2>6 DEF Join, NextAgent
      <3>4. FirstDraw(iteration, 1)' = FirstDraw(iteration + 1, 1)
        BY <3>3 DEF FirstDraw
      <3> QED  BY <2>4, <3>2, <3>3, <3>4 DEF BlocksInv, DrawsStayInBlock, FirstDraw
    <2> QED  BY <2>5, <2>6
  <1>3. CASE UNCHANGED <<iteration, agent, pc, action, high, drawn, sources>>
    BY <1>3 DEF BlocksInv, Taken, DrawsOf, TurnOK, DrawsStayInBlock, FirstDraw
  <1>4. CASE JoinThrows \/ Close \/ UNCHANGED vars
    BY <1>3, <1>4 DEF JoinThrows, Close, runVars, vars
  <1>5. ASSUME NEW p \in Partitions, RunStep(p) PROVE BlocksInv'
    <2>1. agent # None /\ agent' = agent /\ iteration' = iteration
      BY <1>5 DEF RunStep, StartRun, DrawHigh, DrawLow, HandlerReturns, HandlerThrows, EndRun,
                  IInv, PoolIdle
    <2>2. /\ action \in [Partitions -> 0 .. ActionsPerIteration]
          /\ pc \in [Partitions -> States] /\ high \in [Partitions -> Nat] /\ drawn \in Nat
          /\ TurnOK(p)
          /\ high[p] # None => pc[p] = "nextLong" /\ action[p] < ActionsPerIteration
      BY <2>1 DEF IInv, TypeOK, BlocksInv, RunsBounded
    <2>3. DrawsOf(p) \in Int
      <3>1. DrawsOf(p) \in 0 .. 2 * ActionsPerIteration
        BY <2>1, DrawsType DEF BlocksInv
      <3> QED  BY <3>1, ActionsAssumption
    <2>4. CASE StartRun(p) \/ EndRun(p)
      <3>1. UNCHANGED <<drawn, sources, high, action>> /\ high[p] = None
        BY <2>2, <2>4, ActionsAssumption DEF StartRun, EndRun
      <3>2. TurnOK(p)' /\ DrawsOf(p)' = DrawsOf(p)
        BY <2>2, <2>4, <3>1 DEF StartRun, EndRun, TurnOK, DrawsOf
      <3> QED  BY <2>1, <2>2, <2>3, <2>4, <3>1, <3>2, RunBlocks DEF StartRun, EndRun
    <2>5. CASE DrawHigh(p)
      <3>1. /\ drawn' = drawn + 1 /\ sources' = sources /\ pc' = pc /\ action' = action
            /\ high' = [high EXCEPT ![p] = drawn + 1] /\ high[p] = None /\ pc[p] = "nextLong"
        BY <2>5 DEF DrawHigh
      <3>2. TurnOK(p)' /\ DrawsOf(p)' = DrawsOf(p) + 1
        BY <2>2, <3>1, ActionsAssumption DEF TurnOK, DrawsOf, None
      <3> QED  BY <2>1, <2>2, <2>3, <3>1, <3>2, RunBlocks
    <2>6. CASE DrawLow(p)
      <3> DEFINE new == Source(iteration, agent, p, action[p] + 1, high[p], drawn + 1)
      <3>1. /\ drawn' = drawn + 1 /\ sources' = sources \cup {new} /\ action' = action
            /\ pc' = [pc EXCEPT ![p] = "handler"] /\ pc[p] = "nextLong"
            /\ high' = [high EXCEPT ![p] = None] /\ high[p] # None
        BY <2>6 DEF DrawLow
      <3>2. /\ new.iteration = iteration /\ new.agent = agent
            /\ new.seed[1] = high[p] /\ new.seed[2] = drawn + 1
        BY DEF Source
      <3> HIDE DEF new
      <3>3. TurnOK(p)' /\ DrawsOf(p)' = DrawsOf(p) + 1
        BY <2>2, <3>1, ActionsAssumption DEF TurnOK, DrawsOf
      <3> QED  BY <2>1, <2>2, <2>3, <3>1, <3>2, <3>3, RunBlocks
    <2>7. CASE HandlerReturns(p)
      <3>1. /\ UNCHANGED <<drawn, sources, high>> /\ pc[p] = "handler" /\ high[p] = None
            /\ action' = [action EXCEPT ![p] = @ + 1] /\ pc' = [pc EXCEPT ![p] = "nextLong"]
        BY <2>2, <2>7 DEF HandlerReturns
      <3>2. TurnOK(p)' /\ DrawsOf(p)' = DrawsOf(p)
        BY <2>2, <3>1, ActionsAssumption DEF TurnOK, DrawsOf
      <3> QED  BY <2>1, <2>2, <2>3, <3>1, <3>2, RunBlocks
    <2>8. CASE HandlerThrows(p)
      <3>1. /\ UNCHANGED <<drawn, sources, high, action>> /\ pc[p] = "handler" /\ high[p] = None
            /\ pc' = [pc EXCEPT ![p] = "threw"]
        BY <2>2, <2>8 DEF HandlerThrows
      <3>2. TurnOK(p)' /\ DrawsOf(p)' = DrawsOf(p)
        BY <2>2, <3>1 DEF TurnOK, DrawsOf
      <3> QED  BY <2>1, <2>2, <2>3, <3>1, <3>2, RunBlocks
    <2> QED  BY <1>5, <2>4, <2>5, <2>6, <2>7, <2>8 DEF RunStep
  <1> QED  BY <1>1, <1>2, <1>4, <1>5 DEF Next, MainStep

\* In every iteration an agent takes its sources from its own block of the common
\* stream, whatever its threads do and whichever handlers throw (Agent.kt:63-78).
THEOREM BlocksDoNotMix == Spec => []DrawsStayInBlock
PROOF
  <1>1. Init => BlocksInv
    BY InitBlocks
  <1>2. IInv /\ IInv' /\ BlocksInv /\ [Next]_vars => BlocksInv'
    BY NextBlocks
  <1>3. BlocksInv => DrawsStayInBlock
    BY DEF BlocksInv
  <1> QED  BY <1>1, <1>2, <1>3, SimulationInvariant, PTL DEF Spec

-----------------------------------------------------------------------------
(***************************************************************************)
(* The read-write agents.                                                  *)
(***************************************************************************)
Friendship ==
    [p : Partitions, first : Nat, players : SUBSET Nat, time : Int, timed : BOOLEAN]

Types ==
    /\ persons \in [Partitions -> SUBSET Nat]
    /\ friendships \subseteq Friendship
    /\ times \subseteq Int
    /\ timeZero \in Readings
    /\ idCtr \in [Partitions -> Nat]
    /\ phase \in [Partitions -> {"ready", "open", "done", "failed"}]
    /\ tx \in [Partitions -> [persons : SUBSET Nat, friendships : SUBSET Friendship,
                              deletes : SUBSET Nat, times : SUBSET Int]]
    /\ left \in [Partitions -> 0 .. ActionsPerIteration]
    /\ at \in 1 .. Len(AgentActions)
    /\ iter \in 1 .. MaxIterations + 1
    /\ \A p \in Partitions : persons[p] \subseteq 1 .. idCtr[p]

\* What an open transaction of p holds, by the action that opened it.
Creates(p) ==
    /\ AgentActions[at] = "createPerson"
    /\ tx[p].persons \subseteq 1 .. idCtr[p]
    /\ tx[p].persons \cap persons[p] = {}
    /\ tx[p].persons # {} => idCtr[p] \in tx[p].persons
    /\ tx[p].friendships = {} /\ tx[p].deletes = {} /\ tx[p].times = {}

Befriends(p) ==
    /\ AgentActions[at] = "createFriendship"
    /\ tx[p].persons = {} /\ tx[p].deletes = {} /\ tx[p].times = {}
    /\ \A f \in tx[p].friendships :
          f.p = p /\ f.timed /\ f.first \in persons[p] /\ f.players = {f.first}

Deletes(p) ==
    /\ AgentActions[at] = "deletePersons"
    /\ tx[p].persons = {} /\ tx[p].friendships = {}
    /\ tx[p].deletes \subseteq persons[p]
    /\ idCtr[p] \notin tx[p].deletes
    /\ \A f \in friendships :
          f.p = p /\ f.timed /\ f.first \in tx[p].deletes => f.time \in tx[p].times
    /\ \A t \in tx[p].times \cap times :
          \E f \in friendships : f.p = p /\ f.timed /\ f.time = t /\ f.first \in tx[p].deletes

OpenTxs ==
    \A p \in Partitions :
        IF phase[p] = "open"
          THEN left[p] > 0 /\ (Creates(p) \/ Befriends(p) \/ Deletes(p))
          ELSE tx[p] = NoTx

\* A friendship relates its first person, who is stored.
FriendsStored ==
    \A f \in friendships : f.players = {f.first} /\ f.first \in persons[f.p]

TimesOwned == times = {f.time : f \in {g \in friendships : g.timed}}

AgentIInv == Types /\ OpenTxs /\ LastPersonStays /\ FriendsStored /\ TimesOwned

\* With createPerson as the first agent: its partitions have numbers once it has
\* opened a transaction, and every partition has when it is over.
Numbered ==
    /\ at = 1 /\ iter = 1 =>
          \A p \in Partitions : phase[p] \in {"open", "done"} => idCtr[p] > 0
    /\ at > 1 \/ iter > 1 => \A p \in Partitions : idCtr[p] > 0

-----------------------------------------------------------------------------
\* What n draws from a set have made is a subset of it.
LEMMA DrawsAreValues ==
    ASSUME NEW n, NEW S, NEW D \in Draws(n, S)
    PROVE  D \subseteq S
PROOF
  <1>1. PICK draws \in [1 .. n -> S] : D = Range(draws)
    BY DEF Draws
  <1>2. \A k \in DOMAIN draws : draws[k] \in S
    OBVIOUS
  <1> QED  BY <1>1, <1>2, Zenon DEF Range

\* A date is a number of seconds, which the 32 bits of its hash keep in a range.
LEMMA DatesAreIntegers ==
    ASSUME timeZero \in Readings, NEW first \in Nat, NEW second \in Nat
    PROVE  dateFrom(first, second) \in Int
PROOF
  <1>1. \A x \in Int : Int32(x) \in Int
    BY HashAssumption DEF Int32
  <1>2. HashFactor * DateHash + first \in Int
    BY HashAssumption
  <1>3. HashFactor * (HashFactor * DateHash + first) + second \in Int
    BY <1>2, HashAssumption
  <1> QED  BY <1>1, <1>3, ClockAssumption DEF dateFrom, hash

\* There is at least one agent.
LEMMA AgentsAreThere == Len(AgentActions) \in Nat \ {0}
  BY AgentActionsAssumption, EmptySeq, LenProperties

\* The invariant holds before the first action.
LEMMA InitAgentIInv == AgentInit => AgentIInv
PROOF
  <1> SUFFICES ASSUME AgentInit PROVE AgentIInv
    OBVIOUS
  <1>1. Types
    BY AgentsAreThere, ModelAssumption, ActionsAssumption DEF AgentInit, Types, NoTx
  <1>2. OpenTxs
    BY DEF AgentInit, OpenTxs
  <1>3. LastPersonStays /\ FriendsStored /\ TimesOwned
    BY DEF AgentInit, LastPersonStays, FriendsStored, TimesOwned
  <1> QED  BY <1>1, <1>2, <1>3 DEF AgentIInv

-----------------------------------------------------------------------------
\* createPerson: the numbers it takes are those of nobody.
LEMMA CreatePersonIInv ==
    ASSUME AgentIInv, NEW p \in Partitions, createPerson(p)
    PROVE  AgentIInv'
PROOF
  <1> DEFINE last == idCtr[p] + PersonCreatePerAction
             new  == idCtr[p] + 1 .. last
  <1> USE DEF AgentIInv
  <1>1. /\ idCtr[p] \in Nat /\ last \in Nat /\ last >= idCtr[p]
        /\ idCtr' = [idCtr EXCEPT ![p] = last]
        /\ tx' = [tx EXCEPT ![p] = [NoTx EXCEPT !.persons = new]]
        /\ phase[p] = "ready" /\ left[p] > 0 /\ AgentActions[at] = "createPerson"
        /\ phase' = [phase EXCEPT ![p] = "open"]
        /\ UNCHANGED <<persons, friendships, times, left, at, timeZero, iter>>
    BY ModelAssumption DEF createPerson, OpensTx, Ready, Types
  <1> HIDE DEF last
  <1>2. /\ tx'[p].persons = new
        /\ tx'[p].friendships = {} /\ tx'[p].deletes = {} /\ tx'[p].times = {}
        /\ idCtr'[p] = last
    BY <1>1 DEF Types, NoTx
  <1>3. \A q \in Partitions : q # p =>
            tx'[q] = tx[q] /\ idCtr'[q] = idCtr[q] /\ phase'[q] = phase[q]
    BY <1>1 DEF Types
  <1>4. Types'
    <2>1. tx'[p] \in [persons : SUBSET Nat, friendships : SUBSET Friendship,
                      deletes : SUBSET Nat, times : SUBSET Int]
      <3>1. new \in SUBSET Nat
        BY <1>1
      <3> QED  BY <3>1, <1>1 DEF NoTx, Types
    <2>2. \A q \in Partitions : persons'[q] \subseteq 1 .. idCtr'[q]
      BY <1>1, <1>2, <1>3 DEF Types
    <2> QED  BY <1>1, <2>1, <2>2 DEF Types
  <1>5. OpenTxs'
    <2>1. Creates(p)'
      <3>1. new \cap persons[p] = {}
        BY <1>1 DEF Types
      <3>2. new # {} => last \in new
        BY <1>1
      <3> QED  BY <1>1, <1>2, <3>1, <3>2 DEF Creates
    <2>2. ASSUME NEW q \in Partitions, q # p
          PROVE  IF phase'[q] = "open"
                   THEN left'[q] > 0 /\ (Creates(q)' \/ Befriends(q)' \/ Deletes(q)')
                   ELSE tx'[q] = NoTx
      BY <1>1, <1>3, <2>2 DEF OpenTxs, Creates, Befriends, Deletes
    <2>3. phase'[p] = "open" /\ left'[p] > 0
      BY <1>1 DEF Types
    <2> QED  BY <2>1, <2>2, <2>3 DEF OpenTxs
  <1>6. LastPersonStays'
    <2>1. idCtr'[p] > 0 /\ tx'[p].persons = {} => idCtr'[p] \in persons'[p]
      <3>1. tx[p].persons = {}
        BY <1>1 DEF OpenTxs, NoTx
      <3>2. new = {} => last = idCtr[p]
        BY <1>1
      <3> QED  BY <1>1, <1>2, <3>1, <3>2 DEF LastPersonStays
    <2> QED  BY <1>1, <1>3, <2>1 DEF LastPersonStays
  <1>7. FriendsStored' /\ TimesOwned'
    BY <1>1 DEF FriendsStored, TimesOwned
  <1> QED  BY <1>4, <1>5, <1>6, <1>7

\* What opening a transaction that creates nobody leaves to be shown.
LEMMA OpenedIInv ==
    ASSUME AgentIInv, NEW p \in Partitions, NEW changes, OpensTx(p, changes), UNCHANGED idCtr,
           phase[p] = "ready", left[p] > 0,
           changes \in [persons : SUBSET Nat, friendships : SUBSET Friendship,
                        deletes : SUBSET Nat, times : SUBSET Int],
           changes.persons = {},
           (Befriends(p) \/ Deletes(p))'
    PROVE  AgentIInv'
PROOF
  <1> USE DEF AgentIInv
  <1>1. /\ phase' = [phase EXCEPT ![p] = "open"]
        /\ tx' = [tx EXCEPT ![p] = changes]
        /\ UNCHANGED <<persons, friendships, times, idCtr, left, at, timeZero, iter>>
    BY DEF OpensTx
  <1>2. tx[p].persons = {} /\ tx'[p].persons = {}
    BY <1>1 DEF OpenTxs, NoTx, Types
  <1>3. \A q \in Partitions : q # p => tx'[q] = tx[q] /\ phase'[q] = phase[q]
    BY <1>1 DEF Types
  <1>4. Types'
    BY <1>1 DEF Types
  <1>5. OpenTxs'
    <2>1. ASSUME NEW q \in Partitions, q # p
          PROVE  IF phase'[q] = "open"
                   THEN left'[q] > 0 /\ (Creates(q)' \/ Befriends(q)' \/ Deletes(q)')
                   ELSE tx'[q] = NoTx
      BY <1>1, <1>3, <2>1 DEF OpenTxs, Creates, Befriends, Deletes
    <2>2. phase'[p] = "open" /\ left'[p] > 0
      BY <1>1 DEF Types
    <2> QED  BY <2>1, <2>2 DEF OpenTxs
  <1>6. LastPersonStays'
    BY <1>1, <1>2, <1>3 DEF LastPersonStays
  <1>7. FriendsStored' /\ TimesOwned'
    BY <1>1 DEF FriendsStored, TimesOwned
  <1> QED  BY <1>4, <1>5, <1>6, <1>7

\* The transactions of createFriendship and deletePersons, field by field.
LEMMA BefriendingTx ==
    ASSUME NEW A \in SUBSET Friendship
    PROVE  LET r == [NoTx EXCEPT !.friendships = A] IN
           /\ r \in [persons : SUBSET Nat, friendships : SUBSET Friendship,
                     deletes : SUBSET Nat, times : SUBSET Int]
           /\ r.persons = {} /\ r.friendships = A /\ r.deletes = {} /\ r.times = {}
  BY DEF NoTx

\* What is known of a deletion when its handler has read what it deletes.
LEMMA DeletingTx ==
    ASSUME NEW A \in SUBSET Nat, NEW B \in SUBSET Int
    PROVE  LET r == [NoTx EXCEPT !.deletes = A, !.times = B] IN
           /\ r \in [persons : SUBSET Nat, friendships : SUBSET Friendship,
                     deletes : SUBSET Nat, times : SUBSET Int]
           /\ r.persons = {} /\ r.friendships = {} /\ r.deletes = A /\ r.times = B
  BY DEF NoTx

\* createFriendship: the persons it has found are stored.
LEMMA CreateFriendshipIInv ==
    ASSUME AgentIInv, NEW p \in Partitions, createFriendship(p)
    PROVE  AgentIInv'
PROOF
  <1> USE DEF AgentIInv
  <1>1. PICK pairs \in Draws(FriendshipCreatePerAction, Drawn(p) \X Drawn(p)) :
            OpensTx(p, [NoTx EXCEPT !.friendships = Friendships(p, pairs)])
    BY Zenon DEF createFriendship
  <1>2. pairs \subseteq Drawn(p) \X Drawn(p)
    BY DrawsAreValues
  <1>3. pairs \subseteq Nat \X Nat
    BY <1>2 DEF Drawn, Types
  <1> DEFINE made    == Friendships(p, pairs)
             changes == [NoTx EXCEPT !.friendships = made]
  <1>4. OpensTx(p, changes)
    BY <1>1
  <1>5. \A f \in made :
            f \in Friendship /\ f.p = p /\ f.timed /\ f.first \in persons[p] /\ f.players = {f.first}
    <2> SUFFICES ASSUME NEW x \in pairs, {x[1], x[2]} \subseteq persons[p]
                 PROVE  LET f == [p |-> p, first |-> x[1], players |-> {x[1]},
                                  time |-> dateFrom(x[1], x[2]), timed |-> TRUE]
                        IN f \in Friendship /\ f.p = p /\ f.timed /\ f.first \in persons[p]
                             /\ f.players = {f.first}
      BY DEF Friendships, Players
    <2>1. x[1] \in Nat /\ x[2] \in Nat
      BY <1>3
    <2>2. dateFrom(x[1], x[2]) \in Int
      BY <2>1, DatesAreIntegers DEF Types
    <2> QED  BY <2>1, <2>2 DEF Friendship
  <1> HIDE DEF made
  <1>6. /\ changes \in [persons : SUBSET Nat, friendships : SUBSET Friendship,
                        deletes : SUBSET Nat, times : SUBSET Int]
        /\ changes.persons = {} /\ changes.friendships = made
        /\ changes.deletes = {} /\ changes.times = {}
    <2>1. made \in SUBSET Friendship
      BY <1>5
    <2> QED  BY <2>1, BefriendingTx
  <1> HIDE DEF changes
  <1>7. UNCHANGED idCtr /\ AgentActions[at] = "createFriendship" /\ phase[p] = "ready" /\ left[p] > 0
    BY DEF createFriendship, Ready
  <1>8. tx'[p] = changes /\ UNCHANGED <<persons, at>>
    BY <1>4 DEF OpensTx, Types
  <1>9. Befriends(p)'
    BY <1>5, <1>6, <1>7, <1>8 DEF Befriends
  <1> QED  BY <1>4, <1>6, <1>7, <1>9, OpenedIInv

\* deletePersons: it never draws the number given out last, and matches with a
\* person the meeting-time of each of its friendships.
LEMMA DeletePersonsIInv ==
    ASSUME AgentIInv, NEW p \in Partitions, deletePersons(p)
    PROVE  AgentIInv'
PROOF
  <1> USE DEF AgentIInv
  <1>1. PICK draws \in [1 .. TryPersonDeletePerAction -> DrawnToDelete(p)] :
            OpensTx(p, Deletion(p, draws))
    BY DEF deletePersons
  <1> DEFINE found   == Found(p, draws)
             taken   == UNION {TimesOf(p, id) : id \in found}
             changes == [NoTx EXCEPT !.deletes = found, !.times = taken]
  <1>2. found \subseteq persons[p] /\ found \subseteq DrawnToDelete(p)
    BY DEF Found
  <1>3. OpensTx(p, changes)
    BY <1>1, Zenon DEF Deletion
  <1>4. found \subseteq persons[p] /\ found \subseteq Nat /\ idCtr[p] \notin found
    BY <1>2 DEF Types, DrawnToDelete
  <1>5. \A t \in taken : t \in Int /\
            \E f \in friendships : f.p = p /\ f.timed /\ f.time = t /\ f.first \in found
    <2> SUFFICES ASSUME NEW id \in found, NEW f \in Matched(p, id)
                 PROVE  f.time \in Int /\ f \in friendships /\ f.p = p /\ f.timed /\ f.first \in found
      BY DEF TimesOf
    <2>1. f \in friendships /\ f.p = p /\ f.timed /\ id \in f.players
      BY DEF Matched
    <2>2. f.first = id
      BY <2>1 DEF FriendsStored
    <2> QED  BY <2>1, <2>2 DEF Types, Friendship
  <1>6. \A f \in friendships : f.p = p /\ f.timed /\ f.first \in found => f.time \in taken
    <2> SUFFICES ASSUME NEW f \in friendships, f.p = p, f.timed, f.first \in found
                 PROVE  f.time \in taken
      OBVIOUS
    <2>1. f \in Matched(p, f.first)
      BY DEF Matched, FriendsStored
    <2> QED  BY <2>1 DEF TimesOf
  <1> HIDE DEF found, taken
  <1>7. /\ changes \in [persons : SUBSET Nat, friendships : SUBSET Friendship,
                        deletes : SUBSET Nat, times : SUBSET Int]
        /\ changes.persons = {} /\ changes.friendships = {}
        /\ changes.deletes = found /\ changes.times = taken
    <2>1. found \in SUBSET Nat /\ taken \in SUBSET Int
      BY <1>4, <1>5
    <2> QED  BY <2>1, DeletingTx
  <1> HIDE DEF changes
  <1>8. UNCHANGED idCtr /\ AgentActions[at] = "deletePersons" /\ phase[p] = "ready" /\ left[p] > 0
    BY DEF deletePersons, Ready
  <1>9. tx'[p] = changes /\ UNCHANGED <<persons, friendships, times, at>>
    BY <1>3 DEF OpensTx, Types
  <1>10. Deletes(p)'
    BY <1>4, <1>5, <1>6, <1>7, <1>8, <1>9 DEF Deletes
  <1> QED  BY <1>3, <1>7, <1>8, <1>10, OpenedIInv

-----------------------------------------------------------------------------
\* The end of an action.
LEMMA ActionOverTypes ==
    ASSUME Types, NEW p \in Partitions, ActionOver(p), left[p] > 0
    PROVE  /\ left' \in [Partitions -> 0 .. ActionsPerIteration]
           /\ phase' \in [Partitions -> {"ready", "open", "done", "failed"}]
           /\ phase'[p] \in {"ready", "done"}
           /\ \A q \in Partitions : q # p => phase'[q] = phase[q] /\ left'[q] = left[q]
  BY ActionsAssumption DEF Types, ActionOver

\* A read-only action keeps the invariant.
LEMMA ReadIInv ==
    ASSUME AgentIInv, NEW p \in Partitions, read(p)
    PROVE  AgentIInv'
PROOF
  <1> USE DEF AgentIInv
  <1>1. /\ ActionOver(p) /\ phase[p] = "ready" /\ left[p] > 0
        /\ UNCHANGED <<persons, friendships, times, idCtr, tx, at, timeZero, iter>>
    BY DEF read, Ready
  <1>2. Types'
    BY <1>1, ActionOverTypes DEF Types
  <1>3. OpenTxs'
    BY <1>1, ActionOverTypes DEF OpenTxs, Creates, Befriends, Deletes
  <1>4. LastPersonStays'
    BY <1>1, ActionOverTypes DEF LastPersonStays
  <1>5. FriendsStored' /\ TimesOwned'
    BY <1>1 DEF FriendsStored, TimesOwned
  <1> QED  BY <1>2, <1>3, <1>4, <1>5

\* A commit that raises leaves what was stored, and a run that is over unless it
\* is one of deletePersons.
LEMMA CommitRaisesIInv ==
    ASSUME AgentIInv, NEW p \in Partitions, commitRaises(p)
    PROVE  AgentIInv'
PROOF
  <1> USE DEF AgentIInv
  <1>1. /\ phase[p] = "open" /\ left[p] > 0
        /\ tx' = [tx EXCEPT ![p] = NoTx]
        /\ UNCHANGED <<persons, friendships, times, idCtr, at, timeZero, iter>>
    BY DEF commitRaises, OpenTxs
  <1>2. /\ left' \in [Partitions -> 0 .. ActionsPerIteration]
        /\ phase' \in [Partitions -> {"ready", "open", "done", "failed"}]
        /\ phase'[p] # "open"
        /\ AgentActions[at] # "deletePersons" => phase'[p] = "failed"
        /\ \A q \in Partitions : q # p => phase'[q] = phase[q] /\ left'[q] = left[q]
    <2>1. CASE AgentActions[at] = "deletePersons"
      BY <1>1, <2>1, ActionOverTypes DEF commitRaises
    <2>2. CASE AgentActions[at] # "deletePersons"
      BY <2>2 DEF commitRaises, Types
    <2> QED  BY <2>1, <2>2
  <1>3. /\ tx'[p] = NoTx /\ tx'[p].persons = {}
        /\ \A q \in Partitions : q # p => tx'[q] = tx[q]
    BY <1>1 DEF Types, NoTx
  <1>4. Types'
    <2>1. NoTx \in [persons : SUBSET Nat, friendships : SUBSET Friendship,
                    deletes : SUBSET Nat, times : SUBSET Int]
      BY DEF NoTx
    <2> QED  BY <1>1, <1>2, <2>1 DEF Types
  <1>5. OpenTxs'
    BY <1>1, <1>2, <1>3 DEF OpenTxs, Creates, Befriends, Deletes
  <1>6. LastPersonStays'
    <2>1. phase'[p] # "failed" => tx[p].persons = {}
      BY <1>1, <1>2 DEF OpenTxs, Creates, Befriends, Deletes
    <2> QED  BY <1>1, <1>2, <1>3, <2>1 DEF LastPersonStays
  <1>7. FriendsStored' /\ TimesOwned'
    BY <1>1 DEF FriendsStored, TimesOwned
  <1> QED  BY <1>4, <1>5, <1>6, <1>7

\* The next agent begins with every run over, none of them failed.
LEMMA AgentOverIInv ==
    ASSUME AgentIInv, AgentOver
    PROVE  AgentIInv'
PROOF
  <1> USE DEF AgentIInv
  <1>1. /\ \A p \in Partitions : phase[p] = "done" /\ phase'[p] = "ready"
        /\ phase' \in [Partitions -> {"ready", "open", "done", "failed"}]
        /\ left' \in [Partitions -> 0 .. ActionsPerIteration]
        /\ UNCHANGED <<persons, friendships, times, idCtr, tx>>
    BY ActionsAssumption DEF AgentOver
  <1>2. at' \in 1 .. Len(AgentActions) /\ iter' \in 1 .. MaxIterations + 1 /\ timeZero' \in Readings
    BY AgentsAreThere, ModelAssumption DEF AgentOver, Running, Types
  <1>3. Types'
    BY <1>1, <1>2 DEF Types
  <1>4. OpenTxs'
    BY <1>1 DEF OpenTxs
  <1>5. LastPersonStays'
    BY <1>1 DEF LastPersonStays
  <1>6. FriendsStored' /\ TimesOwned'
    BY <1>1 DEF FriendsStored, TimesOwned
  <1> QED  BY <1>3, <1>4, <1>5, <1>6

-----------------------------------------------------------------------------
\* What a commit of p makes of the friendship f.
After(p, f, g) ==
    /\ g \in Friendship
    /\ g.p = f.p /\ g.first = f.first /\ g.time = f.time /\ g.players = {g.first}
    /\ g.timed = (f.timed /\ f.time \notin tx[p].times)
    /\ f.p = p => f.first \notin tx[p].deletes

\* A commit leaves friendships between stored persons.
LEMMA CommittedFriendships ==
    ASSUME AgentIInv, NEW p \in Partitions, commit(p)
    PROVE  /\ \A g \in friendships' :
                  g \in tx[p].friendships \/ \E f \in friendships : After(p, f, g)
           /\ \A f \in friendships : (f.p = p => f.first \notin tx[p].deletes) =>
                  \E g \in friendships' : After(p, f, g)
           /\ tx[p].friendships \subseteq friendships'
PROOF
  <1> USE DEF AgentIInv
  <1> DEFINE deleted  == tx[p].deletes
             kept     == {f \in friendships : f.p = p => ~ f.players \subseteq deleted}
             Kept(f)  == [f EXCEPT !.timed   = @ /\ f.time \notin tx[p].times,
                                   !.players = IF f.p = p THEN @ \ deleted ELSE @]
  <1>1. friendships' = {Kept(f) : f \in kept} \cup tx[p].friendships
    BY Zenon DEF commit, FriendshipsAfter
  <1>2. \A f \in friendships : f \in kept <=> (f.p = p => f.first \notin deleted)
    BY DEF FriendsStored
  <1>3. ASSUME NEW f \in kept PROVE After(p, f, Kept(f))
    <2>1. f \in Friendship /\ f.players = {f.first}
      BY DEF Types, FriendsStored
    <2>2. f.p = p => f.first \notin deleted
      BY <1>2
    <2>3. /\ Kept(f).p = f.p /\ Kept(f).first = f.first /\ Kept(f).time = f.time
          /\ Kept(f).timed = (f.timed /\ f.time \notin tx[p].times)
          /\ Kept(f).players = IF f.p = p THEN f.players \ deleted ELSE f.players
          /\ Kept(f) \in Friendship
      BY <2>1 DEF Friendship
    <2> QED  BY <2>1, <2>2, <2>3 DEF After
  <1> HIDE DEF Kept
  <1> QED  BY <1>1, <1>2, <1>3

\* A commit keeps the invariant.
LEMMA CommitIInv ==
    ASSUME AgentIInv, NEW p \in Partitions, commit(p)
    PROVE  AgentIInv'
PROOF
  <1> USE DEF AgentIInv
  <1> DEFINE t == tx[p]
  <1>1. /\ phase[p] = "open" /\ left[p] > 0 /\ ActionOver(p)
        /\ persons' = [persons EXCEPT ![p] = (@ \cup t.persons) \ t.deletes]
        /\ times' = (times \ t.times) \cup {f.time : f \in t.friendships}
        /\ tx' = [tx EXCEPT ![p] = NoTx]
        /\ UNCHANGED <<idCtr, at, timeZero, iter>>
    BY DEF commit, OpenTxs
  <1>2. Creates(p) \/ Befriends(p) \/ Deletes(p)
    BY <1>1 DEF OpenTxs
  <1>3. /\ persons'[p] = (persons[p] \cup t.persons) \ t.deletes
        /\ tx'[p] = NoTx /\ tx'[p].persons = {}
        /\ \A q \in Partitions : q # p => persons'[q] = persons[q] /\ tx'[q] = tx[q]
    BY <1>1 DEF Types, NoTx
  <1>4. /\ t.persons \subseteq 1 .. idCtr[p]
        /\ t.deletes # {} => t.friendships = {} /\ t.persons = {}
        /\ t.deletes \subseteq persons[p] \ {idCtr[p]}
        /\ t.friendships \subseteq Friendship /\ t.times \subseteq Int
        /\ \A f \in t.friendships :
              f.p = p /\ f.timed /\ f.first \in persons[p] /\ f.players = {f.first}
        /\ \A f \in friendships :
              f.p = p /\ f.timed /\ f.first \in t.deletes => f.time \in t.times
    BY <1>2 DEF Types, Creates, Befriends, Deletes
  <1> HIDE DEF t
  <1>5. \A g \in friendships' : g \in t.friendships \/ \E f \in friendships : After(p, f, g)
    BY CommittedFriendships DEF t
  <1>6. \A f \in friendships : (f.p = p => f.first \notin t.deletes) =>
            \E g \in friendships' : After(p, f, g)
    BY CommittedFriendships DEF t
  <1>7. t.friendships \subseteq friendships'
    BY CommittedFriendships DEF t
  <1>8. Types'
    <2>1. friendships' \subseteq Friendship
      BY <1>4, <1>5 DEF After
    <2>2. times' \subseteq Int
      <3>1. times \subseteq Int /\ \A f \in t.friendships : f.time \in Int
        BY <1>4 DEF Types, Friendship
      <3> QED  BY <1>1, <3>1
    <2>3. persons' \in [Partitions -> SUBSET Nat]
      BY <1>1, <1>4 DEF Types
    <2>4. \A q \in Partitions : persons'[q] \subseteq 1 .. idCtr'[q]
      BY <1>1, <1>3, <1>4 DEF Types
    <2>5. NoTx \in [persons : SUBSET Nat, friendships : SUBSET Friendship,
                    deletes : SUBSET Nat, times : SUBSET Int]
      BY DEF NoTx
    <2>6. tx' \in [Partitions -> [persons : SUBSET Nat, friendships : SUBSET Friendship,
                                  deletes : SUBSET Nat, times : SUBSET Int]]
      BY <1>1, <2>5 DEF Types
    <2> QED  BY <1>1, <2>1, <2>2, <2>3, <2>4, <2>6, ActionOverTypes DEF Types
  <1>9. OpenTxs'
    <2> SUFFICES ASSUME NEW q \in Partitions, q # p, phase[q] = "open"
                 PROVE  (Creates(q) \/ Befriends(q) \/ Deletes(q))'
      BY <1>1, <1>3, ActionOverTypes DEF OpenTxs
    <2>1. persons'[q] = persons[q] /\ tx'[q] = tx[q] /\ idCtr'[q] = idCtr[q] /\ at' = at
      BY <1>1, <1>3
    <2>2. CASE Creates(q)
      BY <2>1, <2>2 DEF Creates
    <2>3. CASE Befriends(q)
      BY <2>1, <2>3 DEF Befriends
    <2>4. CASE Deletes(q)
      <3>1. ASSUME NEW g \in friendships', g.p = q, g.timed, g.first \in tx[q].deletes
            PROVE  g.time \in tx[q].times
        <4>1. g \notin t.friendships
          BY <1>4, <3>1
        <4>2. PICK f \in friendships : After(p, f, g)
          BY <1>5, <4>1
        <4> QED  BY <2>4, <3>1, <4>2 DEF After, Deletes
      <3>2. ASSUME NEW x \in tx[q].times \cap times'
            PROVE  \E g \in friendships' :
                       g.p = q /\ g.timed /\ g.time = x /\ g.first \in tx[q].deletes
        <4>1. x \in times /\ x \notin t.times
          BY <1>1, <1>2, <2>4, <3>2 DEF t, Creates, Befriends, Deletes
        <4>2. PICK f \in friendships :
                  f.p = q /\ f.timed /\ f.time = x /\ f.first \in tx[q].deletes
          BY <2>4, <3>2, <4>1 DEF Deletes
        <4>3. PICK g \in friendships' : After(p, f, g)
          BY <1>6, <4>2
        <4> QED  BY <4>1, <4>2, <4>3 DEF After, t
      <3> QED  BY <2>1, <2>4, <3>1, <3>2 DEF Deletes
    <2> QED  BY <2>2, <2>3, <2>4 DEF OpenTxs
  <1>10. LastPersonStays'
    <2>1. idCtr[p] > 0 => idCtr[p] \in persons'[p]
      <3>1. t.persons # {} => idCtr[p] \in t.persons
        BY <1>2 DEF t, Creates, Befriends, Deletes
      <3>2. t.persons = {} /\ idCtr[p] > 0 => idCtr[p] \in persons[p]
        BY <1>1 DEF t, LastPersonStays
      <3> QED  BY <1>3, <1>4, <3>1, <3>2
    <2> QED  BY <1>1, <1>3, <2>1, ActionOverTypes DEF LastPersonStays
  <1>11. FriendsStored'
    <2> SUFFICES ASSUME NEW g \in friendships'
                 PROVE  g.players = {g.first} /\ g.first \in persons'[g.p]
      BY DEF FriendsStored
    <2>1. CASE g \in t.friendships
      BY <1>3, <1>4, <2>1
    <2>2. ASSUME NEW f \in friendships, After(p, f, g)
          PROVE  g.players = {g.first} /\ g.first \in persons'[g.p]
      <3>1. f.p \in Partitions /\ f.first \in persons[f.p]
        BY DEF Types, Friendship, FriendsStored
      <3> QED  BY <1>3, <2>2, <3>1 DEF After, t
    <2> QED  BY <1>5, <2>1, <2>2
  <1>12. TimesOwned'
    <2>1. ASSUME NEW x \in times' PROVE \E g \in friendships' : g.timed /\ x = g.time
      <3>1. CASE x \in times \ t.times
        <4>1. PICK f \in friendships : f.timed /\ x = f.time
          BY <3>1 DEF TimesOwned
        <4>2. PICK g \in friendships' : After(p, f, g)
          BY <1>4, <1>6, <3>1, <4>1
        <4> QED  BY <3>1, <4>1, <4>2 DEF After, t
      <3>2. CASE x \in {f.time : f \in t.friendships}
        BY <1>4, <1>7, <3>2
      <3> QED  BY <1>1, <3>1, <3>2
    <2>2. ASSUME NEW g \in friendships', g.timed PROVE g.time \in times'
      <3>1. CASE g \in t.friendships
        BY <1>1, <3>1
      <3>2. ASSUME NEW f \in friendships, After(p, f, g) PROVE g.time \in times'
        <4>1. f.timed /\ f.time \notin t.times
          BY <2>2, <3>2 DEF After, t
        <4>2. f.time \in times
          BY <4>1 DEF TimesOwned
        <4> QED  BY <1>1, <3>2, <4>1, <4>2 DEF After
      <3> QED  BY <1>5, <3>1, <3>2
    <2> QED  BY <2>1, <2>2 DEF TimesOwned
  <1> QED  BY <1>8, <1>9, <1>10, <1>11, <1>12

-----------------------------------------------------------------------------
\* Every step keeps it.
LEMMA NextAgentIInv ==
    ASSUME AgentIInv, [AgentNext]_agentVars
    PROVE  AgentIInv'
PROOF
  <1>1. CASE AgentOver
    BY <1>1, AgentOverIInv
  <1>2. ASSUME NEW p \in Partitions, Step(p) PROVE AgentIInv'
    BY <1>2, CreatePersonIInv, CreateFriendshipIInv, DeletePersonsIInv, ReadIInv,
       CommitIInv, CommitRaisesIInv DEF Step
  <1>3. CASE UNCHANGED agentVars
    <2>1. UNCHANGED <<persons, friendships, times, idCtr, phase, tx, left, at, timeZero, iter>>
      BY <1>3 DEF agentVars
    <2>2. Types' /\ LastPersonStays' /\ FriendsStored' /\ TimesOwned'
      BY <2>1 DEF AgentIInv, Types, LastPersonStays, FriendsStored, TimesOwned
    <2>3. OpenTxs'
      BY <2>1 DEF AgentIInv, OpenTxs, Creates, Befriends, Deletes
    <2> QED  BY <2>2, <2>3 DEF AgentIInv
  <1> QED  BY <1>1, <1>2, <1>3 DEF AgentNext

\* What is stored, and what each kind of open transaction knows of it, for any order
\* of the agents (PersonAgent.kt).
THEOREM PersonAgentInvariant == AgentSpec => []AgentIInv
PROOF
  <1>1. AgentInit => AgentIInv
    BY InitAgentIInv
  <1>2. AgentIInv /\ [AgentNext]_agentVars => AgentIInv'
    BY NextAgentIInv
  <1> QED  BY <1>1, <1>2, PTL DEF AgentSpec

\* LastPersonStays, for every order of the agents and any number of persons: the
\* one created last in a partition is never deleted.
THEOREM LastIsNeverDeleted == AgentSpec => []LastPersonStays
PROOF
  <1>1. AgentIInv => LastPersonStays
    BY DEF AgentIInv
  <1> QED  BY <1>1, PersonAgentInvariant, PTL

\* DeletionsAreWhole, the types of the variables included.
THEOREM NothingHalfDeleted == AgentSpec => []DeletionsAreWhole
PROOF
  <1>1. AgentIInv => DeletionsAreWhole
    <2> SUFFICES ASSUME AgentIInv PROVE DeletionsAreWhole
      OBVIOUS
    <2> USE DEF AgentIInv
    <2>1. ASSUME NEW p \in Partitions
          PROVE  /\ idCtr[p] \in Nat /\ persons[p] \subseteq 1 .. idCtr[p]
                 /\ phase[p] \in {"ready", "open", "done", "failed"}
                 /\ left[p] \in 0 .. ActionsPerIteration
      BY DEF Types
    <2>2. ASSUME NEW p \in Partitions
          PROVE  /\ phase[p] # "open" => tx[p] = NoTx
                 /\ tx[p].persons \cap persons[p] = {}
                 /\ tx[p].deletes \subseteq persons[p]
      BY DEF OpenTxs, Creates, Befriends, Deletes, NoTx
    <2>3. \A f \in friendships : f.p \in Partitions /\ f.timed \in BOOLEAN
      BY DEF Types, Friendship
    <2>4. AgentTypeOK
      BY <2>1, <2>2, <2>3 DEF AgentTypeOK, Types
    <2>5. \A f \in friendships : f.players # {} /\ f.players \subseteq persons[f.p]
      BY DEF FriendsStored
    <2> QED  BY <2>4, <2>5 DEF DeletionsAreWhole, TimesOwned
  <1> QED  BY <1>1, PersonAgentInvariant, PTL

\* In a commit a friendship loses its meeting-time to a person that it deletes.
LEMMA LostInCommit ==
    ASSUME AgentIInv, AgentIInv', NEW p \in Partitions, commit(p),
           NEW f \in friendships, LosesTime(f)
    PROVE  SharerIsDeleted(f)
PROOF
  <1> USE DEF AgentIInv
  <1> DEFINE lost == [f EXCEPT !.timed = FALSE]
  <1>1. f \in Friendship /\ f.timed /\ f \notin friendships' /\ lost \in friendships'
    BY DEF LosesTime, Types
  <1>2. lost.p = f.p /\ lost.first = f.first
    BY <1>1 DEF Friendship
  <1>3. phase[p] = "open" /\ persons'[p] = (persons[p] \cup tx[p].persons) \ tx[p].deletes
    BY DEF commit, Types
  <1>4. f.p = p => f.first \notin tx[p].deletes
    <2>1. lost.first \in persons'[lost.p]
      BY <1>1 DEF FriendsStored
    <2> QED  BY <1>2, <1>3, <2>1
  <1>5. PICK g \in friendships' : After(p, f, g)
    BY <1>4, CommittedFriendships
  <1>6. f.time \in tx[p].times
    <2> SUFFICES ASSUME f.time \notin tx[p].times PROVE FALSE
      OBVIOUS
    <2>1. /\ g.p = f.p /\ g.first = f.first /\ g.time = f.time
          /\ g.players = f.players /\ g.timed = f.timed
      BY <1>1, <1>5 DEF After, FriendsStored
    <2>2. g = f
      BY <1>1, <1>5, <2>1 DEF After, Friendship
    <2> QED  BY <1>1, <2>2
  <1>7. f.time \in times
    BY <1>1 DEF TimesOwned
  <1>8. Deletes(p)
    BY <1>3, <1>6 DEF OpenTxs, Creates, Befriends
  <1>9. PICK h \in friendships :
            h.p = p /\ h.timed /\ h.time = f.time /\ h.first \in tx[p].deletes
    BY <1>6, <1>7, <1>8 DEF Deletes
  <1>10. h.first \in persons[p] /\ h.first \notin persons'[p]
    BY <1>3, <1>8, <1>9 DEF Deletes
  <1> QED  BY <1>9, <1>10 DEF SharerIsDeleted

\* TimesLostToDeletions, for any hash and any readings of the clock: a friendship loses
\* its meeting-time only in the commit that deletes a friendship which shares it.
THEOREM LostToDeletionsOnly == AgentSpec => TimesLostToDeletions
PROOF
  <1>1. AgentIInv /\ AgentIInv' /\ [AgentNext]_agentVars =>
            [\A f \in friendships : LosesTime(f) => SharerIsDeleted(f)]_agentVars
    <2> SUFFICES ASSUME AgentIInv, AgentIInv', AgentNext, NEW f \in friendships, LosesTime(f)
                 PROVE  SharerIsDeleted(f)
      OBVIOUS
    <2>1. friendships' # friendships
      BY DEF LosesTime
    <2>2. PICK p \in Partitions : commit(p)
      BY <2>1 DEF AgentNext, AgentOver, Step, createPerson, createFriendship, deletePersons,
                  OpensTx, read, commitRaises
    <2> QED  BY <2>2, LostInCommit
  <1> QED  BY <1>1, PersonAgentInvariant, PTL DEF AgentSpec, TimesLostToDeletions

-----------------------------------------------------------------------------
\* DrawsHaveNumbers, in every configuration whose first agent creates persons.
THEOREM NobodyDrawsInVain ==
    AgentActions[1] = "createPerson" /\ PersonCreatePerAction > 0 => (AgentSpec => []DrawsHaveNumbers)
PROOF
  <1> SUFFICES ASSUME AgentActions[1] = "createPerson", PersonCreatePerAction > 0
               PROVE  AgentSpec => []DrawsHaveNumbers
    OBVIOUS
  <1>1. AgentInit => Numbered
    BY DEF AgentInit, Numbered
  <1>2. AgentIInv /\ Numbered /\ [AgentNext]_agentVars => Numbered'
    <2> SUFFICES ASSUME AgentIInv, Numbered, [AgentNext]_agentVars PROVE Numbered'
      OBVIOUS
    <2> USE DEF AgentIInv, Numbered
    <2>1. CASE AgentOver
      <3>1. \A p \in Partitions : idCtr[p] > 0
        BY <2>1 DEF AgentOver, Types
      <3>2. idCtr' = idCtr /\ \A p \in Partitions : phase'[p] = "ready"
        BY <2>1 DEF AgentOver
      <3> QED  BY <3>1, <3>2
    <2>2. ASSUME NEW p \in Partitions, createPerson(p) PROVE Numbered'
      <3>1. /\ idCtr' = [idCtr EXCEPT ![p] = idCtr[p] + PersonCreatePerAction]
            /\ phase' = [phase EXCEPT ![p] = "open"] /\ at' = at /\ iter' = iter
        BY <2>2 DEF createPerson, OpensTx
      <3>2. \A q \in Partitions : idCtr[q] \in Nat /\ idCtr'[q] >= idCtr[q]
        BY <3>1, ModelAssumption DEF Types
      <3>3. idCtr'[p] > 0 /\ \A q \in Partitions : q # p => phase'[q] = phase[q]
        BY <3>1, ModelAssumption DEF Types
      <3> QED  BY <3>1, <3>2, <3>3
    <2>3. ASSUME NEW p \in Partitions, createFriendship(p) \/ deletePersons(p) PROVE Numbered'
      <3>1. CanDraw(p) /\ idCtr' = idCtr /\ at' = at /\ iter' = iter
        BY <2>3 DEF createFriendship, deletePersons, OpensTx
      <3>2. \A q \in Partitions : q # p => phase'[q] = phase[q]
        BY <2>3 DEF createFriendship, deletePersons, OpensTx, Types
      <3> QED  BY <3>1, <3>2 DEF CanDraw
    <2>4. ASSUME NEW p \in Partitions, read(p) PROVE Numbered'
      <3>1. /\ ActionOver(p) /\ idCtr' = idCtr /\ at' = at /\ iter' = iter
            /\ AgentActions[at] \in ReadActions /\ left[p] > 0
        BY <2>4 DEF read, Ready
      <3>2. at # 1
        BY <3>1 DEF ReadActions
      <3> QED  BY <3>1, <3>2 DEF Types
    <2>5. ASSUME NEW p \in Partitions, commit(p) \/ commitRaises(p) PROVE Numbered'
      <3>1. phase[p] = "open" /\ idCtr' = idCtr /\ at' = at /\ iter' = iter
        BY <2>5 DEF commit, commitRaises
      <3>2. \A q \in Partitions : q # p => phase'[q] = phase[q]
        BY <2>5 DEF commit, commitRaises, ActionOver, Types
      <3> QED  BY <3>1, <3>2
    <2>6. CASE UNCHANGED agentVars
      BY <2>6 DEF agentVars
    <2> QED  BY <2>1, <2>2, <2>3, <2>4, <2>5, <2>6 DEF AgentNext, Step
  <1>3. AgentIInv /\ Numbered => DrawsHaveNumbers
    BY DEF AgentIInv, Types, Numbered, DrawsHaveNumbers, CanDraw
  <1> QED  BY <1>1, <1>2, <1>3, PersonAgentInvariant, PTL DEF AgentSpec
=============================================================================
