------------------------------ MODULE PersonAgent ------------------------------
(***************************************************************************)
(* The read-write simulation: the actions of PersonAgent on the partitions *)
(* of read-write/common/Context.kt.                                        *)
(*                                                                         *)
(* The agents of the configuration come one after the other; the           *)
(* partitions of an agent run at once, each on a thread that does its      *)
(* actions in turn.  A partition numbers its persons with a counter of its *)
(* own, and its number is part of every name and address.  It is not part  *)
(* of a meeting-time, which is a hash of two numbers added to a reading of *)
(* the clock.  An attribute exists once for each value, so that many       *)
(* friendships, of one partition or of several, may have the same one.     *)
(***************************************************************************)
EXTENDS AgentRuns, Sequences, FiniteSets, Functions

CONSTANTS
    AgentActions,             \* the actions of the configured agents, in order
    PersonCreatePerAction,
    FriendshipCreatePerAction,
    TryPersonDeletePerAction,
    MaxIterations,            \* run.iterations
    Readings,                 \* what the clock may show when an agent is built, in seconds
    HashFactor,               \* 31, by which Objects.hash multiplies
    DateHash,                 \* what Objects.hash makes of "date"
    HalfRange                 \* 2^31: a hash has 32 bits

ReadActions ==
    {"readAddressFromName", "readFriendsOf", "readFriendsOfFriends", "readPersonsByPostCode"}

ASSUME AgentActionsAssumption ==
    /\ AgentActions \in Seq(ReadActions \cup {"createPerson", "createFriendship", "deletePersons"})
    /\ AgentActions # <<>>
ASSUME ModelAssumption ==
    {PersonCreatePerAction, FriendshipCreatePerAction, TryPersonDeletePerAction,
     MaxIterations} \subseteq Nat
ASSUME ClockAssumption == Readings \subseteq Int /\ Readings # {}
ASSUME HashAssumption ==
    HashFactor \in Nat /\ DateHash \in Int /\ HalfRange \in Nat \ {0}

VARIABLES
    persons,       \* persons[p]: the numbers of the persons of partition p
    friendships,   \* [p, first, players, time, timed]: made with the meeting-time `time`,
                   \* which it still has when `timed`
    times,         \* the meeting-times
    idCtr,         \* idCtr[p]: the numbers given out
    phase,         \* "ready", "open" with a transaction, "done" or "failed"
    tx,            \* tx[p]: what the transaction of p does when it is committed
    left,          \* left[p]: actions still to do for the agent
    at,            \* the agent the simulation is at
    timeZero,      \* its reading of the clock
    iter

agentVars == <<persons, friendships, times, idCtr, phase, tx, left, at, timeZero, iter>>

NoTx == [persons |-> {}, friendships |-> {}, deletes |-> {}, times |-> {}]

AgentInit ==
    /\ persons = [p \in Partitions |-> {}]
    /\ friendships = {}
    /\ times = {}
    /\ idCtr = [p \in Partitions |-> 0]
    /\ phase = [p \in Partitions |-> "ready"]
    /\ tx = [p \in Partitions |-> NoTx]
    /\ left = [p \in Partitions |-> ActionsPerIteration]
    /\ at = 1
    /\ timeZero \in Readings
    /\ iter = 1

Running == at <= Len(AgentActions) /\ iter <= MaxIterations

Ready(p, action) == Running /\ phase[p] = "ready" /\ left[p] > 0 /\ AgentActions[at] = action

\* nextInt throws when its bound is 0, when no number has been given out.
CanDraw(p) == idCtr[p] > 0

\* 1 + nextInt(idCtr)
Drawn(p) == {1 + n : n \in 0 .. idCtr[p] - 1}

\* The sets that n draws can make.
Draws(n, values) == {Range(draws) : draws \in [1 .. n -> values]}

----------------------------------------------------------------------------
(***************************************************************************)
(* The action handlers: what is read when the transaction is opened, and   *)
(* what it does when it is committed.                                      *)
(***************************************************************************)
OpensTx(p, changes) ==
    /\ phase' = [phase EXCEPT ![p] = "open"]
    /\ tx' = [tx EXCEPT ![p] = changes]
    /\ UNCHANGED <<persons, friendships, times, left, at, timeZero, iter>>

\* The numbers are taken before the transaction is opened.
createPerson(p) ==
    LET last == idCtr[p] + PersonCreatePerAction IN
    /\ Ready(p, "createPerson")
    /\ idCtr' = [idCtr EXCEPT ![p] = last]
    /\ OpensTx(p, [NoTx EXCEPT !.persons = idCtr[p] + 1 .. last])

\* The value of the 32 bits that an integer is cut to.
Int32(x) == ((x + HalfRange) % (2 * HalfRange)) - HalfRange

\* Objects.hash("date", first, second)
hash(first, second) == Int32(HashFactor * (HashFactor * DateHash + first) + second)

\* Different numbers may have the same date, and those of another iteration too.
dateFrom(first, second) == timeZero + hash(first, second)

\* rel("person", p1).rel("person", p1): the friendship does not relate p2.
Players(first, second) == {first}

\* Both persons have to be found, or the insert does nothing.
Friendships(p, pairs) ==
    {[p |-> p, first |-> pair[1], players |-> Players(pair[1], pair[2]),
      time |-> dateFrom(pair[1], pair[2]), timed |-> TRUE] :
        pair \in {x \in pairs : {x[1], x[2]} \subseteq persons[p]}}

createFriendship(p) ==
    /\ Ready(p, "createFriendship")
    /\ CanDraw(p)
    /\ \E pairs \in Draws(FriendshipCreatePerAction, Drawn(p) \X Drawn(p)) :
          OpensTx(p, [NoTx EXCEPT !.friendships = Friendships(p, pairs)])
    /\ UNCHANGED idCtr

\* Mutant: 1 + nextInt, as in the other handlers.
DrawnFromOne(p) == 1 .. idCtr[p]

\* nextInt, without the 1 that the other handlers add.
DrawnToDelete(p) == 0 .. idCtr[p] - 1

\* The friendships with a meeting-time that a person of the partition plays in.
Matched(p, id) == {f \in friendships : f.p = p /\ id \in f.players /\ f.timed}

\* The meeting-times that go with a person.
TimesOf(p, id) == {f.time : f \in Matched(p, id)}

\* The persons whom one of the queries finds.  They are run one after the other:
\* a friendship whose meeting-time an earlier one has deleted is no longer matched.
Found(p, draws) ==
    LET FoundBy(k) ==
          ~ TimesOf(p, draws[k]) \subseteq UNION {TimesOf(p, draws[j]) : j \in 1 .. k - 1}
    IN  {id \in persons[p] : \E k \in DOMAIN draws : draws[k] = id /\ FoundBy(k)}

\* Mutant: the friendships are matched by the number alone, in every partition.
DeletionAnywhere(p, draws) ==
    [NoTx EXCEPT !.deletes = Found(p, draws),
                 !.times   = UNION {TimesOf(q, id) : q \in Partitions, id \in Found(p, draws)}]

\* The persons found, and the meeting-times of the friendships found with them.
Deletion(p, draws) ==
    [NoTx EXCEPT !.deletes = Found(p, draws),
                 !.times   = UNION {TimesOf(p, id) : id \in Found(p, draws)}]

deletePersons(p) ==
    /\ Ready(p, "deletePersons")
    /\ CanDraw(p)
    /\ \E draws \in [1 .. TryPersonDeletePerAction -> DrawnToDelete(p)] :
          OpensTx(p, Deletion(p, draws))
    /\ UNCHANGED idCtr

ActionOver(p) ==
    /\ left' = [left EXCEPT ![p] = @ - 1]
    /\ phase' = [phase EXCEPT ![p] = IF left[p] = 1 THEN "done" ELSE "ready"]

\* The read handlers open a transaction that is closed without a commit.
read(p) ==
    /\ \E action \in ReadActions :
          /\ Ready(p, action)
          /\ action # "readPersonsByPostCode" => CanDraw(p)
    /\ ActionOver(p)
    /\ UNCHANGED <<persons, friendships, times, idCtr, tx, at, timeZero, iter>>

\* Mutant: only the friendships with a meeting-time are deleted.
TimedAfter(p) ==
    LET deleted == tx[p].deletes
        kept    == {f \in friendships : f.p = p => f.players \cap deleted = {} \/ ~ f.timed}
    IN  {[f EXCEPT !.timed = @ /\ f.time \notin tx[p].times] : f \in kept}
        \cup tx[p].friendships

\* The friendships of a deleted person are deleted, or have no player left; those
\* that share a deleted meeting-time lose it, whatever person and partition they are of.
FriendshipsAfter(p) ==
    LET deleted == tx[p].deletes
        kept    == {f \in friendships : f.p = p => ~ f.players \subseteq deleted}
    IN  {[f EXCEPT !.timed   = @ /\ f.time \notin tx[p].times,
                   !.players = IF f.p = p THEN @ \ deleted ELSE @] : f \in kept}
        \cup tx[p].friendships

commit(p) ==
    /\ phase[p] = "open"
    /\ persons' = [persons EXCEPT ![p] = (@ \cup tx[p].persons) \ tx[p].deletes]
    /\ friendships' = FriendshipsAfter(p)
    /\ times' = (times \ tx[p].times) \cup {f.time : f \in tx[p].friendships}
    /\ tx' = [tx EXCEPT ![p] = NoTx]
    /\ ActionOver(p)
    /\ UNCHANGED <<idCtr, at, timeZero, iter>>

\* The commit raises: deletePersons goes on, the run of another action ends.
commitRaises(p) ==
    /\ phase[p] = "open"
    /\ IF AgentActions[at] = "deletePersons"
         THEN ActionOver(p)
         ELSE /\ phase' = [phase EXCEPT ![p] = "failed"]
              /\ UNCHANGED left
    /\ tx' = [tx EXCEPT ![p] = NoTx]
    /\ UNCHANGED <<persons, friendships, times, idCtr, at, timeZero, iter>>

\* Mutant: the next agent does not wait for all the partitions.
DoesNotWait ==
    /\ Running
    /\ \E p \in Partitions : phase[p] = "done"
    /\ IF at = Len(AgentActions)
         THEN at' = 1 /\ iter' = iter + 1
         ELSE at' = at + 1 /\ UNCHANGED iter
    /\ timeZero' \in Readings
    /\ phase' = [p \in Partitions |-> "ready"]
    /\ left' = [p \in Partitions |-> ActionsPerIteration]
    /\ UNCHANGED <<persons, friendships, times, idCtr, tx>>

\* All runs of the agent are over: the next agent, or the next iteration.  The agents
\* of an iteration are built before it begins, each with a reading of its own.
AgentOver ==
    /\ Running
    /\ \A p \in Partitions : phase[p] = "done"
    /\ IF at = Len(AgentActions)
         THEN at' = 1 /\ iter' = iter + 1
         ELSE at' = at + 1 /\ UNCHANGED iter
    /\ timeZero' \in Readings
    /\ phase' = [p \in Partitions |-> "ready"]
    /\ left' = [p \in Partitions |-> ActionsPerIteration]
    /\ UNCHANGED <<persons, friendships, times, idCtr, tx>>

Step(p) ==
    \/ createPerson(p) \/ createFriendship(p) \/ deletePersons(p) \/ read(p)
    \/ commit(p) \/ commitRaises(p)

AgentNext == AgentOver \/ \E p \in Partitions : Step(p)

AgentSpec == AgentInit /\ [][AgentNext]_agentVars

----------------------------------------------------------------------------
(***************************************************************************)
(* Properties.                                                             *)
(***************************************************************************)
AgentTypeOK ==
    /\ at \in 1 .. Len(AgentActions)
    /\ iter \in 1 .. MaxIterations + 1
    /\ timeZero \in Readings
    /\ \A p \in Partitions :
          /\ idCtr[p] \in Nat
          /\ persons[p] \subseteq 1 .. idCtr[p]
          /\ phase[p] \in {"ready", "open", "done", "failed"}
          /\ left[p] \in 0 .. ActionsPerIteration
          /\ phase[p] # "open" => tx[p] = NoTx
          /\ tx[p].persons \cap persons[p] = {}
          /\ tx[p].deletes \subseteq persons[p]
    /\ \A f \in friendships : f.p \in Partitions /\ f.timed \in BOOLEAN

\* No handler draws a number before its partition has given one out, on which
\* nextInt would throw: createPerson comes first in every configuration, and the
\* agents after it wait for all the partitions.
DrawsHaveNumbers ==
    \A p \in Partitions :
        Running /\ phase[p] = "ready" /\ left[p] > 0
          /\ AgentActions[at] \notin {"createPerson", "readPersonsByPostCode"} => CanDraw(p)

\* The numbers to delete are drawn from 0: the person created last in a partition
\* is never deleted, as long as no later one has been created.  The numbers of
\* persons whose creation has failed are drawn by nobody, since the run is over.
LastPersonStays ==
    \A p \in Partitions :
        idCtr[p] > 0 /\ tx[p].persons = {} /\ phase[p] # "failed" => idCtr[p] \in persons[p]

\* What deletePersons deletes it deletes whole: no friendship is left without a
\* player, or with one that is not stored, those without a meeting-time
\* included; and no meeting-time that no friendship has.
DeletionsAreWhole ==
    /\ AgentTypeOK
    /\ \A f \in friendships : f.players # {} /\ f.players \subseteq persons[f.p]
    /\ times = {f.time : f \in {g \in friendships : g.timed}}

\* A friendship that stays, but no longer has the meeting-time it was made with.
LosesTime(f) ==
    /\ f.timed /\ f \notin friendships'
    /\ [f EXCEPT !.timed = FALSE] \in friendships'

\* A person is deleted who has a friendship with the same meeting-time.
SharerIsDeleted(f) ==
    \E g \in friendships :
        /\ g.timed /\ g.time = f.time
        /\ g.first \in persons[g.p] /\ g.first \notin persons'[g.p]

\* Meeting-times are shared, by friendships of one partition and of several and of
\* different iterations, and a friendship that has lost its own is matched by no
\* deletePersons any more.  It loses it only in the commit that deletes one of
\* those it shares it with, whatever has been committed since that one was found.
TimesLostToDeletions ==
    [][\A f \in friendships : LosesTime(f) => SharerIsDeleted(f)]_agentVars
============================================================================
