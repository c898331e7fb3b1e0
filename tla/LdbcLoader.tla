------------------------------ MODULE LdbcLoader ------------------------------
(***************************************************************************)
(* The LDBC loaders: main of ldbc/typedb2/loader.py or of                  *)
(* ldbc/typedb3/loader.py deletes the database, if there is one, and runs  *)
(* one load function after the other; load_forum runs a thread for each    *)
(* file.                                                                   *)
(*                                                                         *)
(* A call of the driver may raise: the load ends where it is, its open     *)
(* transactions are gone, and what was committed stays until somebody runs *)
(* the program again.  Forum threads go on when another one has raised.    *)
(*                                                                         *)
(* A file is a sequence of rows [type, id, parts], parts being ids, 0 for  *)
(* an empty column; a thing in the database is a pair <<type, id>>, with   *)
(* the relations that are inserted together with it.                       *)
(***************************************************************************)
EXTENDS LdbcTables, SequencesExt, BagsExt

CONSTANTS
    Programs,     \* "typedb2", "typedb3", "typedb3dry"
    BatchSize,    \* batch_size, the same in every call of main
    Workers,      \* max_workers of ThreadPoolExecutor
    Extracts,     \* the data there may be: directory -> sequence of files
    MaxRuns       \* bound: times the program is run

ASSUME ProgramsAssumption == Programs \subseteq {"typedb2", "typedb3", "typedb3dry"}
ASSUME BatchAssumption    == BatchSize \in Nat \ {0}
ASSUME ExtractsAssumption ==
    \A e \in Extracts : \A directory \in Directories :
        e[directory] \in Seq(Seq([type : STRING, id : Nat, parts : Seq(Nat)]))
ASSUME WorkersAssumption  == Workers \in Nat \ {0}
ASSUME MaxRunsAssumption  == MaxRuns \in Nat

Typedb2    == INSTANCE Typedb2Loader
Typedb3    == INSTANCE Typedb3Loader WITH DRY_RUN <- FALSE
Typedb3Dry == INSTANCE Typedb3Loader WITH DRY_RUN <- TRUE

VARIABLES
    program,   \* which loader is run; typedb3/loader.py is typedb3dry as it stands
    extract,   \* its data, in the order of os.listdir
    state,     \* "idle", "loading", "loaded" or "failed"
    at,        \* the load it is at
    files,     \* the state of each file of the directory loaded
    sealed,    \* the transaction of the load has been committed
    db,        \* the things committed, as a bag
    runs       \* times the program has been started

vars == <<program, extract, state, at, files, sealed, db, runs>>

MainOf(p) ==
    CASE p = "typedb2"    -> Typedb2!main
      [] p = "typedb3"    -> Typedb3!main
      [] p = "typedb3dry" -> Typedb3Dry!main

Main == MainOf(program)

Current == Main[at]

----------------------------------------------------------------------------
(***************************************************************************)
(* Rows, files and the things they become.                                 *)
(***************************************************************************)

\* What is read of a file: its rows, once for each pass.
Reads(load, file) ==
    [n \in 1 .. Len(load.passes) * Len(file) |->
        [pass |-> load.passes[(n - 1) \div Len(file) + 1],
         row  |-> file[((n - 1) % Len(file)) + 1]]]

\* The thing a query inserts.
Thing(x) ==
    <<IF x.row.type \in Subtypes(x.pass.makes) THEN x.row.type ELSE x.pass.makes, x.row.id>>

Ids(x) == IF x.pass.own THEN <<x.row.id>> \o x.row.parts ELSE x.row.parts

\* "if row[4]", "if row[3]": only a row with the other id has a query.
HasQuery(x) == ~ x.pass.dry /\ (x.pass.own => 0 \notin ToSet(x.row.parts))

\* The things a query matches, by type and id.
Matches(x, things) ==
    \A k \in DOMAIN x.pass.match :
        \/ Ids(x)[k] = 0
        \/ \E type \in Subtypes(x.pass.match[k]) : <<type, Ids(x)[k]>> \in things

\* No two rows make the same thing: ids are unique among the things of a type,
\* and each row of a relation is one of its own.
ASSUME IdsAssumption ==
    \A p \in Programs, e \in Extracts : \A l, m \in DOMAIN MainOf(p) :
        LET s == e[MainOf(p)[l].reads]
            t == e[MainOf(p)[m].reads]
        IN  \A f \in DOMAIN s, g \in DOMAIN t :
                LET a == Reads(MainOf(p)[l], s[f])
                    b == Reads(MainOf(p)[m], t[g])
                IN  \A i \in DOMAIN a, j \in DOMAIN b :
                        Thing(a[i]) = Thing(b[j]) => l = m /\ f = g /\ i = j

\* Every id is that of a row of the extract, of one of the types that are matched
\* with it; 0 is none.  What is not a place, a tag or a class of tags is in a place,
\* or belongs to what is: its first id is never empty, as the match of its query needs.
ASSUME ReferencesAssumption ==
    \A p \in Programs, e \in Extracts : \A l \in DOMAIN MainOf(p) :
        \A f \in DOMAIN e[MainOf(p)[l].reads] :
            \A x \in ToSet(Reads(MainOf(p)[l], e[MainOf(p)[l].reads][f])) :
                /\ x.row.id # 0
                /\ MainOf(p)[l].reads \notin {"Place", "TagClass", "Tag"} => Ids(x)[1] # 0
                /\ \A k \in DOMAIN x.pass.match : Ids(x)[k] # 0 =>
                      \E m \in DOMAIN MainOf(p) :
                          \E g \in DOMAIN e[MainOf(p)[m].reads] :
                              \E y \in ToSet(Reads(MainOf(p)[m], e[MainOf(p)[m].reads][g])) :
                                  /\ Thing(y)[1] \in Subtypes(x.pass.match[k])
                                  /\ Thing(y)[2] = Ids(x)[k]

Stored == BagToSet(db)

\* A transaction sees what is committed and its own inserts.
Visible(f) == Stored \cup {Thing(x) : x \in files[f].tx}

FileNames == DOMAIN extract[Current.reads]
Content(f) == Reads(Current, extract[Current.reads][f])

Unread == [pc |-> "waiting", pos |-> 0, count |-> 0, tx |-> {}]

Fresh(load) == [f \in DOMAIN extract[load.reads] |-> Unread]

Init ==
    /\ program \in Programs
    /\ extract \in Extracts
    /\ state = "idle"
    /\ at = 0
    /\ files = <<>>
    /\ sealed = FALSE
    /\ db = EmptyBag
    /\ runs = 0

----------------------------------------------------------------------------
(***************************************************************************)
(* main                                                                    *)
(***************************************************************************)

\* The load l begins, or there is none left.
Proceeds(l) ==
    /\ at' = l
    /\ state' = IF l > Len(Main) THEN "loaded" ELSE "loading"
    /\ files' = IF l > Len(Main) THEN <<>> ELSE Fresh(Main[l])
    /\ sealed' = FALSE

\* Mutant: an existing database is kept.
KeepsDatabase ==
    /\ state # "loading"
    /\ runs < MaxRuns
    /\ runs' = runs + 1
    /\ Proceeds(1)
    /\ UNCHANGED <<program, extract, db>>

\* The program is run: the database is deleted, created and given its schema.
Begin ==
    /\ state # "loading"
    /\ runs < MaxRuns
    /\ runs' = runs + 1
    /\ db' = EmptyBag
    /\ Proceeds(1)
    /\ UNCHANGED <<program, extract>>

Closed(f) == files[f].pc = "closed"
Over(f)   == files[f].pc \in {"closed", "failed", "cancelled"}

\* The load function returns.
EndLoad ==
    /\ state = "loading"
    /\ \A f \in FileNames : Closed(f)
    /\ Proceeds(at + 1)
    /\ UNCHANGED <<program, extract, db, runs>>

\* Mutant: the program ends with the first thread that has raised.
FailAtOnce ==
    /\ state = "loading"
    /\ \E f \in FileNames : files[f].pc = "failed"
    /\ state' = "failed"
    /\ UNCHANGED <<program, extract, at, files, sealed, db, runs>>

\* Mutant: it waits for every file to be loaded.
FailNever ==
    /\ state = "loading"
    /\ \A f \in FileNames : Closed(f)
    /\ \E f \in FileNames : files[f].pc = "failed"
    /\ state' = "failed"
    /\ UNCHANGED <<program, extract, at, files, sealed, db, runs>>

\* An exception ends the program, after the threads that are running: the with
\* statement of the executor waits for them.
Fail ==
    /\ state = "loading"
    /\ \E f \in FileNames : files[f].pc = "failed"
    /\ IF Current.threads THEN \A f \in FileNames : Over(f) ELSE TRUE
    /\ state' = "failed"
    /\ UNCHANGED <<program, extract, at, files, sealed, db, runs>>

----------------------------------------------------------------------------
(***************************************************************************)
(* A file: process_file, and the body of the loop of the other functions.  *)
(***************************************************************************)
Loading(f, pc) == state = "loading" /\ f \in FileNames /\ files[f].pc = pc

Sets(f, value) == files' = [files EXCEPT ![f] = value]

\* One after the other, or as many at once as the executor has threads.
CanOpen(f) ==
    IF Current.threads
      THEN /\ \A g \in 1 .. f - 1 : files[g].pc # "waiting"
           /\ Cardinality({g \in FileNames : files[g].pc \in {"open", "full"}}) < Workers
      ELSE \A g \in 1 .. f - 1 : Closed(g)

\* The file and its first transaction are opened.
Open(f) ==
    /\ Loading(f, "waiting")
    /\ CanOpen(f)
    /\ Sets(f, [Unread EXCEPT !.pc = "open",
                              !.count = IF Current.carried /\ f > 1 THEN files[f - 1].count ELSE 0])
    /\ UNCHANGED <<program, extract, state, at, sealed, db, runs>>

\* Mutant: the rows are tested before the last one is counted.
CountsLate(count) == count > 1 /\ (count - 1) % BatchSize = 0

\* processed_rows % batch_size == 0, len(queries) == batch_size
BatchFull(count) == count % BatchSize = 0

\* A row is read, and its query executed or queued.
Row(f) ==
    LET file == files[f]
        x    == Content(f)[file.pos + 1]
        takes == /\ HasQuery(x)
                 /\ Current.commit = "queue" \/ Matches(x, Visible(f))
        batched == Current.commit \in {"batch", "queue"}
    IN
    /\ Loading(f, "open")
    /\ file.pos + 1 \in DOMAIN Content(f)
    /\ ~ sealed
    /\ Sets(f, [pc    |-> IF batched /\ BatchFull(file.count + 1) THEN "full" ELSE "open",
                pos   |-> file.pos + 1,
                count |-> file.count + 1,
                tx    |-> IF takes THEN file.tx \cup {x} ELSE file.tx])
    /\ UNCHANGED <<program, extract, state, at, sealed, db, runs>>

\* tx.commit(), after the queries in the queue if they were queued.
Committed(f) ==
    LET executed == IF Current.commit = "queue"
                      THEN {x \in files[f].tx : Matches(x, Stored)}
                      ELSE files[f].tx
    IN db (+) SetToBag({Thing(x) : x \in executed})

\* A full batch is committed and a transaction opened for the next one.
CommitBatch(f) ==
    /\ Loading(f, "full")
    /\ db' = Committed(f)
    /\ Sets(f, [files[f] EXCEPT !.pc = "open", !.tx = {}])
    /\ UNCHANGED <<program, extract, state, at, sealed, runs>>
\* What is left in the last transaction of a file is committed.
HasRest(f) == Current.commit \in {"batch", "queue"} => files[f].count % BatchSize # 0

AtEnd(f) == Loading(f, "open") /\ ~ sealed /\ files[f].pos = Len(Content(f))

EndFile(f) ==
    /\ AtEnd(f)
    /\ IF HasRest(f)
         THEN /\ db' = Committed(f)
              /\ Sets(f, [files[f] EXCEPT !.pc = "closed", !.tx = {}])
         ELSE /\ Sets(f, [files[f] EXCEPT !.pc = "closed"])
              /\ UNCHANGED db
    /\ sealed' = (Current.commit = "load")
    /\ UNCHANGED <<program, extract, state, at, runs>>

\* A call raises, and the transaction is gone.
Raises(f) ==
    /\ Loading(f, "open") \/ Loading(f, "full")
    /\ Sets(f, [files[f] EXCEPT !.pc = "failed", !.tx = {}])
    /\ UNCHANGED <<program, extract, state, at, sealed, db, runs>>

\* It is the answer of a commit that is lost.
CommitRaises(f) ==
    /\ Loading(f, "full") \/ (AtEnd(f) /\ HasRest(f))
    /\ db' = Committed(f)
    /\ Sets(f, [files[f] EXCEPT !.pc = "failed", !.tx = {}])
    /\ UNCHANGED <<program, extract, state, at, sealed, runs>>

\* load_tagclass: the one transaction of its with statement is closed by the
\* commit after the first file.
UsesClosed(f) ==
    /\ Loading(f, "open")
    /\ sealed
    /\ Sets(f, [files[f] EXCEPT !.pc = "failed"])
    /\ UNCHANGED <<program, extract, state, at, sealed, db, runs>>

\* The results of executor.map come in the order of the files: at the first
\* exception the files that no thread has taken are cancelled.
Cancel(f) ==
    /\ Loading(f, "waiting")
    /\ Current.threads
    /\ \E g \in FileNames : files[g].pc = "failed" /\ \A h \in 1 .. g - 1 : Closed(h)
    /\ Sets(f, [files[f] EXCEPT !.pc = "cancelled"])
    /\ UNCHANGED <<program, extract, state, at, sealed, db, runs>>

Works(f) ==
    Open(f) \/ Row(f) \/ CommitBatch(f) \/ EndFile(f) \/ UsesClosed(f) \/ Cancel(f)

Progress == EndLoad \/ Fail \/ \E f \in DOMAIN files : Works(f)

Next == Begin \/ Progress \/ \E f \in DOMAIN files : Raises(f) \/ CommitRaises(f)

Spec == Init /\ [][Next]_vars

\* The calls of the driver return or raise, and a thread that has work goes on.
\* Nobody has to run the program again.
FairSpec == Spec /\ WF_vars(Progress)

----------------------------------------------------------------------------
(***************************************************************************)
(* Properties.                                                             *)
(***************************************************************************)
FileStates == {"waiting", "open", "full", "closed", "failed", "cancelled"}

TypeOK ==
    /\ program \in Programs
    /\ extract \in Extracts
    /\ state \in {"idle", "loading", "loaded", "failed"}
    /\ sealed \in BOOLEAN
    /\ IsABag(db)
    /\ runs \in 0 .. MaxRuns
    /\ at \in 0 .. Len(Main) + 1
    /\ state \in {"loading", "failed"} =>
          \A f \in FileNames :
              /\ files[f].pc \in FileStates
              /\ files[f].pos \in 0 .. Len(Content(f))
              /\ files[f].count \in Nat
              /\ ~ Current.carried => files[f].count = files[f].pos
              /\ files[f].tx \subseteq ToSet(Content(f))

Rows(load) == UNION {ToSet(Reads(load, file)) : file \in ToSet(extract[load.reads])}

\* The comments, in the order in which they are read.
CommentPlaces ==
    UNION {{f} \X DOMAIN extract["Comment"][f] : f \in DOMAIN extract["Comment"]}

CommentAt(p) == extract["Comment"][p[1]][p[2]]

Before(p, q) == p[1] < q[1] \/ (p[1] = q[1] /\ p[2] < q[2])

\* A comment on one that is not read before it.
TooEarly(p) == \E q \in CommentPlaces : ~ Before(q, p) /\ CommentAt(q).id = CommentAt(p).parts[4]

WithReplies(S) ==
    \A p \in CommentPlaces :
        TooEarly(p) \/ CommentAt(p).parts[4] \in S => CommentAt(p).id \in S

\* The comments on a comment that is read after them, and the comments on those.
LateReplies ==
    LET ids == {CommentAt(p).id : p \in CommentPlaces}
    IN {id \in ids : \A S \in SUBSET ids : WithReplies(S) => id \in S}

NeedsLateReply(x) ==
    \/ x.pass.makes = "Comment" /\ x.row.id \in LateReplies
    \/ \E k \in DOMAIN x.pass.match : x.pass.match[k] = "Comment" /\ Ids(x)[k] \in LateReplies

\* A dry run inserts no places, so that nothing matches but tags and their classes.
NeedsPlace(load) == load.reads \notin {"TagClass", "Tag"}

\* When a load function has returned, each row of its directory is in the
\* database.  The order of the loads, the batches and the threads leave none out
\* but the comments whose parent is read later, which match nothing, and what
\* refers to such a comment; and in a dry run whatever is in a place, or refers
\* to what is in one.
LoadedButLateReplies ==
    \A l \in 1 .. at - 1 : \A x \in Rows(Main[l]) :
        (x.pass.own => 0 \notin ToSet(x.row.parts)) =>
            (Thing(x) \in Stored <=>
                ~ NeedsLateReply(x) /\ ~ (program = "typedb3dry" /\ NeedsPlace(Main[l])))

\* The transaction left open at the end of a file, when its last row has filled
\* a batch, holds nothing: also where the count is that of several files.
NothingLeftBehind ==
    state = "loading" => \A f \in FileNames : Closed(f) => files[f].tx = {}

PartsIn(x, things) ==
    \A k \in DOMAIN x.pass.match : Ids(x)[k] # 0 =>
        \E thing \in things : thing[1] \in Subtypes(x.pass.match[k]) /\ thing[2] = Ids(x)[k]

\* Wherever a load ends early, every thing in the database is that of a row whose
\* parts are in the database too; and running the program again after a failure,
\* or after a commit whose answer was lost, loads nothing twice.
StoredOnce ==
    /\ TypeOK
    /\ \A thing \in Stored :
          /\ db[thing] = 1
          /\ \E l \in 1 .. Len(Main) : \E x \in Rows(Main[l]) :
                Thing(x) = thing /\ PartsIn(x, Stored)

\* When a thread has raised, the program ends with every other file loaded to
\* its end, failed as well, or never begun.  (In a dry run no moderator of a forum
\* is there, and none is loaded.)
ThreadsFinish ==
    state = "failed" /\ Current.threads =>
        \A f \in FileNames :
            /\ Over(f)
            /\ Closed(f) /\ program # "typedb3dry" =>
                  \A x \in ToSet(Content(f)) : Thing(x) \in Stored
            /\ files[f].pc = "cancelled" => \A x \in ToSet(Content(f)) : Thing(x) \notin Stored

\* A run ends, whatever raises: no thread is waited for in vain.
LoadEnds == state = "loading" ~> state # "loading"
============================================================================
