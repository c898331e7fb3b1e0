-------------------------- MODULE LdbcLoader_proofs ---------------------------
(***************************************************************************)
(* The LDBC loaders, for any data, batch size, number of threads and order *)
(* of the rows: no row is left in a transaction nobody commits, none is    *)
(* stored twice or before its parts, every row but the late replies is     *)
(* stored when its load function has returned, and the forum threads each  *)
(* come to an end.                                                         *)
(*                                                                         *)
(* IInv       what an open transaction at the end of a batch holds         *)
(* FilesInv   what is held of a file has been read of it                   *)
(* StoredInv  what is stored has been read and is held no more; HeldInv:   *)
(*            what is held matched what its transaction sees               *)
(* OrderInv   which files are closed before one is opened                  *)
(* LoadedInv  what has been read and is wanted is held or stored           *)
(* TakenInv   what is held or stored is no comment on a later one          *)
(***************************************************************************)
EXTENDS LdbcLoader, TLAPS

\* A transaction that a full batch has begun holds nothing until a row is read.
\* The count goes on from file to file in some loads: it may be full again, or
\* not, when the first row of a file is read, and nothing is held then either.
BatchesCommitted(f) ==
    /\ files[f].pc \in {"waiting", "closed"} => files[f].tx = {}
    /\ files[f].pc = "open" /\ Current.commit \in {"batch", "queue"}
         /\ files[f].count % BatchSize = 0 => files[f].tx = {}

\* A state of a file: a record of these fields, whatever they hold.
IsFile(r) == r \in [pc : {r.pc}, pos : {r.pos}, count : {r.count}, tx : {r.tx}]

IInv ==
    state = "loading" =>
        /\ files = [f \in FileNames |-> files[f]]
        /\ \A f \in FileNames :
              /\ IsFile(files[f])
              /\ BatchesCommitted(f)

-----------------------------------------------------------------------------
\* What a step of one file has to show.
LEMMA OneFile ==
    ASSUME IInv, NEW f \in FileNames, state = "loading", NEW value, Sets(f, value),
           UNCHANGED <<program, extract, state, at>>, IsFile(value),
           value.pc \in {"waiting", "closed"} => value.tx = {},
           value.pc = "open" /\ Current.commit \in {"batch", "queue"}
             /\ value.count % BatchSize = 0 => value.tx = {}
    PROVE  IInv'
PROOF
  <1>1. FileNames' = FileNames /\ Current' = Current /\ state' = "loading"
    BY DEF FileNames, Current, Main
  <1>2. files' = [files EXCEPT ![f] = value]
    BY DEF Sets
  <1>3. files'[f] = value /\ \A g \in FileNames : g # f => files'[g] = files[g]
    BY <1>2 DEF IInv
  <1>4. files' = [g \in FileNames |-> files'[g]]
    BY <1>2 DEF IInv
  <1>5. ASSUME NEW g \in FileNames
        PROVE  IsFile(files'[g]) /\ BatchesCommitted(g)'
    <2>1. CASE g = f
      BY <1>1, <1>3, <2>1 DEF BatchesCommitted
    <2>2. CASE g # f
      BY <1>1, <1>3, <2>2 DEF IInv, BatchesCommitted
    <2> QED  BY <2>1, <2>2
  <1>6. \A g \in FileNames : IsFile(files[g])' <=> IsFile(files'[g])
    BY DEF IsFile
  <1> QED  BY <1>1, <1>4, <1>5, <1>6 DEF IInv

\* A load function begins with files nobody has opened.
LEMMA ProceedsIInv ==
    ASSUME NEW l, Proceeds(l), UNCHANGED <<program, extract>>
    PROVE  IInv'
PROOF
  <1> SUFFICES ASSUME state' = "loading" PROVE IInv'
    BY DEF IInv
  <1>1. Main' = Main /\ at' = l
    BY DEF Proceeds, Main
  <1>2. FileNames' = DOMAIN extract[Main[l].reads]
    BY <1>1 DEF FileNames, Current
  <1>3. files' = [f \in FileNames' |-> Unread]
    BY <1>2 DEF Proceeds, Fresh
  <1>4. IsFile(Unread)
    BY DEF IsFile, Unread
  <1> QED  BY <1>3, <1>4 DEF IInv, BatchesCommitted, Unread, IsFile

\* A row is added to the batch, or closes it.
LEMMA RowIInv ==
    ASSUME IInv, NEW f, Row(f)
    PROVE  IInv'
PROOF
  <1> DEFINE file    == files[f]
             x       == Content(f)[file.pos + 1]
             takes   == HasQuery(x) /\ (Current.commit = "queue" \/ Matches(x, Visible(f)))
             batched == Current.commit \in {"batch", "queue"}
             value   == [pc    |-> IF batched /\ BatchFull(file.count + 1) THEN "full" ELSE "open",
                         pos   |-> file.pos + 1,
                         count |-> file.count + 1,
                         tx    |-> IF takes THEN file.tx \cup {x} ELSE file.tx]
  <1>1. /\ f \in FileNames /\ state = "loading" /\ Sets(f, value)
        /\ UNCHANGED <<program, extract, state, at>>
    BY DEF Row, Loading
  <1>2. value.pc \notin {"waiting", "closed"}
    OBVIOUS
  <1>3. ~ (value.pc = "open" /\ batched /\ value.count % BatchSize = 0)
    BY DEF BatchFull
  <1>4. IsFile(value)
    BY DEF IsFile
  <1> HIDE DEF value
  <1> QED  BY <1>1, <1>2, <1>3, <1>4, OneFile

\* A state of a file with another pc, and with its transaction gone.
LEMMA Moved ==
    ASSUME NEW r, NEW pc, IsFile(r)
    PROVE  LET s == [r EXCEPT !.pc = pc] IN IsFile(s) /\ s.pc = pc /\ s.tx = r.tx /\ s.pos = r.pos /\ s.count = r.count
  BY DEF IsFile

\* A committed transaction is empty.
LEMMA Emptied ==
    ASSUME NEW r, NEW pc, IsFile(r)
    PROVE  LET s == [r EXCEPT !.pc = pc, !.tx = {}] IN IsFile(s) /\ s.pc = pc /\ s.tx = {} /\ s.pos = r.pos /\ s.count = r.count
  BY DEF IsFile

\* Opening a file keeps the invariant.
LEMMA OpenIInv ==
    ASSUME IInv, NEW f, Open(f)
    PROVE  IInv'
PROOF
  <1> DEFINE count == IF Current.carried /\ f > 1 THEN files[f - 1].count ELSE 0
             value == [Unread EXCEPT !.pc = "open", !.count = count]
  <1>1. /\ f \in FileNames /\ state = "loading" /\ Sets(f, value)
        /\ UNCHANGED <<program, extract, state, at>>
    BY DEF Open, Loading
  <1> HIDE DEF count
  <1>2. IsFile(value) /\ value.tx = {}
    BY DEF IsFile, Unread
  <1> HIDE DEF value
  <1> QED  BY <1>1, <1>2, OneFile

\* The steps that leave a file open have committed what it held.
LEMMA CommitBatchIInv ==
    ASSUME IInv, NEW f, CommitBatch(f)
    PROVE  IInv'
PROOF
  <1> DEFINE value == [files[f] EXCEPT !.pc = "open", !.tx = {}]
  <1>1. /\ f \in FileNames /\ state = "loading" /\ Sets(f, value)
        /\ UNCHANGED <<program, extract, state, at>>
    BY DEF CommitBatch, Loading
  <1>2. IsFile(files[f])
    BY <1>1 DEF IInv
  <1>3. IsFile(value) /\ value.tx = {}
    BY <1>2, Emptied
  <1> HIDE DEF value
  <1> QED  BY <1>1, <1>3, OneFile

\* Without a rest to commit, the last transaction is the one that a full batch
\* has begun, or a file without rows.
LEMMA EndFileIInv ==
    ASSUME IInv, NEW f, EndFile(f)
    PROVE  IInv'
PROOF
  <1> DEFINE emptied == [files[f] EXCEPT !.pc = "closed", !.tx = {}]
             closed  == [files[f] EXCEPT !.pc = "closed"]
  <1>1. /\ f \in FileNames /\ state = "loading" /\ files[f].pc = "open"
        /\ IF HasRest(f) THEN Sets(f, emptied) ELSE Sets(f, closed)
        /\ UNCHANGED <<program, extract, state, at>>
    BY DEF EndFile, AtEnd, Loading
  <1>2. IsFile(files[f]) /\ BatchesCommitted(f)
    BY <1>1 DEF IInv
  <1>3. CASE HasRest(f)
    <2>1. IsFile(emptied) /\ emptied.tx = {} /\ Sets(f, emptied)
      BY <1>1, <1>2, <1>3, Emptied
    <2> HIDE DEF emptied
    <2> QED  BY <1>1, <2>1, OneFile
  <1>4. CASE ~ HasRest(f)
    <2>1. files[f].tx = {}
      BY <1>1, <1>2, <1>4 DEF HasRest, BatchesCommitted
    <2>2. IsFile(closed) /\ closed.tx = {} /\ Sets(f, closed)
      BY <1>1, <1>2, <1>4, <2>1, Moved
    <2> HIDE DEF closed
    <2> QED  BY <1>1, <2>2, OneFile
  <1> QED  BY <1>3, <1>4

\* A file that has failed is neither closed nor open.
LEMMA FailedIInv ==
    ASSUME IInv, NEW f, Raises(f) \/ CommitRaises(f) \/ UsesClosed(f)
    PROVE  IInv'
PROOF
  <1> DEFINE emptied == [files[f] EXCEPT !.pc = "failed", !.tx = {}]
             failed  == [files[f] EXCEPT !.pc = "failed"]
  <1>1. /\ f \in FileNames /\ state = "loading"
        /\ Sets(f, emptied) \/ Sets(f, failed)
        /\ UNCHANGED <<program, extract, state, at>>
    BY DEF Raises, CommitRaises, UsesClosed, AtEnd, Loading
  <1>2. IsFile(files[f])
    BY <1>1 DEF IInv
  <1>3. /\ IsFile(emptied) /\ emptied.pc = "failed"
        /\ IsFile(failed) /\ failed.pc = "failed"
    <2>1. IsFile(emptied) /\ emptied.pc = "failed"
      BY <1>2, Emptied, Zenon
    <2>2. IsFile(failed) /\ failed.pc = "failed"
      BY <1>2, Moved, Zenon
    <2> QED  BY <2>1, <2>2
  <1> HIDE DEF emptied, failed
  <1>4. CASE Sets(f, emptied)
    BY <1>1, <1>3, <1>4, OneFile
  <1>5. CASE Sets(f, failed)
    BY <1>1, <1>3, <1>5, OneFile
  <1> QED  BY <1>1, <1>4, <1>5

\* What the executor cancels was never opened.
LEMMA CancelIInv ==
    ASSUME IInv, NEW f, Cancel(f)
    PROVE  IInv'
PROOF
  <1> DEFINE value == [files[f] EXCEPT !.pc = "cancelled"]
  <1>1. /\ f \in FileNames /\ state = "loading" /\ Sets(f, value)
        /\ UNCHANGED <<program, extract, state, at>>
    BY DEF Cancel, Loading
  <1>2. IsFile(files[f])
    BY <1>1 DEF IInv
  <1>3. IsFile(value) /\ value.pc = "cancelled"
    BY <1>2, Moved, Zenon
  <1> HIDE DEF value
  <1> QED  BY <1>1, <1>3, OneFile

-----------------------------------------------------------------------------
\* An open transaction at a count that ends a batch is empty, for any data and batch
\* size (loader.py of both versions).
THEOREM LoaderInvariant == Spec => []IInv
PROOF
  <1>1. Init => IInv
    BY DEF Init, IInv
  <1>2. IInv /\ [Next]_vars => IInv'
    <2> SUFFICES ASSUME IInv, [Next]_vars PROVE IInv'
      OBVIOUS
    <2>1. CASE Begin
      BY <2>1, ProceedsIInv DEF Begin
    <2>2. CASE EndLoad
      BY <2>2, ProceedsIInv DEF EndLoad
    <2>3. CASE Fail
      BY <2>3 DEF Fail, IInv
    <2>4. ASSUME NEW f \in DOMAIN files, Works(f) PROVE IInv'
      BY <2>4, OpenIInv, RowIInv, CommitBatchIInv, EndFileIInv, FailedIInv, CancelIInv DEF Works
    <2>5. ASSUME NEW f \in DOMAIN files, Raises(f) \/ CommitRaises(f) PROVE IInv'
      BY <2>5, FailedIInv
    <2>6. CASE UNCHANGED vars
      <3>1. FileNames' = FileNames /\ Current' = Current /\ state' = state /\ files' = files
        BY <2>6 DEF vars, FileNames, Current, Main
      <3> QED  BY <3>1 DEF IInv, IsFile, BatchesCommitted
    <2> QED  BY <2>1, <2>2, <2>3, <2>4, <2>5, <2>6 DEF Next, Progress
  <1> QED  BY <1>1, <1>2, PTL DEF Spec

\* NothingLeftBehind, also where the count of rows goes on from file to file: a
\* transaction that nobody commits holds no row.
THEOREM AllCommitted == Spec => []NothingLeftBehind
PROOF
  <1>1. IInv => NothingLeftBehind
    BY DEF IInv, NothingLeftBehind, BatchesCommitted, Closed
  <1> QED  BY <1>1, LoaderInvariant, PTL

-----------------------------------------------------------------------------
(***************************************************************************)
(* The loads of main, of either loader.                                    *)
(***************************************************************************)
IsSequence(s) == \E S : s \in Seq(S)

IsContinued(u, s, t) ==
    /\ IsSequence(u) /\ Len(s) \in Nat
    /\ Len(u) = Len(s) + Len(t)
    /\ \A k \in 1 .. Len(s) : u[k] = s[k]
    /\ \A k \in 1 .. Len(t) : u[Len(s) + k] = t[k]

\* What comes after a sequence leaves its elements where they are.
LEMMA Continued ==
    ASSUME NEW s, IsSequence(s), NEW t, IsSequence(t)
    PROVE  IsContinued(s \o t, s, t)
PROOF
  <1>1. PICK S : s \in Seq(S)
    BY DEF IsSequence
  <1>2. PICK T : t \in Seq(T)
    BY DEF IsSequence
  <1> DEFINE U == S \cup T
  <1>3. s \in Seq(U) /\ t \in Seq(U)
    BY <1>1, <1>2
  <1> HIDE DEF U
  <1>4. s \o t \in Seq(U)
    BY <1>3
  <1>5. Len(s) \in Nat /\ Len(t) \in Nat
    BY <1>3
  <1>6. /\ Len(s \o t) = Len(s) + Len(t)
        /\ \A k \in 1 .. Len(s) : (s \o t)[k] = s[k]
        /\ \A k \in 1 .. Len(t) : (s \o t)[Len(s) + k] = t[k]
    BY <1>3, <1>5
  <1>7. IsSequence(s \o t)
    BY <1>4 DEF IsSequence
  <1> QED  BY <1>5, <1>6, <1>7 DEF IsContinued

\* One more element.
IsLonger(u, s, a) ==
    /\ IsSequence(u) /\ Len(s) \in Nat /\ Len(u) = Len(s) + 1
    /\ \A k \in 1 .. Len(s) : u[k] = s[k]
    /\ u[Len(s) + 1] = a

\* That is what appending it makes.
LEMMA OneMore ==
    ASSUME NEW s, IsSequence(s), NEW a
    PROVE  IsLonger(s \o <<a>>, s, a)
PROOF
  <1> DEFINE S == {a}
             t == <<a>>
  <1>1. t \in Seq(S) /\ Len(t) = 1 /\ t[1] = a
    OBVIOUS
  <1> HIDE DEF S, t
  <1>2. IsSequence(t)
    BY <1>1 DEF IsSequence
  <1> DEFINE u == s \o t
  <1>3. IsContinued(u, s, t)
    BY <1>2, Continued, Zenon
  <1> HIDE DEF u
  <1>4. u[Len(s) + 1] = a
    BY <1>1, <1>3 DEF IsContinued
  <1>5. IsLonger(u, s, a)
    BY <1>1, <1>3, <1>4 DEF IsLonger, IsContinued
  <1> QED  BY <1>5 DEF u, t

Begins(s, a, b, c, d, e, g, h, p, q, t) ==
    /\ IsSequence(s) /\ Len(t) \in Nat /\ Len(s) = 9 + Len(t)
    /\ s[1] = a /\ s[2] = b /\ s[3] = c /\ s[4] = d /\ s[5] = e /\ s[6] = g
    /\ s[7] = h /\ s[8] = p /\ s[9] = q
    /\ \A k \in 1 .. Len(t) : s[9 + k] = t[k]

\* How a sequence of functions of one load each, the first of two, begins.
LEMMA Beginning ==
    ASSUME NEW a, NEW b, NEW c, NEW d, NEW e, NEW g, NEW h, NEW p, NEW q,
           NEW t, IsSequence(t)
    PROVE  Begins(<<a, b>> \o <<c>> \o <<d>> \o <<e>> \o <<g>> \o <<h>> \o <<p>> \o <<q>> \o t,
                  a, b, c, d, e, g, h, p, q, t)
PROOF
  <1> DEFINE s2 == <<a, b>>
             s3 == s2 \o <<c>>
             s4 == s3 \o <<d>>
             s5 == s4 \o <<e>>
             s6 == s5 \o <<g>>
             s7 == s6 \o <<h>>
             s8 == s7 \o <<p>>
             s9 == s8 \o <<q>>
             s  == s9 \o t
             S2 == {a, b}
  <1>1. s2 \in Seq(S2) /\ Len(s2) = 2 /\ s2[1] = a /\ s2[2] = b
    OBVIOUS
  <1> HIDE DEF s2, S2
  <1>2. IsSequence(s2)
    BY <1>1 DEF IsSequence
  <1>3. /\ IsSequence(s3) /\ Len(s3) = 3
        /\ s3[1] = a /\ s3[2] = b /\ s3[3] = c
    <2>1. IsLonger(s3, s2, c)
      BY <1>1, <1>2, OneMore, Zenon
    <2> HIDE DEF s3
    <2> QED  BY <1>1, <1>2, <2>1 DEF IsLonger
  <1> HIDE DEF s3
  <1>4. /\ IsSequence(s4) /\ Len(s4) = 4
        /\ s4[1] = a /\ s4[2] = b /\ s4[3] = c /\ s4[4] = d
    <2>1. IsLonger(s4, s3, d)
      BY <1>3, OneMore, Zenon
    <2> HIDE DEF s4
    <2> QED  BY <1>3, <2>1 DEF IsLonger
  <1> HIDE DEF s4
  <1>5. /\ IsSequence(s5) /\ Len(s5) = 5
        /\ s5[1] = a /\ s5[2] = b /\ s5[3] = c /\ s5[4] = d /\ s5[5] = e
    <2>1. IsLonger(s5, s4, e)
      BY <1>4, OneMore, Zenon
    <2> HIDE DEF s5
    <2> QED  BY <1>4, <2>1 DEF IsLonger
  <1> HIDE DEF s5
  <1>6. /\ IsSequence(s6) /\ Len(s6) = 6
        /\ s6[1] = a /\ s6[2] = b /\ s6[3] = c /\ s6[4] = d /\ s6[5] = e /\ s6[6] = g
    <2>1. IsLonger(s6, s5, g)
      BY <1>5, OneMore, Zenon
    <2> HIDE DEF s6
    <2> QED  BY <1>5, <2>1 DEF IsLonger
  <1> HIDE DEF s6
  <1>7. /\ IsSequence(s7) /\ Len(s7) = 7
        /\ s7[1] = a /\ s7[2] = b /\ s7[3] = c /\ s7[4] = d /\ s7[5] = e /\ s7[6] = g
        /\ s7[7] = h
    <2>1. IsLonger(s7, s6, h)
      BY <1>6, OneMore, Zenon
    <2> HIDE DEF s7
    <2> QED  BY <1>6, <2>1 DEF IsLonger
  <1> HIDE DEF s7
  <1>8. /\ IsSequence(s8) /\ Len(s8) = 8
        /\ s8[1] = a /\ s8[2] = b /\ s8[3] = c /\ s8[4] = d /\ s8[5] = e /\ s8[6] = g
        /\ s8[7] = h /\ s8[8] = p
    <2>1. IsLonger(s8, s7, p)
      BY <1>7, OneMore, Zenon
    <2> HIDE DEF s8
    <2> QED  BY <1>7, <2>1 DEF IsLonger
  <1> HIDE DEF s8
  <1>9. /\ IsSequence(s9) /\ Len(s9) = 9
        /\ s9[1] = a /\ s9[2] = b /\ s9[3] = c /\ s9[4] = d /\ s9[5] = e /\ s9[6] = g
        /\ s9[7] = h /\ s9[8] = p /\ s9[9] = q
    <2>1. IsLonger(s9, s8, q)
      BY <1>8, OneMore, Zenon
    <2> HIDE DEF s9
    <2> QED  BY <1>8, <2>1 DEF IsLonger
  <1> HIDE DEF s9
  <1>10. Len(t) \in Nat
    BY DEF IsSequence
  <1>11. IsContinued(s, s9, t)
    BY <1>9, Continued, Zenon
  <1> HIDE DEF s
  <1>12. Begins(s, a, b, c, d, e, g, h, p, q, t)
    BY <1>9, <1>10, <1>11 DEF IsContinued, Begins
  <1> QED  BY <1>12 DEF s, s9, s8, s7, s6, s5, s4, s3, s2

Matched == {"City", "Country", "Continent", "University", "Company", "TagClass", "Tag",
            "Person", "Forum", "Post", "Comment"}

\* The load that makes the things of a type.
Stage(type) ==
    CASE type \in {"City", "Country", "Continent"} -> 1
      [] type \in {"University", "Company"}        -> 3
      [] type = "TagClass"                         -> 4
      [] type = "Tag"                              -> 5
      [] type = "Person"                           -> 6
      [] type = "Forum"                            -> 7
      [] type = "Post"                             -> 8
      [] type = "Comment"                          -> 9
      [] OTHER                                     -> 0

Makes(pass) == Subtypes(pass.makes) \cup {pass.makes}

\* Pass j of load l: what it matches is made by a load before, but for the
\* superclass of a class of tags, which the first pass over them makes, and what a
\* comment is on.
PassFits(l, j, pass) ==
    /\ pass.dry <=> l = 1 /\ program = "typedb3dry"
    /\ pass.own <=> l = 2 \/ (l = 4 /\ j = 2)
    /\ \A T \in Makes(pass) : T \in Matched => Stage(T) = l /\ ~ pass.own
    /\ pass.makes = "Comment" <=> l = 9
    /\ \A k \in DOMAIN pass.match : \A T \in Subtypes(pass.match[k]) :
          /\ T \in Matched
          /\ \/ Stage(T) < l
             \/ Stage(T) = l /\ l = 4 /\ j = 2
             \/ Stage(T) = l /\ l = 9 /\ k = 4
          /\ l \in {4, 5} => Stage(T) \in {4, 5}
          /\ l \notin {4, 5} /\ k = 1 => Stage(T) \notin {4, 5}
    /\ l \notin {1, 4, 5} => 1 \in DOMAIN pass.match
    /\ l = 9 => pass.match = <<"Person", "Country", "Post", "Comment">>

LoadFits(l, load) ==
    /\ load.reads \in Directories
    /\ load.reads \in {"TagClass", "Tag"} <=> l \in {4, 5}
    /\ load.reads = "Place" <=> l \in {1, 2}
    /\ load.reads = "Comment" <=> l = 9
    /\ load.commit = "load" <=> l = 4
    /\ load.commit = "queue" <=> l = 6
    /\ load.threads <=> l = 7
    /\ Len(load.passes) = IF l = 4 THEN 2 ELSE 1
    /\ PassFits(l, 1, load.passes[1])
    /\ l = 4 => PassFits(l, 2, load.passes[2])

PlaceLoad    == Loads("Place", "file", <<Inserts("Place", <<>>)>>)
PersonLoad   == Loads("Person", "queue", <<Inserts("Person", <<"City">>)>>)
ForumLoad    == [Loads("Forum", "batch", <<Inserts("Forum", <<"Person">>)>>) EXCEPT !.threads = TRUE]
DryPlaceLoad(dry) ==
    Loads("Place", "file", <<[Inserts("Place", <<>>) EXCEPT !.dry = dry]>>)

PartLoad     == Loads("Place", "file", <<Relates("isPartOf", <<"Place", "Place">>)>>)
OrganisationLoad == Loads("Organisation", "file", <<Inserts("Organisation", <<"Place">>)>>)
TagClassLoad ==
    Loads("TagClass", "load",
          <<Inserts("TagClass", <<>>), Relates("isSubclassOf", <<"TagClass", "TagClass">>)>>)
TagLoad      == Loads("Tag", "batch", <<Inserts("Tag", <<"TagClass">>)>>)
PostLoad     == Loads("Post", "batch", <<Inserts("Post", <<"Person", "Forum", "Country">>)>>)
CommentLoad  ==
    Loads("Comment", "batch", <<Inserts("Comment", <<"Person", "Country", "Post", "Comment">>)>>)

RelationLoads ==
    <<LoadsRelations("Comment_hasTag_Tag", "commentHasTag", <<"Comment", "Tag">>),
      LoadsRelations("Forum_hasMember_Person", "hasMember", <<"Forum", "Person">>),
      LoadsRelations("Forum_hasTag_Tag", "forumHasTag", <<"Forum", "Tag">>),
      LoadsRelations("Person_hasInterest_Tag", "hasInterest", <<"Person", "Tag">>),
      LoadsRelations("Person_knows_Person", "knows", <<"Person", "Person">>),
      LoadsRelations("Person_likes_Comment", "likesComment", <<"Person", "Comment">>),
      LoadsRelations("Person_likes_Post", "likesPost", <<"Person", "Post">>),
      LoadsRelations("Person_studyAt_University", "studyAt", <<"Person", "University">>),
      LoadsRelations("Person_workAt_Company", "workAt", <<"Person", "Company">>),
      LoadsRelations("Post_hasTag_Tag", "postHasTag", <<"Post", "Tag">>)>>

\* main, of whichever loader.
LEMMA MainIs ==
    ASSUME program \in Programs
    PROVE  \E place :
              /\ \/ place \in {PlaceLoad, DryPlaceLoad(FALSE)} /\ program # "typedb3dry"
                 \/ place = DryPlaceLoad(TRUE) /\ program = "typedb3dry"
              /\ Begins(Main, place, PartLoad, OrganisationLoad, TagClassLoad, TagLoad, PersonLoad,
                        ForumLoad, PostLoad, CommentLoad, RelationLoads)
PROOF
  <1> DEFINE After(place) ==
                <<place, PartLoad>> \o <<OrganisationLoad>> \o <<TagClassLoad>> \o <<TagLoad>>
                    \o <<PersonLoad>> \o <<ForumLoad>> \o <<PostLoad>> \o <<CommentLoad>>
                    \o RelationLoads
  <1>1. IsSequence(RelationLoads)
    <2> DEFINE all == {RelationLoads[k] : k \in 1 .. 10}
    <2>1. RelationLoads \in Seq(all)
      BY DEF RelationLoads
    <2> HIDE DEF all
    <2> QED  BY <2>1 DEF IsSequence
  <1>2. ASSUME NEW place
        PROVE  Begins(After(place), place, PartLoad, OrganisationLoad, TagClassLoad, TagLoad,
                      PersonLoad, ForumLoad, PostLoad, CommentLoad, RelationLoads)
    BY <1>1, Beginning, Zenon
  <1>3. Typedb2!main = After(PlaceLoad)
    BY Zenon
       DEF Typedb2!main, Typedb2!load_place, Typedb2!load_organization, Typedb2!load_tagclass,
           Typedb2!load_tags, Typedb2!load_person, Typedb2!load_forum, Typedb2!load_posts,
           Typedb2!load_comments, Typedb2!load_relations, Typedb2!load_comment_hasTag_Tag,
           Typedb2!load_forum_hasMember_Person, Typedb2!load_forum_hasTag_Tag,
           Typedb2!load_person_hasInterest_Tag, Typedb2!load_person_knows_person,
           Typedb2!load_person_likes_comment, Typedb2!load_person_likes_post,
           Typedb2!load_person_studyAt_university, Typedb2!load_person_workAt_company,
           Typedb2!load_post_hasTag_tag, Typedb2!Loads, Typedb2!LoadsRelations,
           Typedb2!Inserts, Typedb2!Relates, PlaceLoad, PartLoad, OrganisationLoad, TagClassLoad,
           TagLoad, PersonLoad, ForumLoad, PostLoad, CommentLoad, RelationLoads,
           Loads, LoadsRelations, Inserts, Relates
  <1>4. Typedb3!main = After(DryPlaceLoad(FALSE))
    BY Zenon
       DEF Typedb3!main, Typedb3!load_place, Typedb3!load_organization, Typedb3!load_tagclass,
           Typedb3!load_tags, Typedb3!load_person, Typedb3!load_forum, Typedb3!load_posts,
           Typedb3!load_comments, Typedb3!load_relations, Typedb3!load_comment_hasTag_Tag,
           Typedb3!load_forum_hasMember_Person, Typedb3!load_forum_hasTag_Tag,
           Typedb3!load_person_hasInterest_Tag, Typedb3!load_person_knows_person,
           Typedb3!load_person_likes_comment, Typedb3!load_person_likes_post,
           Typedb3!load_person_studyAt_university, Typedb3!load_person_workAt_company,
           Typedb3!load_post_hasTag_tag, Typedb3!Loads, Typedb3!LoadsRelations,
           Typedb3!Inserts, Typedb3!Relates, DryPlaceLoad, PartLoad, OrganisationLoad, TagClassLoad,
           TagLoad, PersonLoad, ForumLoad, PostLoad, CommentLoad, RelationLoads,
           Loads, LoadsRelations, Inserts, Relates
  <1>5. Typedb3Dry!main = After(DryPlaceLoad(TRUE))
    BY Zenon
       DEF Typedb3Dry!main, Typedb3Dry!load_place, Typedb3Dry!load_organization,
           Typedb3Dry!load_tagclass, Typedb3Dry!load_tags, Typedb3Dry!load_person,
           Typedb3Dry!load_forum, Typedb3Dry!load_posts, Typedb3Dry!load_comments,
           Typedb3Dry!load_relations, Typedb3Dry!load_comment_hasTag_Tag,
           Typedb3Dry!load_forum_hasMember_Person, Typedb3Dry!load_forum_hasTag_Tag,
           Typedb3Dry!load_person_hasInterest_Tag, Typedb3Dry!load_person_knows_person,
           Typedb3Dry!load_person_likes_comment, Typedb3Dry!load_person_likes_post,
           Typedb3Dry!load_person_studyAt_university, Typedb3Dry!load_person_workAt_company,
           Typedb3Dry!load_post_hasTag_tag, Typedb3Dry!Loads, Typedb3Dry!LoadsRelations,
           Typedb3Dry!Inserts, Typedb3Dry!Relates, DryPlaceLoad, PartLoad, OrganisationLoad,
           TagClassLoad, TagLoad, PersonLoad, ForumLoad, PostLoad, CommentLoad, RelationLoads,
           Loads, LoadsRelations, Inserts, Relates
  <1>6. /\ program = "typedb2" => Main = After(PlaceLoad)
        /\ program = "typedb3" => Main = After(DryPlaceLoad(FALSE))
        /\ program = "typedb3dry" => Main = After(DryPlaceLoad(TRUE))
    <2> HIDE DEF After
    <2> QED  BY <1>3, <1>4, <1>5 DEF Main, MainOf
  <1> HIDE DEF After
  <1>7. program \in {"typedb2", "typedb3", "typedb3dry"}
    BY ProgramsAssumption
  <1> QED  BY <1>2, <1>6, <1>7


\* What the things of a type are called, and where they come from.
LEMMA TypesOf ==
    /\ Subtypes("Place") = {"City", "Country", "Continent"}
    /\ Subtypes("Organisation") = {"University", "Company"}
    /\ \A T \in Matched : Subtypes(T) = {T}
    /\ \A T \in Matched : Stage(T) \in 1 .. 9 /\ Stage(T) # 2
    /\ \A T \in {"City", "Country", "Continent"} : Stage(T) = 1
    /\ \A T \in {"University", "Company"} : Stage(T) = 3
    /\ Stage("TagClass") = 4 /\ Stage("Tag") = 5 /\ Stage("Person") = 6 /\ Stage("Forum") = 7
    /\ Stage("Post") = 8 /\ Stage("Comment") = 9
    /\ \A T : T \notin Matched /\ T \notin {"Place", "Organisation"} => Subtypes(T) = {T}
BY DEF Subtypes, Matched, Stage

\* The fields of a pass and of a load.
LEMMA PassFields ==
    \A makes, match :
        /\ Inserts(makes, match).makes = makes /\ Inserts(makes, match).match = match
        /\ Inserts(makes, match).own = FALSE /\ Inserts(makes, match).dry = FALSE
        /\ Relates(makes, match).makes = makes /\ Relates(makes, match).match = match
        /\ Relates(makes, match).own = TRUE /\ Relates(makes, match).dry = FALSE
BY DEF Inserts, Relates

\* A load of one pass.
LEMMA OnePassFits ==
    ASSUME NEW l, l # 4, NEW reads, NEW commit, NEW pass, PassFits(l, 1, pass),
           reads \in {"TagClass", "Tag"} <=> l = 5,
           reads = "Place" <=> l \in {1, 2}, reads = "Comment" <=> l = 9,
           reads \in Directories, commit # "load", commit = "queue" <=> l = 6, NEW load,
           load.reads = reads, load.commit = commit, load.passes = <<pass>>, load.threads <=> l = 7
    PROVE  LoadFits(l, load)
BY DEF LoadFits

\* The places, which are not inserted in a dry run.
LEMMA FirstPlaces ==
    ASSUME NEW pass, pass.makes = "Place", pass.match = <<>>, pass.own = FALSE,
           pass.dry <=> program = "typedb3dry"
    PROVE  PassFits(1, 1, pass)
BY TypesOf DEF PassFits, Makes, Matched

\* main is nineteen loads: the places, their relation, the other things in the order
\* in which they refer to each other, and ten directories of relations.
LEMMA LoadsFit ==
    ASSUME program \in Programs
    PROVE  /\ Len(Main) = 19 /\ DOMAIN Main = 1 .. 19
           /\ \A l \in 1 .. 19 : LoadFits(l, Main[l])
PROOF
  <1> DEFINE dry == program = "typedb3dry"
  <1>1. PICK place : /\ \/ place \in {PlaceLoad, DryPlaceLoad(FALSE)} /\ ~ dry
                        \/ place = DryPlaceLoad(TRUE) /\ dry
                     /\ Begins(Main, place, PartLoad, OrganisationLoad, TagClassLoad, TagLoad,
                               PersonLoad, ForumLoad, PostLoad, CommentLoad, RelationLoads)
    BY MainIs
  <1>2. Len(RelationLoads) = 10
    BY DEF RelationLoads
  <1> HIDE DEF Main
  <1>3. /\ Len(Main) = 19 /\ IsSequence(Main)
        /\ Main[1] = place /\ Main[2] = PartLoad /\ Main[3] = OrganisationLoad
        /\ Main[4] = TagClassLoad /\ Main[5] = TagLoad /\ Main[6] = PersonLoad
        /\ Main[7] = ForumLoad /\ Main[8] = PostLoad /\ Main[9] = CommentLoad
        /\ \A k \in 1 .. 10 : Main[9 + k] = RelationLoads[k]
    BY <1>1, <1>2 DEF Begins
  <1>4. LoadFits(1, place)
    <2>1. PICK pass : /\ place = Loads("Place", "file", <<pass>>)
                      /\ pass.makes = "Place" /\ pass.match = <<>> /\ pass.own = FALSE
                      /\ pass.dry <=> dry
      <3>1. CASE place = PlaceLoad /\ ~ dry
        BY <3>1, PassFields DEF PlaceLoad
      <3>2. CASE place = DryPlaceLoad(FALSE) /\ ~ dry
        BY <3>2 DEF DryPlaceLoad, Inserts
      <3>3. CASE place = DryPlaceLoad(TRUE) /\ dry
        BY <3>3 DEF DryPlaceLoad, Inserts
      <3> QED  BY <1>1, <3>1, <3>2, <3>3
    <2>2. PassFits(1, 1, pass)
      BY <2>1, FirstPlaces
    <2>3. /\ place.reads = "Place" /\ place.commit = "file" /\ place.passes = <<pass>>
          /\ place.threads = FALSE
      BY <2>1 DEF Loads
    <2>4. "Place" \in Directories
      BY DEF Directories
    <2> QED  BY <2>2, <2>3, <2>4, OnePassFits
  <1>5. LoadFits(2, PartLoad)
    <2> DEFINE pass == Relates("isPartOf", <<"Place", "Place">>)
    <2>1. PassFits(2, 1, pass)
      <3> HIDE DEF pass
      <3> QED  BY TypesOf, PassFields DEF pass, PassFits, Makes, Matched
    <2> HIDE DEF pass
    <2> QED  BY <2>1, OnePassFits DEF pass, PartLoad, Loads, Directories
  <1>6. LoadFits(3, OrganisationLoad)
    <2> DEFINE pass == Inserts("Organisation", <<"Place">>)
    <2>1. PassFits(3, 1, pass)
      <3> HIDE DEF pass
      <3> QED  BY TypesOf, PassFields DEF pass, PassFits, Makes, Matched
    <2> HIDE DEF pass
    <2> QED  BY <2>1, OnePassFits DEF pass, OrganisationLoad, Loads, Directories
  <1>7. LoadFits(5, TagLoad)
    <2> DEFINE pass == Inserts("Tag", <<"TagClass">>)
    <2>1. PassFits(5, 1, pass)
      <3> HIDE DEF pass
      <3> QED  BY TypesOf, PassFields DEF pass, PassFits, Makes, Matched
    <2> HIDE DEF pass
    <2> QED  BY <2>1, OnePassFits DEF pass, TagLoad, Loads, Directories
  <1>8. LoadFits(6, PersonLoad)
    <2> DEFINE pass == Inserts("Person", <<"City">>)
    <2>1. PassFits(6, 1, pass)
      <3> HIDE DEF pass
      <3> QED  BY TypesOf, PassFields DEF pass, PassFits, Makes, Matched
    <2> HIDE DEF pass
    <2> QED  BY <2>1, OnePassFits DEF pass, PersonLoad, Loads, Directories
  <1>9. LoadFits(7, ForumLoad)
    <2> DEFINE pass == Inserts("Forum", <<"Person">>)
    <2>1. PassFits(7, 1, pass)
      <3> HIDE DEF pass
      <3> QED  BY TypesOf, PassFields DEF pass, PassFits, Makes, Matched
    <2> HIDE DEF pass
    <2> QED  BY <2>1, OnePassFits DEF pass, ForumLoad, Loads, Directories
  <1>10. LoadFits(8, PostLoad)
    <2> DEFINE pass == Inserts("Post", <<"Person", "Forum", "Country">>)
    <2>1. PassFits(8, 1, pass)
      <3> HIDE DEF pass
      <3> QED  BY TypesOf, PassFields DEF pass, PassFits, Makes, Matched
    <2> HIDE DEF pass
    <2> QED  BY <2>1, OnePassFits DEF pass, PostLoad, Loads, Directories
  <1>11. LoadFits(9, CommentLoad)
    <2> DEFINE pass == Inserts("Comment", <<"Person", "Country", "Post", "Comment">>)
    <2>1. PassFits(9, 1, pass)
      <3> HIDE DEF pass
      <3> QED  BY TypesOf, PassFields DEF pass, PassFits, Makes, Matched
    <2> HIDE DEF pass
    <2> QED  BY <2>1, OnePassFits DEF pass, CommentLoad, Loads, Directories
  <1>12. LoadFits(4, TagClassLoad)
    <2> DEFINE first  == Inserts("TagClass", <<>>)
               second == Relates("isSubclassOf", <<"TagClass", "TagClass">>)
    <2>1. PassFits(4, 1, first)
      BY TypesOf, PassFields DEF PassFits, Makes, Matched
    <2>2. PassFits(4, 2, second)
      BY TypesOf, PassFields DEF PassFits, Makes, Matched
    <2> HIDE DEF first, second
    <2> QED  BY <2>1, <2>2 DEF TagClassLoad, Loads, LoadFits, Directories, first, second
  <1>13. ASSUME NEW k \in 1 .. 10
         PROVE  LoadFits(9 + k, RelationLoads[k])
    <2>1. ASSUME NEW reads, NEW makes, NEW A, NEW B,
                 A \in {"Person", "Forum", "Post", "Comment"}, B \in Matched,
                 reads \in Directories, reads \notin {"TagClass", "Tag", "Place", "Comment"},
                 makes \notin Matched, makes \notin {"Place", "Organisation"}
          PROVE  LoadFits(9 + k, LoadsRelations(reads, makes, <<A, B>>))
      <3> DEFINE pass == Inserts(makes, <<A, B>>)
      <3>1. PassFits(9 + k, 1, pass)
        <4>1. pass.makes = makes /\ pass.match = <<A, B>> /\ pass.own = FALSE /\ pass.dry = FALSE
          BY PassFields
        <4> HIDE DEF pass
        <4> QED  BY <2>1, <4>1, TypesOf DEF PassFits, Makes, Matched
      <3> DEFINE load == LoadsRelations(reads, makes, <<A, B>>)
      <3>2. /\ load.reads = reads /\ load.commit = "batch" /\ load.passes = <<pass>>
            /\ load.threads = FALSE
        BY DEF LoadsRelations
      <3>3. 9 + k # 4 /\ 9 + k # 5 /\ 9 + k \notin {1, 2} /\ 9 + k # 9 /\ 9 + k # 6 /\ 9 + k # 7
        OBVIOUS
      <3> HIDE DEF pass, load
      <3>4. LoadFits(9 + k, load)
        BY <2>1, <3>1, <3>2, <3>3, OnePassFits
      <3> QED  BY <3>4 DEF load
    <2>2. k \in {1, 2, 3, 4, 5, 6, 7, 8, 9, 10}
      OBVIOUS
    <2> QED  BY <2>1, <2>2 DEF RelationLoads, Matched, Directories
  <1>14. ASSUME NEW l \in 1 .. 19
         PROVE  LoadFits(l, Main[l])
    <2>1. CASE l \in 1 .. 9
      <3>1. l \in {1, 2, 3, 4, 5, 6, 7, 8, 9}
        BY <2>1
      <3> QED  BY <1>3, <1>4, <1>5, <1>6, <1>7, <1>8, <1>9, <1>10, <1>11, <1>12, <3>1
    <2>2. CASE l \in 10 .. 19
      <3>1. l - 9 \in 1 .. 10 /\ 9 + (l - 9) = l
        BY <2>2
      <3> QED  BY <1>3, <1>13, <3>1
    <2> QED  BY <2>1, <2>2
  <1>15. DOMAIN Main = 1 .. 19
    BY <1>3 DEF IsSequence
  <1> QED  BY <1>3, <1>14, <1>15

IsLoad(load) == load.reads \in Directories /\ Len(load.passes) \in Nat

\* What every proof needs of them.
LEMMA MainLoads ==
    ASSUME program \in Programs
    PROVE  /\ Len(Main) \in Nat /\ DOMAIN Main = 1 .. Len(Main)
           /\ \A l \in 1 .. Len(Main) : IsLoad(Main[l])
PROOF
  <1>1. /\ Len(Main) = 19 /\ DOMAIN Main = 1 .. 19
        /\ \A l \in 1 .. 19 : LoadFits(l, Main[l])
    BY LoadsFit
  <1> HIDE DEF Main
  <1>2. ASSUME NEW l \in 1 .. 19 PROVE IsLoad(Main[l])
    <2>1. Main[l].reads \in Directories /\ Len(Main[l].passes) = IF l = 4 THEN 2 ELSE 1
      BY <1>1 DEF LoadFits
    <2> QED  BY <2>1 DEF IsLoad
  <1> QED  BY <1>1, <1>2

-----------------------------------------------------------------------------
(***************************************************************************)
(* The types.                                                              *)
(***************************************************************************)
FilesAt(l) == DOMAIN extract[Main[l].reads]

\* What load l reads of its file f.
RowsAt(l, f) == Reads(Main[l], extract[Main[l].reads][f])

\* What is read of a file is a sequence, and holds rows of the file only.
LEMMA ReadsSeq ==
    ASSUME NEW load, Len(load.passes) \in Nat, NEW S, NEW file \in Seq(S)
    PROVE  /\ Len(Reads(load, file)) \in Nat
           /\ DOMAIN Reads(load, file) = 1 .. Len(Reads(load, file))
           /\ Len(load.passes) = 1 =>
                 /\ Len(Reads(load, file)) = Len(file)
                 /\ \A n \in 1 .. Len(file) :
                       Reads(load, file)[n] = [pass |-> load.passes[1], row |-> file[n]]
PROOF
  <1> DEFINE size == Len(load.passes) * Len(file)
             line(n) == [pass |-> load.passes[(n - 1) \div Len(file) + 1],
                         row  |-> file[((n - 1) % Len(file)) + 1]]
             T == {line(n) : n \in 1 .. size}
  <1>1. Len(file) \in Nat /\ size \in Nat
    OBVIOUS
  <1>2. Reads(load, file) = [n \in 1 .. size |-> line(n)]
    BY DEF Reads
  <1> HIDE DEF size, line
  <1>3. [n \in 1 .. size |-> line(n)] \in Seq(T)
    BY <1>1
  <1>4. Len([n \in 1 .. size |-> line(n)]) = size
    BY <1>1, <1>3
  <1>5. ASSUME Len(load.passes) = 1
        PROVE  /\ size = Len(file)
               /\ \A n \in 1 .. Len(file) : line(n) = [pass |-> load.passes[1], row |-> file[n]]
    <2>1. size = Len(file)
      BY <1>1, <1>5 DEF size
    <2>2. ASSUME NEW n \in 1 .. Len(file)
          PROVE  (n - 1) \div Len(file) = 0 /\ ((n - 1) % Len(file)) + 1 = n
      <3> DEFINE k == Len(file)
      <3> HIDE DEF k
      <3>1. n \in Nat /\ k \in Nat /\ 0 < k /\ 0 <= n - 1 /\ n - 1 < k
        BY <1>1, <2>2 DEF k
      <3>2. (n - 1) \div k = 0 /\ (n - 1) % k = n - 1
        BY <3>1
      <3> QED  BY <3>1, <3>2 DEF k
    <2> QED  BY <2>1, <2>2 DEF line
  <1> QED  BY <1>1, <1>2, <1>3, <1>4, <1>5

\* The files of a load are numbered from 1, and so are the rows read of each.
LEMMA Contents ==
    ASSUME program \in Programs, extract \in Extracts, NEW l \in 1 .. Len(Main)
    PROVE  /\ \E n \in Nat : FilesAt(l) = 1 .. n
           /\ \A f \in FilesAt(l) : /\ Len(RowsAt(l, f)) \in Nat
                                    /\ DOMAIN RowsAt(l, f) = 1 .. Len(RowsAt(l, f))
PROOF
  <1> DEFINE S == [type : STRING, id : Nat, parts : Seq(Nat)]
             these == extract[Main[l].reads]
  <1>1. IsLoad(Main[l])
    BY MainLoads
  <1>2. these \in Seq(Seq(S))
    BY <1>1, ExtractsAssumption DEF IsLoad
  <1> HIDE DEF S, these
  <1>3. DOMAIN these = 1 .. Len(these) /\ Len(these) \in Nat
        /\ \A f \in DOMAIN these : these[f] \in Seq(S)
    BY <1>2
  <1>4. \A f \in DOMAIN these : /\ Len(Reads(Main[l], these[f])) \in Nat
                               /\ DOMAIN Reads(Main[l], these[f]) = 1 .. Len(Reads(Main[l], these[f]))
    BY <1>1, <1>3, ReadsSeq DEF IsLoad
  <1> QED  BY <1>3, <1>4 DEF FilesAt, RowsAt, these

Active == state \in {"loading", "failed"}

\* What is known of a file in the state r: what is in its transaction has been read,
\* and nothing is in it once the file is closed.
FileOK(f, r) ==
    /\ IsFile(r)
    /\ r.pc \in FileStates
    /\ r.pos \in 0 .. Len(Content(f))
    /\ r.count \in Nat
    /\ ~ Current.carried => r.count = r.pos
    /\ r.tx \subseteq {Content(f)[n] : n \in 1 .. r.pos}
    /\ r.pc = "closed" => r.pos = Len(Content(f)) /\ r.tx = {}
    /\ r.pc \in {"waiting", "cancelled"} => r.pos = 0 /\ r.tx = {}

Types ==
    /\ program \in Programs
    /\ extract \in Extracts
    /\ state \in {"idle", "loading", "loaded", "failed"}
    /\ sealed \in BOOLEAN
    /\ runs \in 0 .. MaxRuns
    /\ state = "idle" => at = 0
    /\ state = "loaded" => at = Len(Main) + 1

FilesInv ==
    /\ Types
    /\ Active =>
          /\ at \in 1 .. Len(Main)
          /\ files = [f \in FileNames |-> files[f]]
          /\ \A f \in FileNames : FileOK(f, files[f])
          /\ Current.threads /\ state = "failed" => \A f \in FileNames : Over(f)

\* The files of the load that is running.
LEMMA CurrentFiles ==
    ASSUME Types, at \in 1 .. Len(Main)
    PROVE  /\ FileNames = FilesAt(at)
           /\ \A f : Content(f) = RowsAt(at, f)
           /\ \E n \in Nat : FileNames = 1 .. n
           /\ \A f \in FileNames : /\ Len(Content(f)) \in Nat
                                   /\ DOMAIN Content(f) = 1 .. Len(Content(f))
PROOF
  <1>1. FileNames = FilesAt(at) /\ \A f : Content(f) = RowsAt(at, f)
    BY DEF FileNames, FilesAt, Content, RowsAt, Current
  <1> QED  BY <1>1, Contents DEF Types

\* Where program, extract and at are left alone, so is all that depends on them.
LEMMA SameLoad ==
    ASSUME UNCHANGED <<program, extract, at>>
    PROVE  /\ Main' = Main /\ Current' = Current /\ FileNames' = FileNames
           /\ \A f : Content(f)' = Content(f)
PROOF
  <1>1. Main' = Main /\ Current' = Current
    BY DEF Main, Current
  <1> QED  BY <1>1 DEF FileNames, Content

\* A step of one file: what has to be shown is that its new state is right.
LEMMA OneFileTypes ==
    ASSUME FilesInv, state = "loading", NEW f \in FileNames, NEW value,
           Sets(f, value), FileOK(f, value),
           UNCHANGED <<program, extract, state, at, runs>>, sealed' \in BOOLEAN
    PROVE  FilesInv'
PROOF
  <1>1. /\ Main' = Main /\ Current' = Current /\ FileNames' = FileNames
        /\ \A g : Content(g)' = Content(g)
    BY SameLoad
  <1>2. Types'
    BY <1>1 DEF FilesInv, Types
  <1>3. files' = [files EXCEPT ![f] = value] /\ files = [g \in FileNames |-> files[g]]
    BY DEF Sets, FilesInv, Active
  <1>4. files'[f] = value /\ \A g \in FileNames : g # f => files'[g] = files[g]
    BY <1>3
  <1>5. files' = [g \in FileNames |-> files'[g]]
    BY <1>3
  <1>6. ASSUME NEW g \in FileNames PROVE FileOK(g, files[g])'
    <2>1. FileOK(g, files'[g])
      BY <1>4 DEF FilesInv, Active
    <2>2. FileOK(g, files[g])' <=> FileOK(g, files'[g])
      BY <1>1 DEF FileOK, IsFile
    <2> QED  BY <2>1, <2>2
  <1>7. at' \in 1 .. Len(Main)
    BY DEF FilesInv, Active
  <1> QED  BY <1>1, <1>2, <1>5, <1>6, <1>7 DEF FilesInv, Active

\* Beginning a load.
LEMMA ProceedsTypes ==
    ASSUME Types, NEW l \in 1 .. Len(Main) + 1, Proceeds(l),
           UNCHANGED <<program, extract>>, runs' \in 0 .. MaxRuns
    PROVE  FilesInv'
PROOF
  <1>1. Main' = Main /\ at' = l /\ sealed' = FALSE /\ Len(Main) \in Nat
    BY MainLoads DEF Proceeds, Main, Types
  <1>2. CASE l > Len(Main)
    <2>1. state' = "loaded" /\ l = Len(Main) + 1
      BY <1>1, <1>2 DEF Proceeds
    <2> QED  BY <1>1, <2>1 DEF FilesInv, Types, Active
  <1>3. CASE ~ l > Len(Main)
    <2>1. /\ state' = "loading" /\ l \in 1 .. Len(Main)
          /\ files' = [f \in FilesAt(l) |-> Unread]
      BY <1>1, <1>3 DEF Proceeds, Fresh, FilesAt
    <2>2. Types'
      BY <1>1, <2>1 DEF Types
    <2>3. FileNames' = FilesAt(l)
      BY <1>1 DEF FileNames, FilesAt, Current
    <2>4. ASSUME NEW f \in FilesAt(l) PROVE FileOK(f, Unread)'
      <3>1. Content(f)' = RowsAt(l, f)
        BY <1>1 DEF Content, RowsAt, Current
      <3>2. Len(RowsAt(l, f)) \in Nat
        BY <2>1, Contents DEF Types
      <3>3. /\ Unread.pc = "waiting" /\ Unread.pos = 0 /\ Unread.count = 0 /\ Unread.tx = {}
            /\ IsFile(Unread)
        BY DEF Unread, IsFile
      <3> HIDE DEF Unread
      <3> QED  BY <3>1, <3>2, <3>3 DEF FileOK, FileStates, IsFile
    <2> QED  BY <1>1, <2>1, <2>2, <2>3, <2>4 DEF FilesInv, Active, Over
  <1> QED  BY <1>2, <1>3

\* Each step of a file finds it in the state that FilesInv says, and keeps that.
LEMMA FileFound ==
    ASSUME FilesInv, NEW f, NEW pc, Loading(f, pc)
    PROVE  /\ f \in FileNames /\ state = "loading" /\ files[f].pc = pc
           /\ FileOK(f, files[f]) /\ IsFile(files[f])
           /\ Len(Content(f)) \in Nat /\ Types /\ at \in 1 .. Len(Main)
PROOF
  <1>1. f \in FileNames /\ state = "loading" /\ files[f].pc = pc
    BY DEF Loading
  <1>2. FileOK(f, files[f]) /\ Types /\ at \in 1 .. Len(Main)
    BY <1>1 DEF FilesInv, Active
  <1> QED  BY <1>1, <1>2, CurrentFiles DEF FileOK

\* A count that goes on comes from the file before.
LEMMA OpenTypes ==
    ASSUME FilesInv, NEW f, Open(f)
    PROVE  FilesInv'
PROOF
  <1> DEFINE count == IF Current.carried /\ f > 1 THEN files[f - 1].count ELSE 0
             value == [Unread EXCEPT !.pc = "open", !.count = count]
  <1>1. Loading(f, "waiting") /\ Sets(f, value) /\ UNCHANGED <<program, extract, state, at, sealed, runs>>
    BY DEF Open
  <1>2. /\ f \in FileNames /\ state = "loading" /\ Len(Content(f)) \in Nat
        /\ Types /\ at \in 1 .. Len(Main)
    BY <1>1, FileFound
  <1>3. count \in Nat
    <2>1. PICK n \in Nat : FileNames = 1 .. n
      BY <1>2, CurrentFiles
    <2>2. ASSUME f > 1 PROVE files[f - 1].count \in Nat
      <3>1. f - 1 \in FileNames
        BY <1>2, <2>1, <2>2
      <3> QED  BY <1>2, <3>1 DEF FilesInv, Active, FileOK
    <2> QED  BY <2>2
  <1>4. ~ Current.carried => count = 0
    OBVIOUS
  <1> HIDE DEF count
  <1>5. IsFile(value) /\ value.pc = "open" /\ value.pos = 0 /\ value.count = count /\ value.tx = {}
    BY DEF IsFile, Unread
  <1> HIDE DEF value
  <1>6. FileOK(f, value)
    BY <1>2, <1>3, <1>4, <1>5 DEF FileOK, FileStates
  <1> QED  BY <1>1, <1>2, <1>6, OneFileTypes DEF Types

\* What is held of a file has been read of it.
LEMMA RowTypes ==
    ASSUME FilesInv, NEW f, Row(f)
    PROVE  FilesInv'
PROOF
  <1> DEFINE file    == files[f]
             x       == Content(f)[file.pos + 1]
             takes   == HasQuery(x) /\ (Current.commit = "queue" \/ Matches(x, Visible(f)))
             batched == Current.commit \in {"batch", "queue"}
             pc      == IF batched /\ BatchFull(file.count + 1) THEN "full" ELSE "open"
             tx      == IF takes THEN file.tx \cup {x} ELSE file.tx
             value   == [pc    |-> pc,
                         pos   |-> file.pos + 1,
                         count |-> file.count + 1,
                         tx    |-> tx]
  <1>1. /\ Loading(f, "open") /\ file.pos + 1 \in DOMAIN Content(f) /\ Sets(f, value)
        /\ UNCHANGED <<program, extract, state, at, sealed, runs>>
    BY DEF Row
  <1>2. /\ f \in FileNames /\ state = "loading" /\ FileOK(f, file)
        /\ Types /\ at \in 1 .. Len(Main)
    BY <1>1, FileFound
  <1>3. file.pos \in Nat /\ file.count \in Nat /\ (~ Current.carried => file.count = file.pos)
    BY <1>2 DEF FileOK
  <1>3a. file.tx \subseteq {Content(f)[n] : n \in 1 .. file.pos}
    BY <1>2 DEF FileOK
  <1>4. file.pos + 1 \in 1 .. Len(Content(f)) /\ Len(Content(f)) \in Nat
    BY <1>1, <1>2, CurrentFiles
  <1>5. tx \subseteq {Content(f)[n] : n \in 1 .. file.pos + 1}
    <2> DEFINE line(n) == Content(f)[n]
               pos == file.pos
    <2>a. pos \in Nat
      BY <1>3
    <2>b. file.tx \subseteq {line(n) : n \in 1 .. pos}
      BY <1>3a, Zenon
    <2>c. x = line(pos + 1)
      OBVIOUS
    <2>1. pos \in Nat /\ file.tx \subseteq {line(n) : n \in 1 .. pos} /\ x = line(pos + 1)
      BY <2>a, <2>b, <2>c, Zenon
    <2>2. tx \subseteq file.tx \cup {x}
      OBVIOUS
    <2> HIDE DEF line, pos, x, tx, file
    <2>3. 1 .. pos \subseteq 1 .. pos + 1 /\ pos + 1 \in 1 .. pos + 1
      BY <2>1
    <2>4. tx \subseteq {line(n) : n \in 1 .. pos + 1}
      BY <2>1, <2>2, <2>3
    <2> QED  BY <2>4 DEF line, pos
  <1>6. pc \in {"open", "full"}
    OBVIOUS
  <1> HIDE DEF pc, tx, file
  <1>7. /\ IsFile(value) /\ value.pc = pc /\ value.pos = file.pos + 1
        /\ value.count = file.count + 1 /\ value.tx = tx
    BY DEF IsFile
  <1> HIDE DEF value, x, takes, batched
  <1>8. FileOK(f, value)
    <2>1. value.tx \subseteq {Content(f)[n] : n \in 1 .. value.pos}
      BY <1>5, <1>7
    <2>2. value.pos \in 0 .. Len(Content(f)) /\ value.count \in Nat
      BY <1>3, <1>4, <1>7
    <2>3. ~ Current.carried => value.count = value.pos
      BY <1>3, <1>7
    <2> QED  BY <1>6, <1>7, <2>1, <2>2, <2>3 DEF FileOK, FileStates
  <1> QED  BY <1>1, <1>2, <1>8, OneFileTypes DEF Types

\* The end of a transaction leaves the file where it is, with nothing held.
LEMMA EmptiedTypes ==
    ASSUME FilesInv, NEW f, NEW pc, NEW to \in {"open", "closed", "failed"}, Loading(f, pc),
           Sets(f, [files[f] EXCEPT !.pc = to, !.tx = {}]),
           to = "closed" => files[f].pos = Len(Content(f)),
           UNCHANGED <<program, extract, state, at, runs>>, sealed' \in BOOLEAN
    PROVE  FilesInv'
PROOF
  <1> DEFINE value == [files[f] EXCEPT !.pc = to, !.tx = {}]
  <1>1. f \in FileNames /\ state = "loading" /\ FileOK(f, files[f]) /\ IsFile(files[f])
    BY FileFound
  <1>2. /\ IsFile(value) /\ value.pc = to /\ value.tx = {}
        /\ value.pos = files[f].pos /\ value.count = files[f].count
    BY <1>1, Emptied, Zenon
  <1> HIDE DEF value
  <1>3. FileOK(f, value)
    BY <1>1, <1>2 DEF FileOK, FileStates
  <1> QED  BY <1>1, <1>3, OneFileTypes DEF value

\* Only the pc changes.
LEMMA MovedTypes ==
    ASSUME FilesInv, NEW f, NEW pc, NEW to \in {"closed", "failed", "cancelled"}, Loading(f, pc),
           Sets(f, [files[f] EXCEPT !.pc = to]),
           to = "closed" => files[f].pos = Len(Content(f)) /\ files[f].tx = {},
           to = "cancelled" => pc = "waiting",
           UNCHANGED <<program, extract, state, at, runs>>, sealed' \in BOOLEAN
    PROVE  FilesInv'
PROOF
  <1> DEFINE value == [files[f] EXCEPT !.pc = to]
  <1>1. /\ f \in FileNames /\ state = "loading" /\ FileOK(f, files[f]) /\ IsFile(files[f])
        /\ files[f].pc = pc
    BY FileFound
  <1>2. /\ IsFile(value) /\ value.pc = to /\ value.tx = files[f].tx
        /\ value.pos = files[f].pos /\ value.count = files[f].count
    BY <1>1, Moved, Zenon
  <1> HIDE DEF value
  <1>3. FileOK(f, value)
    BY <1>1, <1>2 DEF FileOK, FileStates
  <1> QED  BY <1>1, <1>3, OneFileTypes DEF value

\* A file is closed at its end, with nothing held: where nothing is committed then,
\* nothing was held before either.
LEMMA EndFileTypes ==
    ASSUME FilesInv, IInv, NEW f, EndFile(f)
    PROVE  FilesInv'
PROOF
  <1>1. /\ Loading(f, "open") /\ files[f].pos = Len(Content(f))
        /\ UNCHANGED <<program, extract, state, at, runs>> /\ sealed' \in BOOLEAN
    BY DEF EndFile, AtEnd
  <1>2. CASE HasRest(f)
    BY <1>1, <1>2, EmptiedTypes DEF EndFile
  <1>3. CASE ~ HasRest(f)
    <2>1. f \in FileNames /\ state = "loading" /\ files[f].pc = "open"
      BY <1>1, FileFound
    <2>2. files[f].tx = {}
      BY <1>3, <2>1 DEF HasRest, IInv, BatchesCommitted
    <2>3. Sets(f, [files[f] EXCEPT !.pc = "closed"])
      BY <1>3 DEF EndFile
    <2> QED  BY <1>1, <2>2, <2>3, MovedTypes
  <1> QED  BY <1>2, <1>3

\* The steps of a file.
LEMMA FileStepTypes ==
    ASSUME FilesInv, IInv, NEW f, Works(f) \/ Raises(f) \/ CommitRaises(f)
    PROVE  FilesInv'
PROOF
  <1>0. sealed \in BOOLEAN
    BY DEF FilesInv, Types
  <1>1. CASE CommitBatch(f)
    BY <1>0, <1>1, EmptiedTypes DEF CommitBatch
  <1>2. CASE Raises(f)
    BY <1>0, <1>2, EmptiedTypes DEF Raises
  <1>3. CASE CommitRaises(f)
    BY <1>0, <1>3, EmptiedTypes DEF CommitRaises, AtEnd
  <1>4. CASE UsesClosed(f)
    BY <1>0, <1>4, MovedTypes DEF UsesClosed
  <1>5. CASE Cancel(f)
    BY <1>0, <1>5, MovedTypes DEF Cancel
  <1> QED
    BY <1>1, <1>2, <1>3, <1>4, <1>5, OpenTypes, RowTypes, EndFileTypes DEF Works

\* What FilesInv says of the files holds in every state.
THEOREM FilesInvariant == Spec => []FilesInv
PROOF
  <1>1. Init => FilesInv
    <2> SUFFICES ASSUME Init PROVE FilesInv
      OBVIOUS
    <2>1. Types
      <3>1. /\ program \in Programs /\ extract \in Extracts /\ state = "idle" /\ at = 0
            /\ sealed = FALSE /\ runs = 0
        BY DEF Init
      <3>2. runs \in 0 .. MaxRuns
        BY <3>1, MaxRunsAssumption
      <3> QED  BY <3>1, <3>2 DEF Types
    <2>2. ~ Active
      BY DEF Init, Active
    <2> QED  BY <2>1, <2>2 DEF FilesInv
  <1>2. FilesInv /\ IInv /\ [Next]_vars => FilesInv'
    <2> SUFFICES ASSUME FilesInv, IInv, [Next]_vars PROVE FilesInv'
      OBVIOUS
    <2>1. CASE Begin
      <3>1. Types /\ runs' \in 0 .. MaxRuns /\ 1 \in 1 .. Len(Main) + 1
        BY <2>1, MainLoads, MaxRunsAssumption DEF Begin, FilesInv, Types
      <3> QED  BY <2>1, <3>1, ProceedsTypes DEF Begin
    <2>2. CASE EndLoad
      <3>1. Types /\ runs' \in 0 .. MaxRuns /\ at + 1 \in 1 .. Len(Main) + 1
        BY <2>2, MainLoads DEF EndLoad, FilesInv, Types, Active
      <3> QED  BY <2>2, <3>1, ProceedsTypes DEF EndLoad
    <2>3. CASE Fail
      <3>1. /\ state = "loading" /\ state' = "failed"
            /\ UNCHANGED <<program, extract, at, files, sealed, runs>>
            /\ Current.threads => \A f \in FileNames : Over(f)
        BY <2>3 DEF Fail
      <3>2. /\ Main' = Main /\ Current' = Current /\ FileNames' = FileNames
            /\ \A g : Content(g)' = Content(g)
        BY <3>1, SameLoad
      <3>3. \A g \in FileNames : FileOK(g, files[g])' <=> FileOK(g, files[g])
        BY <3>1, <3>2 DEF FileOK, IsFile
      <3> QED  BY <3>1, <3>2, <3>3 DEF FilesInv, Active, Types, Over
    <2>4. ASSUME NEW f \in DOMAIN files, Works(f) \/ Raises(f) \/ CommitRaises(f) PROVE FilesInv'
      BY <2>4, FileStepTypes
    <2>5. CASE UNCHANGED vars
      <3>1. /\ Main' = Main /\ Current' = Current /\ FileNames' = FileNames
            /\ \A g : Content(g)' = Content(g)
        BY <2>5, SameLoad DEF vars
      <3>2. \A g : FileOK(g, files[g])' <=> FileOK(g, files[g])
        BY <2>5, <3>1 DEF FileOK, IsFile, vars
      <3> QED  BY <2>5, <3>1, <3>2 DEF FilesInv, Active, Types, vars, Over
    <2> QED  BY <2>1, <2>2, <2>3, <2>4, <2>5 DEF Next, Progress
  <1> QED  BY <1>1, <1>2, LoaderInvariant, PTL DEF Spec

-----------------------------------------------------------------------------
(***************************************************************************)
(* What is stored.                                                         *)
(***************************************************************************)
IsRow(l, f, n) == l \in 1 .. Len(Main) /\ f \in FilesAt(l) /\ n \in 1 .. Len(RowsAt(l, f))

\* The row has been read, and is not held in a transaction.
Past(l, f, n) ==
    /\ IsRow(l, f, n)
    /\ \/ l < at
       \/ l = at /\ Active /\ n <= files[f].pos /\ RowsAt(l, f)[n] \notin files[f].tx

IsSource(l, f, n, thing) ==
    Past(l, f, n) /\ Thing(RowsAt(l, f)[n]) = thing /\ PartsIn(RowsAt(l, f)[n], Stored)

StoredInv ==
    /\ db \in [Stored -> {1}]
    /\ \A thing \in Stored : \E l, f, n : IsSource(l, f, n, thing)

HeldInv ==
    Active => \A f \in FileNames : \A x \in files[f].tx :
                 Current.commit # "queue" => PartsIn(x, Visible(f))

\* No two rows, of whatever loads, make the same thing.
LEMMA RowsDiffer ==
    ASSUME program \in Programs, extract \in Extracts,
           NEW l, NEW f, NEW i, IsRow(l, f, i), NEW m, NEW g, NEW j, IsRow(m, g, j),
           Thing(RowsAt(l, f)[i]) = Thing(RowsAt(m, g)[j])
    PROVE  l = m /\ f = g /\ i = j
PROOF
  <1>1. l \in DOMAIN MainOf(program) /\ m \in DOMAIN MainOf(program)
    BY MainLoads DEF IsRow, Main
  <1>2. f \in DOMAIN extract[MainOf(program)[l].reads] /\ g \in DOMAIN extract[MainOf(program)[m].reads]
    BY DEF IsRow, FilesAt, Main
  <1>3. /\ RowsAt(l, f) = Reads(MainOf(program)[l], extract[MainOf(program)[l].reads][f])
        /\ RowsAt(m, g) = Reads(MainOf(program)[m], extract[MainOf(program)[m].reads][g])
    BY DEF RowsAt, Main
  <1>4. i \in DOMAIN RowsAt(l, f) /\ j \in DOMAIN RowsAt(m, g)
    BY Contents DEF IsRow
  <1> HIDE DEF RowsAt, Reads, MainOf, Thing
  <1> QED  BY <1>1, <1>2, <1>3, <1>4, IdsAssumption

\* What is matched is there, also when there is more.
LEMMA MatchesParts ==
    ASSUME NEW x, NEW S, NEW T, S \subseteq T, Matches(x, S) \/ PartsIn(x, S)
    PROVE  PartsIn(x, T)
PROOF
  <1>1. \A type, id : <<type, id>>[1] = type /\ <<type, id>>[2] = id
    OBVIOUS
  <1> QED  BY <1>1 DEF Matches, PartsIn

\* A bag of single things stays one when other things are added once.
LEMMA AddedOnce ==
    ASSUME NEW D, NEW b \in [D -> {1}], NEW S, S \cap D = {}
    PROVE  b (+) SetToBag(S) \in [D \cup S -> {1}]
  BY DEF (+), SetToBag

\* Nothing depends on what a step leaves alone.
LEMMA SameRows ==
    ASSUME UNCHANGED <<program, extract>>
    PROVE  /\ Main' = Main
           /\ \A l : FilesAt(l)' = FilesAt(l)
           /\ \A l, f : RowsAt(l, f)' = RowsAt(l, f)
           /\ \A l, f, n : IsRow(l, f, n)' <=> IsRow(l, f, n)
PROOF
  <1>1. Main' = Main
    BY DEF Main
  <1> QED  BY <1>1 DEF FilesAt, RowsAt, IsRow

\* A thing still has its source after a step.
LEMMA SourceNext ==
    ASSUME NEW l, NEW f, NEW n, RowsAt(l, f)' = RowsAt(l, f), Past(l, f, n)',
           PartsIn(RowsAt(l, f)[n], Stored')
    PROVE  IsSource(l, f, n, Thing(RowsAt(l, f)[n]))'
PROOF
  <1> DEFINE row == RowsAt(l, f)[n]
  <1>1. row' = row
    OBVIOUS
  <1>2. PartsIn(row, Stored)'
    BY <1>1 DEF PartsIn, Ids
  <1>3. Thing(row)' = Thing(row)
    BY <1>1 DEF Thing
  <1> QED  BY <1>1, <1>2, <1>3 DEF IsSource

\* The database is left alone, and the rows that are past remain so.
LEMMA StoredKept ==
    ASSUME StoredInv, UNCHANGED <<program, extract, db>>,
           \A l, f, n : Past(l, f, n) => Past(l, f, n)'
    PROVE  StoredInv'
PROOF
  <1>1. Stored' = Stored
    BY DEF Stored
  <1>2. ASSUME NEW l, NEW f, NEW n, NEW thing, IsSource(l, f, n, thing)
        PROVE  IsSource(l, f, n, thing)'
    <2>1. RowsAt(l, f)' = RowsAt(l, f)
      BY SameRows
    <2> QED  BY <1>1, <1>2, <2>1 DEF IsSource, PartsIn, Ids, Thing
  <1> QED  BY <1>1, <1>2 DEF StoredInv

\* A commit stores the things of rows that were held, each of them once: none is
\* there yet, for it would have come from the same row.
LEMMA StoredCommitted ==
    ASSUME FilesInv, StoredInv, HeldInv, state = "loading", NEW f \in FileNames,
           UNCHANGED <<program, extract, at>>, Active',
           db' = Committed(f), files'[f].pos = files[f].pos, files'[f].tx = {},
           \A g \in FileNames : g # f => files'[g] = files[g]
    PROVE  /\ StoredInv' /\ Stored \subseteq Stored'
           /\ \A x \in files[f].tx :
                 Current.commit # "queue" \/ Matches(x, Stored) => Thing(x) \in Stored'
PROOF
  <1> DEFINE held == files[f].tx
             executed == IF Current.commit = "queue" THEN {x \in held : Matches(x, Stored)} ELSE held
             new == {Thing(x) : x \in executed}
  <1>1. /\ Types /\ at \in 1 .. Len(Main) /\ Active /\ FileOK(f, files[f])
        /\ program \in Programs /\ extract \in Extracts
    BY DEF FilesInv, Active, Types
  <1>2. /\ FileNames = FilesAt(at) /\ \A g : Content(g) = RowsAt(at, g)
        /\ Len(Content(f)) \in Nat
    BY <1>1, CurrentFiles
  <1>3. ASSUME NEW x \in held
        PROVE  \E n : IsRow(at, f, n) /\ n <= files[f].pos /\ x = RowsAt(at, f)[n]
    <2>1. held \subseteq {Content(f)[n] : n \in 1 .. files[f].pos} /\ files[f].pos \in 0 .. Len(Content(f))
      BY <1>1 DEF FileOK
    <2>2. PICK n \in 1 .. files[f].pos : x = Content(f)[n]
      BY <2>1, <1>3
    <2>3. n \in 1 .. Len(Content(f)) /\ n <= files[f].pos
      BY <1>2, <2>1, <2>2
    <2> QED  BY <1>1, <1>2, <2>2, <2>3 DEF IsRow
  <1>4. new \cap Stored = {}
    <2> SUFFICES ASSUME NEW x \in executed, Thing(x) \in Stored PROVE FALSE
      OBVIOUS
    <2>1. x \in held
      OBVIOUS
    <2>2. PICK n : IsRow(at, f, n) /\ x = RowsAt(at, f)[n]
      BY <1>3, <2>1
    <2>3. PICK l, g, k : IsSource(l, g, k, Thing(x))
      BY DEF StoredInv
    <2>4. Past(l, g, k) /\ IsRow(l, g, k) /\ Thing(RowsAt(l, g)[k]) = Thing(x)
      BY <2>3 DEF IsSource, Past
    <2>5. l = at /\ g = f /\ k = n
      BY <1>1, <2>2, <2>4, RowsDiffer
    <2> QED  BY <1>1, <2>1, <2>2, <2>4, <2>5 DEF Past
  <1>5. db' \in [Stored \cup new -> {1}]
    <2>1. db' = db (+) SetToBag(new)
      BY DEF Committed
    <2>2. db \in [Stored -> {1}]
      BY DEF StoredInv
    <2> HIDE DEF new
    <2>3. db (+) SetToBag(new) \in [Stored \cup new -> {1}]
      BY <1>4, <2>2, AddedOnce, Zenon
    <2> QED  BY <2>1, <2>3, Zenon
  <1>6. Stored' = Stored \cup new
    BY <1>5 DEF Stored, BagToSet
  <1>7. Main' = Main /\ \A l, g : RowsAt(l, g)' = RowsAt(l, g) /\ \A n : IsRow(l, g, n)' <=> IsRow(l, g, n)
    BY SameRows
  <1>8. ASSUME NEW l, NEW g, NEW n, Past(l, g, n)
        PROVE  Past(l, g, n)'
    <2>1. IsRow(l, g, n)'
      BY <1>7, <1>8 DEF Past
    <2>2. CASE l < at
      BY <2>1, <2>2 DEF Past
    <2>3. CASE l = at
      <3>1. g \in FileNames /\ n <= files[g].pos /\ RowsAt(l, g)[n] \notin files[g].tx
        BY <1>1, <1>2, <1>8, <2>3 DEF Past, IsRow
      <3>2. n <= files'[g].pos /\ RowsAt(l, g)[n] \notin files'[g].tx
        BY <3>1
      <3> QED  BY <1>7, <2>1, <2>3, <3>2 DEF Past
    <2> QED  BY <1>8, <2>2, <2>3 DEF Past
  <1>9. ASSUME NEW thing \in Stored
        PROVE  \E l, g, n : IsSource(l, g, n, thing)'
    <2>1. PICK l, g, n : IsSource(l, g, n, thing)
      BY DEF StoredInv
    <2>2. Past(l, g, n) /\ Thing(RowsAt(l, g)[n]) = thing /\ PartsIn(RowsAt(l, g)[n], Stored)
      BY <2>1 DEF IsSource
    <2>3. PartsIn(RowsAt(l, g)[n], Stored')
      BY <1>6, <2>2, MatchesParts
    <2>4. RowsAt(l, g)' = RowsAt(l, g)
      BY <1>7
    <2>5. IsSource(l, g, n, thing)'
      BY <1>8, <2>2, <2>3, <2>4, SourceNext
    <2> QED  BY <2>5
  <1>10. ASSUME NEW thing \in new
         PROVE  \E l, g, n : IsSource(l, g, n, thing)'
    <2>1. PICK x \in executed : thing = Thing(x)
      BY <1>10
    <2>2. x \in held
      BY <2>1
    <2>3. PICK n : IsRow(at, f, n) /\ n <= files[f].pos /\ x = RowsAt(at, f)[n]
      BY <1>3, <2>2
    <2>4. PartsIn(x, Stored')
      <3>1. CASE Current.commit = "queue"
        <4>1. Matches(x, Stored)
          BY <2>1, <3>1
        <4> QED  BY <1>6, <4>1, MatchesParts
      <3>2. CASE Current.commit # "queue"
        <4>1. PartsIn(x, Visible(f))
          BY <1>1, <2>2, <3>2 DEF HeldInv
        <4>2. Visible(f) \subseteq Stored'
          BY <1>6, <3>2 DEF Visible
        <4> QED  BY <4>1, <4>2, MatchesParts
      <3> QED  BY <3>1, <3>2
    <2>5. Past(at, f, n)'
      <3>1. IsRow(at, f, n)' /\ at' = at
        BY <1>7, <2>3
      <3> QED  BY <2>3, <3>1 DEF Past
    <2>6. RowsAt(at, f)' = RowsAt(at, f)
      BY <1>7
    <2>7. IsSource(at, f, n, thing)'
      BY <2>1, <2>3, <2>4, <2>5, <2>6, SourceNext
    <2> QED  BY <2>7
  <1>11. \A x \in held : Current.commit # "queue" \/ Matches(x, Stored) => Thing(x) \in new
    OBVIOUS
  <1> QED
    <2> HIDE DEF new
    <2> QED  BY <1>5, <1>6, <1>9, <1>10, <1>11 DEF StoredInv

\* The steps of a file f, and what each does to its rows.
Rereads(f) ==                       \* nothing is read or stored
    /\ db' = db
    /\ files'[f].pos = files[f].pos
    /\ files'[f].tx = files[f].tx
    /\ files[f].pc = "open" \/ files[f].pos = 0

Ends(f) ==                          \* nothing more is stored of it
    /\ db' = db
    /\ files'[f].pos = files[f].pos
    /\ files'[f].tx \in {{}, files[f].tx}
    /\ files'[f].pc \in {"failed", "cancelled"}

Commits(f) ==
    /\ db' = Committed(f)
    /\ files'[f].pos = files[f].pos
    /\ files'[f].tx = {}
    /\ files[f].pc \in {"open", "full"}

Takes(f, x) ==
    HasQuery(x) /\ (Current.commit = "queue" \/ Matches(x, Visible(f)))

ReadsRow(f, x) ==
    /\ db' = db
    /\ files'[f].pos = files[f].pos + 1
    /\ files[f].pos + 1 \in 1 .. Len(Content(f))
    /\ x = Content(f)[files[f].pos + 1]
    /\ files'[f].tx = IF Takes(f, x) THEN files[f].tx \cup {x} ELSE files[f].tx
    /\ files[f].pc = "open"

OneStep(f) ==
    /\ f \in FileNames /\ state = "loading"
    /\ UNCHANGED <<program, extract, state, at>>
    /\ \A g \in FileNames : g # f => files'[g] = files[g]
    /\ Rereads(f) \/ Ends(f) \/ Commits(f) \/ \E x : ReadsRow(f, x)

\* Setting the state of a file sets that and no other.
LEMMA SetsOne ==
    ASSUME FilesInv, state = "loading", NEW f \in FileNames, NEW value, Sets(f, value)
    PROVE  files'[f] = value /\ \A g \in FileNames : g # f => files'[g] = files[g]
  BY DEF FilesInv, Active, Sets

\* The transaction of a file ends.
LEMMA EmptiedStep ==
    ASSUME FilesInv, NEW f, NEW pc, NEW to, Loading(f, pc),
           Sets(f, [files[f] EXCEPT !.pc = to, !.tx = {}])
    PROVE  /\ f \in FileNames /\ state = "loading" /\ files[f].pc = pc
           /\ \A g \in FileNames : g # f => files'[g] = files[g]
           /\ files'[f].pc = to /\ files'[f].pos = files[f].pos /\ files'[f].tx = {}
PROOF
  <1> DEFINE value == [files[f] EXCEPT !.pc = to, !.tx = {}]
  <1>1. f \in FileNames /\ state = "loading" /\ files[f].pc = pc /\ IsFile(files[f])
    BY FileFound
  <1>2. value.pc = to /\ value.tx = {} /\ value.pos = files[f].pos
    BY <1>1, Emptied, Zenon
  <1> HIDE DEF value
  <1>3. files'[f] = value /\ \A g \in FileNames : g # f => files'[g] = files[g]
    BY <1>1, SetsOne DEF value
  <1> QED  BY <1>1, <1>2, <1>3

\* Its pc changes.
LEMMA MovedStep ==
    ASSUME FilesInv, NEW f, NEW pc, NEW to, Loading(f, pc),
           Sets(f, [files[f] EXCEPT !.pc = to])
    PROVE  /\ f \in FileNames /\ state = "loading" /\ files[f].pc = pc
           /\ \A g \in FileNames : g # f => files'[g] = files[g]
           /\ files'[f].pc = to /\ files'[f].pos = files[f].pos /\ files'[f].tx = files[f].tx
PROOF
  <1> DEFINE value == [files[f] EXCEPT !.pc = to]
  <1>1. f \in FileNames /\ state = "loading" /\ files[f].pc = pc /\ IsFile(files[f])
    BY FileFound
  <1>2. value.pc = to /\ value.tx = files[f].tx /\ value.pos = files[f].pos
    BY <1>1, Moved, Zenon
  <1> HIDE DEF value
  <1>3. files'[f] = value /\ \A g \in FileNames : g # f => files'[g] = files[g]
    BY <1>1, SetsOne DEF value
  <1> QED  BY <1>1, <1>2, <1>3

\* A file is opened.
LEMMA OpenStep ==
    ASSUME FilesInv, NEW f, Open(f)
    PROVE  OneStep(f)
PROOF
  <1> DEFINE count == IF Current.carried /\ f > 1 THEN files[f - 1].count ELSE 0
             value == [Unread EXCEPT !.pc = "open", !.count = count]
  <1>1. Loading(f, "waiting") /\ Sets(f, value) /\ UNCHANGED <<program, extract, state, at, db>>
    BY DEF Open
  <1>2. f \in FileNames /\ state = "loading" /\ files[f].pos = 0 /\ files[f].tx = {}
    BY <1>1, FileFound DEF FileOK
  <1> HIDE DEF count
  <1>3. value.pos = 0 /\ value.tx = {}
    BY DEF Unread
  <1> HIDE DEF value
  <1>4. files'[f] = value /\ \A g \in FileNames : g # f => files'[g] = files[g]
    BY <1>1, <1>2, SetsOne
  <1> QED  BY <1>1, <1>2, <1>3, <1>4 DEF OneStep, Rereads

\* A row is read.
LEMMA RowStep ==
    ASSUME FilesInv, NEW f, Row(f)
    PROVE  OneStep(f)
PROOF
  <1> DEFINE file == files[f]
             x    == Content(f)[file.pos + 1]
             pc   == IF Current.commit \in {"batch", "queue"} /\ BatchFull(file.count + 1)
                       THEN "full" ELSE "open"
             tx   == IF Takes(f, x) THEN file.tx \cup {x} ELSE file.tx
             value == [pc |-> pc, pos |-> file.pos + 1, count |-> file.count + 1, tx |-> tx]
  <1>1. /\ Loading(f, "open") /\ file.pos + 1 \in DOMAIN Content(f) /\ Sets(f, value)
        /\ UNCHANGED <<program, extract, state, at, sealed, db>>
    BY DEF Row, Takes
  <1>2. /\ f \in FileNames /\ state = "loading" /\ file.pc = "open"
        /\ Types /\ at \in 1 .. Len(Main)
    BY <1>1, FileFound
  <1>3. file.pos + 1 \in 1 .. Len(Content(f))
    BY <1>1, <1>2, CurrentFiles
  <1> HIDE DEF pc, tx
  <1>4. value.pos = file.pos + 1 /\ value.tx = tx
    OBVIOUS
  <1> HIDE DEF value
  <1>5. files'[f] = value /\ \A g \in FileNames : g # f => files'[g] = files[g]
    BY <1>1, <1>2, SetsOne
  <1>6. ReadsRow(f, x)
    BY <1>1, <1>2, <1>3, <1>4, <1>5 DEF ReadsRow, tx
  <1> QED  BY <1>1, <1>2, <1>5, <1>6 DEF OneStep

\* Every step of a file is one of these.
LEMMA FileSteps ==
    ASSUME FilesInv, NEW f, Works(f) \/ Raises(f) \/ CommitRaises(f)
    PROVE  OneStep(f)
PROOF
  <1>1. CASE CommitBatch(f)
    BY <1>1, EmptiedStep DEF CommitBatch, OneStep, Commits
  <1>2. CASE EndFile(f)
    <2>1. Loading(f, "open") /\ UNCHANGED <<program, extract, state, at>>
      BY <1>2 DEF EndFile, AtEnd
    <2>2. CASE HasRest(f)
      BY <1>2, <2>1, <2>2, EmptiedStep DEF EndFile, OneStep, Commits
    <2>3. CASE ~ HasRest(f)
      BY <1>2, <2>1, <2>3, MovedStep DEF EndFile, OneStep, Rereads
    <2> QED  BY <2>2, <2>3
  <1>3. CASE Raises(f)
    BY <1>3, EmptiedStep DEF Raises, OneStep, Ends
  <1>4. CASE CommitRaises(f)
    BY <1>4, EmptiedStep DEF CommitRaises, AtEnd, OneStep, Commits
  <1>5. CASE UsesClosed(f)
    BY <1>5, MovedStep DEF UsesClosed, OneStep, Ends
  <1>6. CASE Cancel(f)
    BY <1>6, MovedStep DEF Cancel, OneStep, Ends
  <1> QED  BY <1>1, <1>2, <1>3, <1>4, <1>5, <1>6, OpenStep, RowStep DEF Works

\* Where nothing is committed, the rows that are past remain so: the row that is
\* read, and perhaps held, is none of them.
LEMMA PastKept ==
    ASSUME FilesInv, NEW f, OneStep(f), Rereads(f) \/ Ends(f) \/ \E x : ReadsRow(f, x),
           NEW l, NEW g, NEW n, Past(l, g, n)
    PROVE  Past(l, g, n)'
PROOF
  <1>1. /\ f \in FileNames /\ state = "loading" /\ UNCHANGED <<program, extract, state, at>>
        /\ \A h \in FileNames : h # f => files'[h] = files[h]
    BY DEF OneStep
  <1>2. IsRow(l, g, n)' /\ RowsAt(l, g)' = RowsAt(l, g) /\ IsRow(l, g, n)
    BY <1>1, SameRows DEF Past
  <1>3. /\ Types /\ at \in 1 .. Len(Main) /\ program \in Programs /\ extract \in Extracts
        /\ \A h \in FileNames : FileOK(h, files[h])
    BY <1>1 DEF FilesInv, Active, Types
  <1>4. FileNames = FilesAt(at) /\ \A h : Content(h) = RowsAt(at, h)
    BY <1>3, CurrentFiles
  <1>5. CASE l < at
    BY <1>1, <1>2, <1>5 DEF Past
  <1>6. CASE l = at
    <2>1. g \in FileNames /\ n \in Int /\ n <= files[g].pos /\ RowsAt(l, g)[n] \notin files[g].tx
      BY <1>2, <1>3, <1>4, <1>6 DEF Past, IsRow
    <2>2. n <= files'[g].pos /\ RowsAt(l, g)[n] \notin files'[g].tx
      <3>1. CASE g # f
        BY <1>1, <2>1, <3>1
      <3>2. CASE g = f /\ (Rereads(f) \/ Ends(f))
        BY <2>1, <3>2 DEF Rereads, Ends
      <3>3. ASSUME NEW x, g = f, ReadsRow(f, x)
            PROVE  n <= files'[g].pos /\ RowsAt(l, g)[n] \notin files'[g].tx
        <4> DEFINE m == files[f].pos + 1
        <4>1. /\ m \in 1 .. Len(Content(f)) /\ x = Content(f)[m] /\ files'[f].pos = m
              /\ files'[f].tx \subseteq files[f].tx \cup {x}
          BY <3>3 DEF ReadsRow
        <4>2. files[f].pos \in Nat
          <5>1. files[f].pos \in 0 .. Len(Content(f))
            BY <1>1, <1>3 DEF FileOK
          <5> QED  BY <5>1
        <4>3. IsRow(at, f, m)
          BY <1>1, <1>3, <1>4, <4>1 DEF IsRow
        <4>4. n # m /\ n <= m
          BY <2>1, <3>3, <4>2
        <4>5. Thing(RowsAt(at, f)[n]) # Thing(RowsAt(at, f)[m])
          BY <1>2, <1>3, <1>6, <3>3, <4>3, <4>4, RowsDiffer
        <4>6. RowsAt(l, g)[n] # x
          BY <1>4, <1>6, <3>3, <4>1, <4>5
        <4> QED  BY <2>1, <3>3, <4>1, <4>4, <4>6
      <3> QED  BY <3>1, <3>2, <3>3
    <2> QED  BY <1>1, <1>2, <1>6, <2>2 DEF Past, Active
  <1> QED  BY <1>5, <1>6 DEF Past

\* What a row matched when it was read stays visible to its transaction.
LEMMA HeldKept ==
    ASSUME FilesInv, HeldInv, NEW f, OneStep(f), Stored \subseteq Stored'
    PROVE  HeldInv'
PROOF
  <1>1. /\ f \in FileNames /\ state = "loading" /\ state' = "loading"
        /\ UNCHANGED <<program, extract, at>>
        /\ \A h \in FileNames : h # f => files'[h] = files[h]
    BY DEF OneStep
  <1>2. FileNames' = FileNames /\ Current' = Current
    BY <1>1, SameLoad
  <1>3. ASSUME NEW g \in FileNames, NEW x \in files'[g].tx, Current.commit # "queue"
        PROVE  PartsIn(x, Visible(g)')
    <2>1. Visible(g)' = Stored' \cup {Thing(y) : y \in files'[g].tx}
      BY DEF Visible, Thing
    <2>2. CASE files'[g].tx \subseteq files[g].tx
      <3>1. CASE g # f
        <4>1. PartsIn(x, Visible(g)) /\ files'[g] = files[g]
          BY <1>1, <1>3, <3>1 DEF HeldInv, Active
        <4>2. Visible(g) \subseteq Visible(g)'
          BY <2>1, <4>1 DEF Visible
        <4> QED  BY <4>1, <4>2, MatchesParts
      <3>2. CASE g = f
        <4>1. PartsIn(x, Visible(f))
          BY <1>1, <1>3, <2>2, <3>2 DEF HeldInv, Active
        <4>2. files'[f].tx = files[f].tx
          BY <1>3, <2>2, <3>2 DEF OneStep, Rereads, Ends, Commits, ReadsRow
        <4>3. Visible(f) \subseteq Visible(g)'
          BY <2>1, <3>2, <4>2 DEF Visible
        <4> QED  BY <4>1, <4>3, MatchesParts
      <3> QED  BY <3>1, <3>2
    <2>3. CASE ~ files'[g].tx \subseteq files[g].tx
      <3>1. PICK y : /\ g = f /\ files'[f].tx = files[f].tx \cup {y}
                     /\ Takes(f, y)
        BY <1>1, <2>3 DEF OneStep, Rereads, Ends, Commits, ReadsRow
      <3>2. PartsIn(x, Visible(f))
        <4>1. CASE x = y
          BY <1>3, <3>1, <4>1, MatchesParts DEF Takes
        <4>2. CASE x # y
          BY <1>1, <1>3, <3>1, <4>2 DEF HeldInv, Active
        <4> QED  BY <4>1, <4>2
      <3>3. Visible(f) \subseteq Visible(g)'
        BY <2>1, <3>1 DEF Visible
      <3> QED  BY <3>2, <3>3, MatchesParts
    <2> QED  BY <2>2, <2>3
  <1>4. ASSUME NEW g \in FileNames', NEW x \in files'[g].tx, Current'.commit # "queue"
        PROVE  PartsIn(x, Visible(g))'
    <2>1. PartsIn(x, Visible(g)')
      BY <1>2, <1>3, <1>4
    <2> QED  BY <2>1 DEF PartsIn, Ids
  <1> QED  BY <1>4 DEF HeldInv

\* A load begins with nothing held.
LEMMA ProceedsHeld ==
    ASSUME NEW l, Proceeds(l), UNCHANGED <<program, extract>>
    PROVE  HeldInv'
PROOF
  <1>1. Main' = Main /\ at' = l
    BY DEF Proceeds, Main
  <1>2. CASE l > Len(Main)
    BY <1>2 DEF Proceeds, HeldInv, Active
  <1>3. CASE ~ l > Len(Main)
    <2>1. FileNames' = DOMAIN extract[Main[l].reads]
      BY <1>1 DEF FileNames, Current
    <2>2. files' = [f \in FileNames' |-> Unread]
      BY <1>3, <2>1 DEF Proceeds, Fresh
    <2>3. \A f \in FileNames' : files'[f].tx = {}
      BY <2>2 DEF Unread
    <2> QED  BY <2>3 DEF HeldInv
  <1> QED  BY <1>2, <1>3

\* Or with what was held before.
LEMMA HeldSame ==
    ASSUME HeldInv, UNCHANGED <<program, extract, at, files, db>>, Active' => Active
    PROVE  HeldInv'
PROOF
  <1>1. FileNames' = FileNames /\ Current' = Current
    BY SameLoad
  <1>2. \A f : Visible(f)' = Visible(f)
    BY DEF Visible, Stored, Thing
  <1>3. ASSUME Active, NEW f \in FileNames, NEW x \in files[f].tx, Current.commit # "queue"
        PROVE  PartsIn(x, Visible(f))'
    <2>1. PartsIn(x, Visible(f))
      BY <1>3 DEF HeldInv
    <2>2. PartsIn(x, Visible(f)')
      BY <1>2, <2>1
    <2> QED  BY <2>2 DEF PartsIn, Ids
  <1> QED  BY <1>1, <1>3 DEF HeldInv

\* The steps of a file store what they should.
LEMMA OneStepStored ==
    ASSUME FilesInv, StoredInv, HeldInv, NEW f, OneStep(f)
    PROVE  StoredInv' /\ HeldInv'
PROOF
  <1>1. /\ f \in FileNames /\ state = "loading" /\ state' = "loading"
        /\ UNCHANGED <<program, extract, at>>
        /\ \A h \in FileNames : h # f => files'[h] = files[h]
    BY DEF OneStep
  <1>2. CASE Commits(f)
    <2>1. StoredInv' /\ Stored \subseteq Stored'
      BY <1>1, <1>2, StoredCommitted DEF Commits, Active
    <2> QED  BY <2>1, HeldKept
  <1>3. CASE Rereads(f) \/ Ends(f) \/ \E x : ReadsRow(f, x)
    <2>1. db' = db
      BY <1>3 DEF Rereads, Ends, ReadsRow
    <2>2. \A l, g, n : Past(l, g, n) => Past(l, g, n)'
      BY <1>3, PastKept
    <2>3. StoredInv'
      BY <1>1, <2>1, <2>2, StoredKept
    <2>4. Stored \subseteq Stored'
      BY <2>1 DEF Stored
    <2> QED  BY <2>3, <2>4, HeldKept
  <1> QED  BY <1>2, <1>3 DEF OneStep

\* Every thing in the database comes from a row that has been read and is held no
\* more, and what that row matched is in the database.
THEOREM StoredInvariant == Spec => [](StoredInv /\ HeldInv)
PROOF
  <1>1. Init => StoredInv /\ HeldInv
    BY DEF Init, StoredInv, HeldInv, Active, Stored, BagToSet, EmptyBag, SetToBag
  <1>2. FilesInv /\ StoredInv /\ HeldInv /\ [Next]_vars => StoredInv' /\ HeldInv'
    <2> SUFFICES ASSUME FilesInv, StoredInv, HeldInv, [Next]_vars PROVE StoredInv' /\ HeldInv'
      OBVIOUS
    <2>1. CASE Begin
      <3>1. db' = EmptyBag /\ Proceeds(1) /\ UNCHANGED <<program, extract>>
        BY <2>1 DEF Begin
      <3>2. StoredInv'
        BY <3>1 DEF StoredInv, Stored, BagToSet, EmptyBag, SetToBag
      <3> QED  BY <3>1, <3>2, ProceedsHeld
    <2>2. CASE EndLoad
      <3>1. Proceeds(at + 1) /\ UNCHANGED <<program, extract, db>> /\ at \in Int
        BY <2>2, MainLoads DEF EndLoad, FilesInv, Active, Types
      <3>2. ASSUME NEW l, NEW f, NEW n, Past(l, f, n) PROVE Past(l, f, n)'
        <4>1. l \in Int /\ l <= at /\ IsRow(l, f, n)
          BY <3>1, <3>2 DEF Past, IsRow
        <4>2. at' = at + 1
          BY <3>1 DEF Proceeds
        <4>3. l < at' /\ IsRow(l, f, n)'
          BY <3>1, <4>1, <4>2, SameRows
        <4> QED  BY <4>3 DEF Past
      <3>3. StoredInv'
        BY <3>1, <3>2, StoredKept
      <3> QED  BY <3>1, <3>3, ProceedsHeld
    <2>3. CASE Fail
      <3>1. /\ UNCHANGED <<program, extract, at, files, db>>
            /\ state = "loading" /\ state' = "failed"
        BY <2>3 DEF Fail
      <3>2. ASSUME NEW l, NEW f, NEW n, Past(l, f, n) PROVE Past(l, f, n)'
        <4>1. IsRow(l, f, n)' /\ RowsAt(l, f)' = RowsAt(l, f)
          BY <3>1, <3>2, SameRows DEF Past
        <4> QED  BY <3>1, <3>2, <4>1 DEF Past, Active
      <3>3. StoredInv'
        BY <3>1, <3>2, StoredKept
      <3>4. HeldInv'
        BY <3>1, HeldSame DEF Active
      <3> QED  BY <3>3, <3>4
    <2>4. ASSUME NEW f \in DOMAIN files, Works(f) \/ Raises(f) \/ CommitRaises(f)
          PROVE  StoredInv' /\ HeldInv'
      BY <2>4, FileSteps, OneStepStored
    <2>5. CASE UNCHANGED vars
      <3>1. UNCHANGED <<program, extract, state, at, files, db>>
        BY <2>5 DEF vars
      <3>2. ASSUME NEW l, NEW f, NEW n, Past(l, f, n) PROVE Past(l, f, n)'
        <4>1. IsRow(l, f, n)' /\ RowsAt(l, f)' = RowsAt(l, f)
          BY <3>1, <3>2, SameRows DEF Past
        <4> QED  BY <3>1, <3>2, <4>1 DEF Past, Active
      <3>3. StoredInv'
        BY <3>1, <3>2, StoredKept
      <3>4. HeldInv'
        BY <3>1, HeldSame DEF Active
      <3> QED  BY <3>3, <3>4
    <2> QED  BY <2>1, <2>2, <2>3, <2>4, <2>5 DEF Next, Progress
  <1> QED  BY <1>1, <1>2, FilesInvariant, PTL DEF Spec

\* The rows of a load are those read of its files.
LEMMA RowsOf ==
    ASSUME program \in Programs, extract \in Extracts, NEW l, NEW f, NEW n, IsRow(l, f, n)
    PROVE  RowsAt(l, f)[n] \in Rows(Main[l])
PROOF
  <1>1. f \in DOMAIN extract[Main[l].reads] /\ n \in DOMAIN RowsAt(l, f)
    BY Contents DEF IsRow, FilesAt
  <1>2. RowsAt(l, f)[n] \in ToSet(RowsAt(l, f))
    BY <1>1 DEF ToSet
  <1>3. extract[Main[l].reads][f] \in ToSet(extract[Main[l].reads])
    BY <1>1 DEF ToSet
  <1> HIDE DEF Main
  <1> QED  BY <1>2, <1>3 DEF Rows, RowsAt

\* TypeOK: the states of the files, what is held of each, and the bag of things
\* stored.
THEOREM TypeCorrect == Spec => []TypeOK
PROOF
  <1>1. FilesInv /\ StoredInv => TypeOK
    <2> SUFFICES ASSUME FilesInv, StoredInv PROVE TypeOK
      OBVIOUS
    <2>1. IsABag(db)
      BY DEF StoredInv, IsABag, Stored, BagToSet
    <2>2. at \in 0 .. Len(Main) + 1
      BY MainLoads DEF FilesInv, Types, Active
    <2>3. ASSUME Active, NEW f \in FileNames
          PROVE  /\ files[f].pc \in FileStates
                 /\ files[f].pos \in 0 .. Len(Content(f))
                 /\ files[f].count \in Nat
                 /\ ~ Current.carried => files[f].count = files[f].pos
                 /\ files[f].tx \subseteq ToSet(Content(f))
      <3>1. FileOK(f, files[f]) /\ Types /\ at \in 1 .. Len(Main)
        BY <2>3 DEF FilesInv
      <3>2. Len(Content(f)) \in Nat /\ DOMAIN Content(f) = 1 .. Len(Content(f))
        BY <2>3, <3>1, CurrentFiles
      <3>3. files[f].tx \subseteq ToSet(Content(f))
        <4> DEFINE line(n) == Content(f)[n]
                   pos == files[f].pos
        <4>1. files[f].tx \subseteq {line(n) : n \in 1 .. pos} /\ pos \in 0 .. Len(Content(f))
          BY <3>1 DEF FileOK
        <4>2. ToSet(Content(f)) = {line(n) : n \in 1 .. Len(Content(f))}
          BY <3>2 DEF ToSet
        <4> HIDE DEF line, pos
        <4>3. 1 .. pos \subseteq 1 .. Len(Content(f))
          BY <3>2, <4>1
        <4> QED  BY <4>1, <4>2, <4>3
      <3> QED  BY <3>1, <3>3 DEF FileOK
    <2> QED  BY <2>1, <2>2, <2>3 DEF TypeOK, FilesInv, Types, Active
  <1> QED  BY <1>1, FilesInvariant, StoredInvariant, PTL

\* StoredOnce: the commits store no row twice, and none whose parts are not stored,
\* wherever a load ends and however often the program is run.
THEOREM RowsStoredOnce == Spec => []StoredOnce
PROOF
  <1>1. FilesInv /\ StoredInv /\ TypeOK => StoredOnce
    <2> SUFFICES ASSUME FilesInv, StoredInv, TypeOK, NEW thing \in Stored
                 PROVE  /\ db[thing] = 1
                        /\ \E l \in 1 .. Len(Main) : \E x \in Rows(Main[l]) :
                              Thing(x) = thing /\ PartsIn(x, Stored)
      BY DEF StoredOnce
    <2>1. db[thing] = 1
      BY DEF StoredInv
    <2>2. PICK l, f, n : IsSource(l, f, n, thing)
      BY DEF StoredInv
    <2>3. /\ IsRow(l, f, n) /\ Thing(RowsAt(l, f)[n]) = thing
          /\ PartsIn(RowsAt(l, f)[n], Stored)
      BY <2>2 DEF IsSource, Past
    <2>4. l \in 1 .. Len(Main) /\ RowsAt(l, f)[n] \in Rows(Main[l])
      BY <2>3, RowsOf DEF FilesInv, Types, IsRow
    <2> QED  BY <2>1, <2>3, <2>4
  <1> QED  BY <1>1, FilesInvariant, StoredInvariant, TypeCorrect, PTL


-----------------------------------------------------------------------------
(***************************************************************************)
(* What a row refers to.                                                   *)
(***************************************************************************)

\* The assumption on references, of the rows as they are read.
LEMMA References ==
    ASSUME program \in Programs, extract \in Extracts, NEW l, NEW f, NEW n, IsRow(l, f, n)
    PROVE  LET x == RowsAt(l, f)[n] IN
              /\ x.row.id # 0
              /\ Main[l].reads \notin {"Place", "TagClass", "Tag"} => Ids(x)[1] # 0
              /\ \A k \in DOMAIN x.pass.match : Ids(x)[k] # 0 =>
                    \E m, g, j : /\ IsRow(m, g, j)
                                 /\ Thing(RowsAt(m, g)[j])[1] \in Subtypes(x.pass.match[k])
                                 /\ Thing(RowsAt(m, g)[j])[2] = Ids(x)[k]
PROOF
  <1> DEFINE x == RowsAt(l, f)[n]
  <1>1. l \in DOMAIN Main /\ f \in DOMAIN extract[Main[l].reads]
    BY MainLoads DEF IsRow, FilesAt
  <1>2. x \in ToSet(Reads(Main[l], extract[Main[l].reads][f]))
    <2>1. n \in DOMAIN RowsAt(l, f)
      BY Contents DEF IsRow
    <2> QED  BY <2>1 DEF ToSet, RowsAt
  <1> HIDE DEF x
  <1>3. /\ x.row.id # 0
        /\ Main[l].reads \notin {"Place", "TagClass", "Tag"} => Ids(x)[1] # 0
        /\ \A k \in DOMAIN x.pass.match : Ids(x)[k] # 0 =>
              \E m \in DOMAIN Main : \E g \in DOMAIN extract[Main[m].reads] :
                  \E y \in ToSet(Reads(Main[m], extract[Main[m].reads][g])) :
                      Thing(y)[1] \in Subtypes(x.pass.match[k]) /\ Thing(y)[2] = Ids(x)[k]
    <2> HIDE DEF MainOf, Reads, Thing, Ids
    <2> QED  BY <1>1, <1>2, ReferencesAssumption DEF Main
  <1>4. ASSUME NEW k \in DOMAIN x.pass.match, Ids(x)[k] # 0
        PROVE  \E m, g, j : /\ IsRow(m, g, j)
                            /\ Thing(RowsAt(m, g)[j])[1] \in Subtypes(x.pass.match[k])
                            /\ Thing(RowsAt(m, g)[j])[2] = Ids(x)[k]
    <2>1. PICK m \in DOMAIN Main : \E g \in DOMAIN extract[Main[m].reads] :
                  \E y \in ToSet(Reads(Main[m], extract[Main[m].reads][g])) :
                      Thing(y)[1] \in Subtypes(x.pass.match[k]) /\ Thing(y)[2] = Ids(x)[k]
      BY <1>3, <1>4
    <2> PICK g \in DOMAIN extract[Main[m].reads] :
                  \E y \in ToSet(RowsAt(m, g)) :
                      Thing(y)[1] \in Subtypes(x.pass.match[k]) /\ Thing(y)[2] = Ids(x)[k]
      BY <2>1 DEF RowsAt
    <2>2. m \in 1 .. Len(Main) /\ g \in FilesAt(m)
      BY MainLoads DEF FilesAt
    <2>3. PICK j \in DOMAIN RowsAt(m, g) :
                  /\ Thing(RowsAt(m, g)[j])[1] \in Subtypes(x.pass.match[k])
                  /\ Thing(RowsAt(m, g)[j])[2] = Ids(x)[k]
      BY DEF ToSet
    <2>4. IsRow(m, g, j)
      BY <2>2, Contents DEF IsRow
    <2> QED  BY <2>3, <2>4
  <1> QED  BY <1>3, <1>4 DEF x

\* A file that is read twice is read to its end first.
LEMMA TwoPasses ==
    ASSUME NEW load, Len(load.passes) = 2, NEW S, NEW file \in Seq(S),
           NEW n \in 1 .. Len(Reads(load, file))
    PROVE  /\ n <= Len(file) => Reads(load, file)[n].pass = load.passes[1]
           /\ n > Len(file) => Reads(load, file)[n].pass = load.passes[2]
PROOF
  <1> DEFINE size == Len(load.passes) * Len(file)
             line(m) == [pass |-> load.passes[(m - 1) \div Len(file) + 1],
                         row  |-> file[((m - 1) % Len(file)) + 1]]
             T == {line(m) : m \in 1 .. size}
             k == Len(file)
  <1>1. k \in Nat /\ size = 2 * k
    OBVIOUS
  <1>2. Reads(load, file) = [m \in 1 .. size |-> line(m)]
    BY DEF Reads
  <1> HIDE DEF size
  <1>3. n \in 1 .. size
    <2> HIDE DEF line
    <2>1. [m \in 1 .. size |-> line(m)] \in Seq(T)
      BY <1>1
    <2>2. Len([m \in 1 .. size |-> line(m)]) = size
      BY <1>1, <2>1
    <2> QED  BY <1>2, <2>2
  <1>4. Reads(load, file)[n].pass = load.passes[(n - 1) \div k + 1]
    BY <1>2, <1>3
  <1>5. n \in Nat /\ 0 < n /\ n <= 2 * k
    BY <1>1, <1>3
  <1> HIDE DEF k
  <1>6. ASSUME n <= k PROVE (n - 1) \div k = 0
    <2>1. 0 <= n - 1 /\ n - 1 < k /\ 0 < k
      BY <1>1, <1>5, <1>6
    <2> QED  BY <1>1, <1>5, <2>1
  <1>7. ASSUME n > k PROVE (n - 1) \div k = 1
    <2>1. k <= n - 1 /\ n - 1 < 2 * k /\ 0 < k
      BY <1>1, <1>5, <1>7
    <2> QED  BY <1>1, <1>5, <2>1
  <1> QED  BY <1>4, <1>6, <1>7 DEF k

\* The pass a row is read in, and where: the loads of one pass read the rows of the
\* file one by one.
LEMMA RowPass ==
    ASSUME program \in Programs, extract \in Extracts, NEW l, NEW f, NEW n, IsRow(l, f, n)
    PROVE  LET x == RowsAt(l, f)[n]
               k == Len(extract[Main[l].reads][f])
           IN  /\ l \in 1 .. 19 /\ n \in 1 .. Len(RowsAt(l, f)) /\ k \in Nat /\ LoadFits(l, Main[l])
               /\ l # 4 => PassFits(l, 1, x.pass) /\ x.row = extract[Main[l].reads][f][n]
               /\ l = 4 /\ n <= k => PassFits(l, 1, x.pass)
               /\ l = 4 /\ n > k  => PassFits(l, 2, x.pass)
PROOF
  <1> DEFINE S == [type : STRING, id : Nat, parts : Seq(Nat)]
             these == extract[Main[l].reads]
  <1>1. /\ l \in 1 .. 19 /\ LoadFits(l, Main[l]) /\ f \in DOMAIN these
        /\ n \in 1 .. Len(Reads(Main[l], these[f]))
    BY LoadsFit DEF IsRow, FilesAt, RowsAt
  <1>2. these \in Seq(Seq(S))
    BY <1>1, ExtractsAssumption DEF LoadFits
  <1> HIDE DEF S, these, Main
  <1>3. these[f] \in Seq(S) /\ Len(these[f]) \in Nat
    BY <1>1, <1>2
  <1>4. Len(Main[l].passes) = IF l = 4 THEN 2 ELSE 1
    BY <1>1 DEF LoadFits
  <1>5. ASSUME l # 4
        PROVE  /\ Reads(Main[l], these[f])[n].pass = Main[l].passes[1]
               /\ Reads(Main[l], these[f])[n].row = these[f][n]
    <2>1. Len(Main[l].passes) = 1 /\ Len(Main[l].passes) \in Nat
      BY <1>4, <1>5
    <2>2. /\ n \in 1 .. Len(these[f])
          /\ Reads(Main[l], these[f])[n] = [pass |-> Main[l].passes[1], row |-> these[f][n]]
      <3>1. /\ Len(Reads(Main[l], these[f])) = Len(these[f])
            /\ \A m \in 1 .. Len(these[f]) :
                  Reads(Main[l], these[f])[m] = [pass |-> Main[l].passes[1], row |-> these[f][m]]
        <4> DEFINE load == Main[l]
                   file == these[f]
        <4>1. file \in Seq(S) /\ Len(load.passes) = 1 /\ Len(load.passes) \in Nat
          BY <1>3, <2>1
        <4> HIDE DEF load, file
        <4>2. /\ Len(Reads(load, file)) = Len(file)
              /\ \A m \in 1 .. Len(file) :
                    Reads(load, file)[m] = [pass |-> load.passes[1], row |-> file[m]]
          BY <4>1, ReadsSeq, Zenon
        <4> QED  BY <4>2 DEF load, file
      <3> QED  BY <1>1, <3>1
    <2> QED  BY <2>2
  <1>6. ASSUME l = 4
        PROVE  /\ n <= Len(these[f]) => Reads(Main[l], these[f])[n].pass = Main[l].passes[1]
               /\ n > Len(these[f]) => Reads(Main[l], these[f])[n].pass = Main[l].passes[2]
    BY <1>1, <1>3, <1>4, <1>6, TwoPasses
  <1>7. PassFits(l, 1, Main[l].passes[1]) /\ (l = 4 => PassFits(l, 2, Main[l].passes[2]))
    BY <1>1 DEF LoadFits
  <1> QED  BY <1>1, <1>3, <1>5, <1>6, <1>7 DEF RowsAt, these

\* The type a row's thing is of, where others match it, is made by its load only.
LEMMA ThingStage ==
    ASSUME program \in Programs, extract \in Extracts, NEW l, NEW f, NEW n, IsRow(l, f, n),
           Thing(RowsAt(l, f)[n])[1] \in Matched
    PROVE  LET x == RowsAt(l, f)[n] IN
              /\ Stage(Thing(x)[1]) = l /\ ~ x.pass.own
              /\ x.pass.makes = "Comment" <=> Thing(x)[1] = "Comment"
PROOF
  <1> DEFINE x == RowsAt(l, f)[n]
  <1>1. PICK j : PassFits(l, j, x.pass)
    BY RowPass DEF IsRow
  <1>2. Thing(x)[1] \in Makes(x.pass) /\ Thing(x)[1] \in Matched
    <2>1. Thing(x)[1] = IF x.row.type \in Subtypes(x.pass.makes) THEN x.row.type ELSE x.pass.makes
      BY DEF Thing
    <2> QED  BY <2>1 DEF Makes
  <1> HIDE DEF x
  <1>3. Stage(Thing(x)[1]) = l /\ ~ x.pass.own
    BY <1>1, <1>2 DEF PassFits
  <1>4. x.pass.makes = "Comment" <=> l = 9
    BY <1>1 DEF PassFits
  <1>5. Thing(x)[1] = "Comment" <=> l = 9
    BY <1>2, <1>3 DEF Stage, Matched
  <1> QED  BY <1>3, <1>4, <1>5 DEF x

\* The rows of the load of comments are those of the directory.
LEMMA CommentRow ==
    ASSUME program \in Programs, extract \in Extracts
    PROVE  /\ Main[9].reads = "Comment"
           /\ \A f, n : IsRow(9, f, n) <=> <<f, n>> \in CommentPlaces
           /\ \A p \in CommentPlaces : p = <<p[1], p[2]>> /\ p[1] \in Nat /\ p[2] \in Nat
           /\ \A f, n : IsRow(9, f, n) =>
                 LET x == RowsAt(9, f)[n] IN
                    /\ x.row = CommentAt(<<f, n>>) /\ Ids(x) = x.row.parts
                    /\ Thing(x) = <<"Comment", x.row.id>>
                    /\ x.pass.match = <<"Person", "Country", "Post", "Comment">>
PROOF
  <1> DEFINE S == [type : STRING, id : Nat, parts : Seq(Nat)]
             these == extract["Comment"]
  <1>1. /\ Len(Main) = 19 /\ LoadFits(9, Main[9])
    BY LoadsFit
  <1>2. Main[9].reads = "Comment" /\ "Comment" \in Directories /\ Len(Main[9].passes) = 1
    BY <1>1 DEF LoadFits, Directories
  <1>3. these \in Seq(Seq(S))
    BY <1>2, ExtractsAssumption
  <1> HIDE DEF S, these
  <1>4. DOMAIN these = 1 .. Len(these) /\ \A f \in DOMAIN these : these[f] \in Seq(S)
    BY <1>3
  <1>5. ASSUME NEW f \in DOMAIN these
        PROVE  /\ DOMAIN these[f] = 1 .. Len(these[f])
               /\ Len(Reads(Main[9], these[f])) = Len(these[f])
    <2>1. these[f] \in Seq(S)
      BY <1>4
    <2> HIDE DEF Main
    <2> QED  BY <1>2, <2>1, ReadsSeq
  <1>6. FilesAt(9) = DOMAIN these /\ \A f : RowsAt(9, f) = Reads(Main[9], these[f])
    BY <1>2 DEF FilesAt, RowsAt, these
  <1>7. ASSUME NEW f, NEW n
        PROVE  IsRow(9, f, n) <=> <<f, n>> \in CommentPlaces
    <2>1. IsRow(9, f, n) <=> f \in DOMAIN these /\ n \in DOMAIN these[f]
      BY <1>1, <1>5, <1>6 DEF IsRow
    <2>2. <<f, n>> \in CommentPlaces <=> f \in DOMAIN these /\ n \in DOMAIN these[f]
      BY DEF CommentPlaces, these
    <2> QED  BY <2>1, <2>2
  <1>8. ASSUME NEW p \in CommentPlaces
        PROVE  p = <<p[1], p[2]>> /\ p[1] \in Nat /\ p[2] \in Nat
    <2>1. PICK f \in DOMAIN these : p \in {f} \X DOMAIN these[f]
      BY DEF CommentPlaces, these
    <2>2. p = <<p[1], p[2]>> /\ p[1] = f /\ p[2] \in DOMAIN these[f]
      BY <2>1
    <2> QED  BY <1>4, <1>5, <2>2
  <1>9. ASSUME NEW f, NEW n, IsRow(9, f, n)
        PROVE  LET x == RowsAt(9, f)[n] IN
                  /\ x.row = CommentAt(<<f, n>>) /\ Ids(x) = x.row.parts
                  /\ Thing(x) = <<"Comment", x.row.id>>
                  /\ x.pass.match = <<"Person", "Country", "Post", "Comment">>
    <2> DEFINE x == RowsAt(9, f)[n]
    <2>1. PassFits(9, 1, x.pass) /\ x.row = extract[Main[9].reads][f][n]
      BY <1>9, RowPass
    <2>2. x.row = CommentAt(<<f, n>>)
      BY <1>2, <2>1 DEF CommentAt
    <2> HIDE DEF x
    <2>3. /\ x.pass.makes = "Comment" /\ ~ x.pass.own
          /\ x.pass.match = <<"Person", "Country", "Post", "Comment">>
      <3>1. (x.pass.own <=> 9 = 2 \/ (9 = 4 /\ 1 = 2)) /\ (x.pass.makes = "Comment" <=> 9 = 9)
            /\ (9 = 9 => x.pass.match = <<"Person", "Country", "Post", "Comment">>)
        BY <2>1 DEF PassFits
      <3> QED  BY <3>1
    <2>4. Subtypes("Comment") = {"Comment"}
      BY DEF Subtypes
    <2> QED  BY <2>2, <2>3, <2>4 DEF Ids, Thing, x
  <1> QED  BY <1>2, <1>7, <1>8, <1>9

\* The late replies are closed under replies, and the least such set.
LEMMA LateClosed ==
    /\ WithReplies(LateReplies)
    /\ \A S : S \subseteq {CommentAt(p).id : p \in CommentPlaces} /\ WithReplies(S) =>
          LateReplies \subseteq S
PROOF
  <1> DEFINE ids == {CommentAt(p).id : p \in CommentPlaces}
  <1>1. LateReplies = {id \in ids : \A S \in SUBSET ids : WithReplies(S) => id \in S}
    BY DEF LateReplies
  <1>2. ASSUME NEW p \in CommentPlaces, TooEarly(p) \/ CommentAt(p).parts[4] \in LateReplies
        PROVE  CommentAt(p).id \in LateReplies
    <2>1. CommentAt(p).id \in ids
      OBVIOUS
    <2>2. ASSUME NEW S \in SUBSET ids, WithReplies(S)
          PROVE  CommentAt(p).id \in S
      <3>1. TooEarly(p) \/ CommentAt(p).parts[4] \in S
        BY <1>1, <1>2, <2>2
      <3> QED  BY <2>2, <3>1 DEF WithReplies
    <2> HIDE DEF ids
    <2> QED  BY <1>1, <2>1, <2>2
  <1>3. WithReplies(LateReplies)
    BY <1>2 DEF WithReplies
  <1> QED  BY <1>1, <1>3

\* The rows that are to be stored: LoadedButLateReplies, with one file of tag classes,
\* since no load goes on after a second one.
Wanted(l, f, n) ==
    LET x == RowsAt(l, f)[n] IN
    /\ IsRow(l, f, n)
    /\ x.pass.own => 0 \notin ToSet(x.row.parts)
    /\ ~ NeedsLateReply(x)
    /\ ~ (program = "typedb3dry" /\ NeedsPlace(Main[l]))
    /\ l >= 4 => FilesAt(4) \subseteq {1}

\* Read before it, by a load before or by its own when that matches its own rows.
Earlier(m, g, k, l, f, n) ==
    \/ m < l
    \/ m = l /\ l \in {4, 9} /\ (g < f \/ (g = f /\ k < n))

\* What a wanted row refers to is a row that is wanted, and is read before it.
LEMMA WantedBefore ==
    ASSUME program \in Programs, extract \in Extracts, NEW l, NEW f, NEW n, Wanted(l, f, n),
           NEW i \in DOMAIN RowsAt(l, f)[n].pass.match,
           NEW m, NEW g, NEW j, IsRow(m, g, j),
           Thing(RowsAt(m, g)[j])[1] \in Subtypes(RowsAt(l, f)[n].pass.match[i]),
           Thing(RowsAt(m, g)[j])[2] = Ids(RowsAt(l, f)[n])[i]
    PROVE  Wanted(m, g, j) /\ Earlier(m, g, j, l, f, n)
PROOF
  <1> DEFINE x == RowsAt(l, f)[n]
             y == RowsAt(m, g)[j]
             T == Thing(y)[1]
  <1>1. IsRow(l, f, n) /\ l \in 1 .. 19 /\ m \in 1 .. 19
    BY LoadsFit DEF Wanted, IsRow
  <1>2. PICK p : PassFits(l, p, x.pass) /\ (l # 4 => p = 1)
    BY <1>1, RowPass
  <1>3. /\ LoadFits(l, Main[l]) /\ LoadFits(m, Main[m])
    BY <1>1, LoadsFit
  <1>4. y.row.id = Ids(x)[i]
    BY DEF Thing
  <1>5. /\ x.pass.own => 0 \notin ToSet(x.row.parts)
        /\ ~ NeedsLateReply(x)
        /\ ~ (program = "typedb3dry" /\ NeedsPlace(Main[l]))
        /\ l >= 4 => FilesAt(4) \subseteq {1}
    BY DEF Wanted
  <1>6. T \in Subtypes(x.pass.match[i]) /\ i \in DOMAIN x.pass.match
    OBVIOUS
  <1> HIDE DEF x, T, Main
  <1>7. /\ T \in Matched
        /\ \/ Stage(T) < l
           \/ Stage(T) = l /\ l = 4 /\ p = 2
           \/ Stage(T) = l /\ l = 9 /\ i = 4
        /\ l \in {4, 5} => Stage(T) \in {4, 5}
    BY <1>2, <1>6 DEF PassFits
  <1>8. Stage(T) = m /\ ~ y.pass.own /\ (y.pass.makes = "Comment" <=> T = "Comment")
    BY <1>7, ThingStage DEF T
  <1> HIDE DEF y
  <1>9. T = "Comment" => x.pass.match[i] = "Comment"
    BY <1>6, TypesOf DEF Subtypes
  <1>10. ASSUME m = 9 PROVE T = "Comment"
    BY <1>7, <1>8, <1>10 DEF Stage, Matched
  <1>11. ~ NeedsLateReply(y)
    <2>1. ASSUME T = "Comment", y.row.id \in LateReplies PROVE FALSE
      BY <1>4, <1>5, <1>6, <1>9, <2>1 DEF NeedsLateReply
    <2>2. ASSUME NEW k \in DOMAIN y.pass.match, y.pass.match[k] = "Comment",
                 Ids(y)[k] \in LateReplies
          PROVE  FALSE
      <3>1. PassFits(m, 1, y.pass) \/ PassFits(m, 2, y.pass)
        BY RowPass DEF y
      <3>2. "Comment" \in Subtypes(y.pass.match[k]) /\ Stage("Comment") = 9
        BY <2>2, TypesOf DEF Matched
      <3>3. 9 < m \/ (9 = m /\ m = 4) \/ (9 = m /\ k = 4)
        BY <3>1, <3>2 DEF PassFits
      <3>4. m <= 9
        BY <1>7, <1>8, TypesOf
      <3>5. m = 9 /\ k = 4
        BY <1>1, <3>3, <3>4
      <3>6. /\ <<g, j>> \in CommentPlaces
            /\ y.row = CommentAt(<<g, j>>) /\ Ids(y) = y.row.parts
        BY <3>5, CommentRow DEF y
      <3>7. CommentAt(<<g, j>>).parts[4] \in LateReplies
        BY <2>2, <3>5, <3>6
      <3>8. y.row.id \in LateReplies
        BY <3>6, <3>7, LateClosed DEF WithReplies
      <3> QED  BY <1>10, <2>1, <3>5, <3>8
    <2> QED  BY <1>8, <2>1, <2>2 DEF NeedsLateReply
  <1>12. ~ (program = "typedb3dry" /\ NeedsPlace(Main[m]))
    <2>1. ASSUME l \in {4, 5} PROVE ~ NeedsPlace(Main[m])
      BY <1>3, <1>7, <1>8, <2>1 DEF NeedsPlace, LoadFits
    <2>2. ASSUME l \notin {4, 5} PROVE program # "typedb3dry"
      BY <1>3, <1>5, <2>2 DEF NeedsPlace, LoadFits
    <2> QED  BY <2>1, <2>2
  <1>13. m <= l /\ (m >= 4 => FilesAt(4) \subseteq {1})
    BY <1>1, <1>5, <1>7, <1>8
  <1>14. Wanted(m, g, j)
    BY <1>8, <1>11, <1>12, <1>13 DEF Wanted, y
  <1>15. Earlier(m, g, j, l, f, n)
    <2>1. CASE m < l
      BY <2>1 DEF Earlier
    <2>2. CASE m = l /\ l = 4 /\ p = 2
      <3> DEFINE size == Len(extract[Main[4].reads][1])
      <3>1. f = 1 /\ g = 1
        <4>1. f \in FilesAt(4) /\ g \in FilesAt(4)
          BY <1>1, <2>2 DEF IsRow
        <4> QED  BY <1>5, <2>2, <4>1
      <3>2. /\ n \in 1 .. Len(RowsAt(4, 1)) /\ j \in 1 .. Len(RowsAt(4, 1)) /\ size \in Nat
            /\ n <= size => PassFits(4, 1, x.pass)
            /\ n > size => PassFits(4, 2, x.pass)
            /\ j <= size => PassFits(4, 1, y.pass)
            /\ j > size => PassFits(4, 2, y.pass)
        BY <1>1, <2>2, <3>1, RowPass DEF x, y
      <3> HIDE DEF size
      <3>3. x.pass.own
        BY <1>2, <2>2 DEF PassFits
      <3>4. n > size
        <4>1. ~ PassFits(4, 1, x.pass)
          BY <3>3 DEF PassFits
        <4> QED  BY <3>2, <4>1
      <3>5. j <= size
        <4>1. ~ PassFits(4, 2, y.pass)
          BY <1>8 DEF PassFits
        <4> QED  BY <3>2, <4>1
      <3>6. j < n
        BY <3>2, <3>4, <3>5
      <3> QED  BY <2>2, <3>1, <3>6 DEF Earlier
    <2>3. CASE m = l /\ l = 9 /\ i = 4
      <3>1. /\ <<g, j>> \in CommentPlaces /\ <<f, n>> \in CommentPlaces
            /\ y.row = CommentAt(<<g, j>>) /\ x.row = CommentAt(<<f, n>>) /\ Ids(x) = x.row.parts
            /\ Thing(x)[1] = "Comment"
        BY <1>1, <2>3, CommentRow DEF x, y
      <3>2. CommentAt(<<g, j>>).id = CommentAt(<<f, n>>).parts[4]
        BY <1>4, <2>3, <3>1
      <3>3. x.pass.makes = "Comment"
        BY <1>2, <2>3 DEF PassFits
      <3>4. ~ TooEarly(<<f, n>>)
        BY <1>5, <3>1, <3>3, LateClosed DEF NeedsLateReply, WithReplies
      <3>5. Before(<<g, j>>, <<f, n>>)
        BY <3>1, <3>2, <3>4 DEF TooEarly
      <3> QED  BY <2>3, <3>5 DEF Earlier, Before
    <2> QED  BY <1>1, <1>7, <1>8, <2>1, <2>2, <2>3
  <1> QED  BY <1>14, <1>15

\* So it is matched where those are, and its query is not skipped.
LEMMA WantedFits ==
    ASSUME program \in Programs, extract \in Extracts, NEW l, NEW f, NEW n, Wanted(l, f, n),
           NEW S, \A m, g, k : Wanted(m, g, k) /\ Earlier(m, g, k, l, f, n) =>
                                  Thing(RowsAt(m, g)[k]) \in S
    PROVE  HasQuery(RowsAt(l, f)[n]) /\ Matches(RowsAt(l, f)[n], S)
PROOF
  <1> DEFINE x == RowsAt(l, f)[n]
  <1>1. IsRow(l, f, n) /\ l \in 1 .. 19
    BY LoadsFit DEF Wanted, IsRow
  <1>2. HasQuery(x)
    <2>1. PICK p : PassFits(l, p, x.pass) /\ LoadFits(l, Main[l])
      BY <1>1, RowPass
    <2>2. x.pass.dry => l = 1 /\ program = "typedb3dry"
      BY <2>1 DEF PassFits
    <2>3. l = 1 => NeedsPlace(Main[l])
      <3>1. l = 1 => Main[l].reads = "Place"
        BY <2>1 DEF LoadFits
      <3> QED  BY <3>1 DEF NeedsPlace
    <2> QED  BY <2>2, <2>3 DEF Wanted, HasQuery
  <1>3. ASSUME NEW i \in DOMAIN x.pass.match, Ids(x)[i] # 0
        PROVE  \E type \in Subtypes(x.pass.match[i]) : <<type, Ids(x)[i]>> \in S
    <2>1. PICK m, g, j : /\ IsRow(m, g, j)
                         /\ Thing(RowsAt(m, g)[j])[1] \in Subtypes(x.pass.match[i])
                         /\ Thing(RowsAt(m, g)[j])[2] = Ids(x)[i]
      BY <1>1, <1>3, References
    <2>2. Wanted(m, g, j) /\ Earlier(m, g, j, l, f, n)
      BY <1>3, <2>1, WantedBefore
    <2>3. Thing(RowsAt(m, g)[j]) \in S
      BY <2>2
    <2>4. Thing(RowsAt(m, g)[j]) = <<Thing(RowsAt(m, g)[j])[1], Thing(RowsAt(m, g)[j])[2]>>
      BY DEF Thing
    <2> QED  BY <2>1, <2>3, <2>4
  <1> QED  BY <1>2, <1>3 DEF Matches

-----------------------------------------------------------------------------
(***************************************************************************)
(* The order of the files.                                                 *)
(***************************************************************************)

\* Where no threads load them, a file is opened when those before it are closed; the
\* transaction of the tag classes is not used for a second file, and no load goes on
\* after one.
OrderInv ==
    /\ Active /\ ~ Current.threads =>
          \A f, g \in FileNames : g < f /\ files[f].pc # "waiting" => Closed(g)
    /\ Active /\ Current.commit = "load" => \A g \in FileNames : Closed(g) => g = 1 /\ sealed
    /\ at > 4 => FilesAt(4) \subseteq {1}

\* The pc of a file, and what it has to do with the others.
PcStep(f) ==
    /\ f \in FileNames /\ state = "loading"
    /\ UNCHANGED <<program, extract, state, at>>
    /\ \A g \in FileNames : g # f => files'[g] = files[g]
    /\ \/ files[f].pc = "waiting" /\ CanOpen(f) /\ files'[f].pc = "open" /\ sealed' = sealed
       \/ files[f].pc = "waiting" /\ Current.threads /\ files'[f].pc = "cancelled" /\ sealed' = sealed
       \/ /\ files[f].pc \in {"open", "full"} /\ files'[f].pc \in {"open", "full", "failed"}
          /\ sealed' = sealed
       \/ /\ files[f].pc = "open" /\ ~ sealed /\ files'[f].pc = "closed"
          /\ sealed' = (Current.commit = "load")

\* Every step of a file moves its pc so.
LEMMA PcSteps ==
    ASSUME FilesInv, NEW f, Works(f) \/ Raises(f) \/ CommitRaises(f)
    PROVE  PcStep(f)
PROOF
  <1>1. CASE Open(f)
    <2> DEFINE value == [Unread EXCEPT !.pc = "open",
                                       !.count = IF Current.carried /\ f > 1 THEN files[f - 1].count ELSE 0]
    <2>1. /\ Loading(f, "waiting") /\ CanOpen(f) /\ Sets(f, value)
          /\ UNCHANGED <<program, extract, state, at, sealed>>
      BY <1>1 DEF Open
    <2>2. f \in FileNames /\ state = "loading" /\ files[f].pc = "waiting"
      BY <2>1, FileFound
    <2>3. value.pc = "open"
      BY DEF Unread
    <2> HIDE DEF value
    <2>4. files'[f] = value /\ \A g \in FileNames : g # f => files'[g] = files[g]
      BY <2>1, <2>2, SetsOne
    <2> QED  BY <2>1, <2>2, <2>3, <2>4 DEF PcStep
  <1>2. CASE Row(f)
    <2>1. PICK value : /\ Loading(f, "open") /\ Sets(f, value) /\ value.pc \in {"open", "full"}
                       /\ UNCHANGED <<program, extract, state, at, sealed>>
      <3> DEFINE file == files[f]
                 pc == IF Current.commit \in {"batch", "queue"} /\ BatchFull(file.count + 1)
                         THEN "full" ELSE "open"
                 tx == IF Takes(f, Content(f)[file.pos + 1])
                         THEN file.tx \cup {Content(f)[file.pos + 1]} ELSE file.tx
                 value == [pc |-> pc, pos |-> file.pos + 1, count |-> file.count + 1, tx |-> tx]
      <3>1. /\ Loading(f, "open") /\ Sets(f, value)
            /\ UNCHANGED <<program, extract, state, at, sealed>>
        BY <1>2 DEF Row, Takes
      <3>2. value.pc \in {"open", "full"}
        OBVIOUS
      <3> HIDE DEF value
      <3> QED  BY <3>1, <3>2
    <2>2. f \in FileNames /\ state = "loading" /\ files[f].pc = "open"
      BY <2>1, FileFound
    <2>3. files'[f] = value /\ \A g \in FileNames : g # f => files'[g] = files[g]
      BY <2>1, <2>2, SetsOne
    <2> QED  BY <2>1, <2>2, <2>3 DEF PcStep
  <1>3. CASE CommitBatch(f)
    BY <1>3, EmptiedStep DEF CommitBatch, PcStep
  <1>4. CASE EndFile(f)
    <2>1. /\ Loading(f, "open") /\ ~ sealed /\ sealed' = (Current.commit = "load")
          /\ UNCHANGED <<program, extract, state, at>>
      BY <1>4 DEF EndFile, AtEnd
    <2>2. CASE HasRest(f)
      BY <1>4, <2>1, <2>2, EmptiedStep DEF EndFile, PcStep
    <2>3. CASE ~ HasRest(f)
      BY <1>4, <2>1, <2>3, MovedStep DEF EndFile, PcStep
    <2> QED  BY <2>2, <2>3
  <1>5. CASE Raises(f)
    BY <1>5, EmptiedStep DEF Raises, PcStep
  <1>6. CASE CommitRaises(f)
    BY <1>6, EmptiedStep DEF CommitRaises, AtEnd, PcStep
  <1>7. CASE UsesClosed(f)
    BY <1>7, MovedStep DEF UsesClosed, PcStep
  <1>8. CASE Cancel(f)
    BY <1>8, MovedStep DEF Cancel, PcStep
  <1> QED  BY <1>1, <1>2, <1>3, <1>4, <1>5, <1>6, <1>7, <1>8 DEF Works

\* A file is closed after those before it: the second file of tag classes never is.
LEMMA PcStepOrder ==
    ASSUME FilesInv, OrderInv, NEW f, PcStep(f)
    PROVE  OrderInv'
PROOF
  <1>1. /\ f \in FileNames /\ state = "loading" /\ state' = "loading"
        /\ UNCHANGED <<program, extract, at>>
        /\ \A g \in FileNames : g # f => files'[g] = files[g]
    BY DEF PcStep
  <1>2. Current' = Current /\ FileNames' = FileNames
    BY <1>1, SameLoad
  <1>3. Types /\ at \in 1 .. Len(Main)
    BY <1>1 DEF FilesInv, Active
  <1>4. PICK last \in Nat : FileNames = 1 .. last
    BY <1>3, CurrentFiles
  <1>5. ASSUME ~ Current.threads, NEW g \in FileNames, NEW h \in FileNames,
               h < g, files'[g].pc # "waiting"
        PROVE  files'[h].pc = "closed"
    <2>1. \A i, j \in FileNames : j < i /\ files[i].pc # "waiting" => files[j].pc = "closed"
      BY <1>1, <1>5 DEF OrderInv, Active, Closed
    <2>2. CASE g = f
      <3>1. CASE CanOpen(f)
        <4>1. h \in 1 .. f - 1
          BY <1>4, <1>5, <2>2
        <4>2. files[h].pc = "closed"
          BY <1>5, <3>1, <4>1 DEF CanOpen, Closed
        <4>3. h # f
          BY <1>4, <1>5, <2>2
        <4> QED  BY <1>1, <4>2, <4>3
      <3>2. CASE files[f].pc # "waiting"
        BY <1>1, <1>4, <1>5, <2>1, <2>2, <3>2
      <3> QED  BY <1>5, <3>1, <3>2 DEF PcStep
    <2>3. CASE g # f
      <3>1. files[h].pc = "closed"
        BY <1>1, <1>5, <2>1, <2>3
      <3>2. h # f
        BY <3>1 DEF PcStep
      <3> QED  BY <1>1, <3>1, <3>2
    <2> QED  BY <2>2, <2>3
  <1>6. ASSUME Current.commit = "load", NEW g \in FileNames, files'[g].pc = "closed"
        PROVE  g = 1 /\ sealed'
    <2>1. \A h \in FileNames : files[h].pc = "closed" => h = 1 /\ sealed
      BY <1>1, <1>6 DEF OrderInv, Active, Closed
    <2>2. ~ Current.threads
      <3>1. LoadFits(at, Main[at])
        BY <1>3, LoadsFit DEF Types
      <3> QED  BY <1>6, <3>1 DEF LoadFits, Current
    <2>3. CASE files'[f].pc = "closed"
      <3>1. files[f].pc = "open" /\ ~ sealed /\ sealed' = TRUE
        BY <1>6, <2>3 DEF PcStep
      <3>2. g = f
        BY <1>1, <1>6, <2>1, <3>1
      <3>3. ASSUME f # 1 PROVE FALSE
        <4>1. 1 \in FileNames /\ 1 < f
          BY <1>1, <1>4, <3>3
        <4>2. files[1].pc = "closed"
          BY <1>1, <2>2, <3>1, <4>1 DEF OrderInv, Active, Closed
        <4> QED  BY <2>1, <3>1, <4>1, <4>2
      <3> QED  BY <3>1, <3>2, <3>3
    <2>4. CASE files'[f].pc # "closed"
      <3>1. g # f /\ sealed' = sealed
        BY <1>6, <2>4 DEF PcStep
      <3> QED  BY <1>1, <1>6, <2>1, <3>1
    <2> QED  BY <2>3, <2>4
  <1>7. at' > 4 => FilesAt(4)' \subseteq {1}
    <2>1. FilesAt(4)' = FilesAt(4)
      BY <1>1, SameRows
    <2> QED  BY <1>1, <2>1 DEF OrderInv
  <1> QED  BY <1>2, <1>5, <1>6, <1>7 DEF OrderInv, Closed

\* A load begins with no file open.
LEMMA ProceedsOrder ==
    ASSUME Types, NEW l \in 1 .. Len(Main) + 1, Proceeds(l), UNCHANGED <<program, extract>>,
           l > 4 => FilesAt(4) \subseteq {1}
    PROVE  OrderInv'
PROOF
  <1>1. Main' = Main /\ at' = l /\ Len(Main) \in Nat /\ FilesAt(4)' = FilesAt(4)
    BY MainLoads, SameRows DEF Proceeds, Types
  <1>2. ASSUME Active', NEW f \in FileNames' PROVE files'[f].pc = "waiting"
    <2>1. ~ l > Len(Main)
      BY <1>2 DEF Proceeds, Active
    <2>2. files' = [g \in DOMAIN extract[Main[l].reads] |-> Unread]
      BY <2>1 DEF Proceeds, Fresh
    <2>3. FileNames' = DOMAIN extract[Main[l].reads]
      BY <1>1 DEF FileNames, Current
    <2> QED  BY <1>2, <2>2, <2>3 DEF Unread
  <1> QED  BY <1>1, <1>2 DEF OrderInv, Closed

\* In every state, whatever the files.
THEOREM OrderInvariant == Spec => []OrderInv
PROOF
  <1>1. Init => OrderInv
    BY DEF Init, OrderInv, Active
  <1>2. FilesInv /\ OrderInv /\ [Next]_vars => OrderInv'
    <2> SUFFICES ASSUME FilesInv, OrderInv, [Next]_vars PROVE OrderInv'
      OBVIOUS
    <2>0. Types /\ Len(Main) \in Nat
      BY MainLoads DEF FilesInv, Types
    <2>1. CASE Begin
      <3>1. 1 \in 1 .. Len(Main) + 1 /\ ~ (1 > 4)
        BY <2>0
      <3>2. Proceeds(1) /\ UNCHANGED <<program, extract>>
        BY <2>1 DEF Begin
      <3> QED  BY <2>0, <3>1, <3>2, ProceedsOrder
    <2>2. CASE EndLoad
      <3>1. /\ state = "loading" /\ (\A f \in FileNames : Closed(f)) /\ Proceeds(at + 1)
            /\ UNCHANGED <<program, extract>>
        BY <2>2 DEF EndLoad
      <3>2. at \in 1 .. Len(Main)
        BY <3>1 DEF FilesInv, Active
      <3>3. ASSUME at + 1 > 4 PROVE FilesAt(4) \subseteq {1}
        <4>1. CASE at > 4
          BY <4>1 DEF OrderInv
        <4>2. CASE at = 4
          <5>1. LoadFits(at, Main[at]) /\ FileNames = FilesAt(at)
            BY <2>0, <3>2, LoadsFit, CurrentFiles DEF Types
          <5>2. Current.commit = "load"
            BY <4>2, <5>1 DEF LoadFits, Current
          <5> QED  BY <3>1, <4>2, <5>1, <5>2 DEF OrderInv, Active
        <4> QED  BY <3>2, <3>3, <4>1, <4>2
      <3>4. at + 1 \in 1 .. Len(Main) + 1
        BY <2>0, <3>2
      <3> QED  BY <2>0, <3>1, <3>3, <3>4, ProceedsOrder
    <2>3. CASE Fail \/ UNCHANGED vars
      <3>1. UNCHANGED <<program, extract, at, files, sealed>> /\ (Active' => Active)
        BY <2>3 DEF Fail, vars, Active
      <3>2. Current' = Current /\ FileNames' = FileNames /\ FilesAt(4)' = FilesAt(4)
        BY <3>1, SameLoad, SameRows
      <3> QED  BY <3>1, <3>2 DEF OrderInv, Closed
    <2>4. ASSUME NEW f \in DOMAIN files, Works(f) \/ Raises(f) \/ CommitRaises(f)
          PROVE  OrderInv'
      BY <2>4, PcSteps, PcStepOrder
    <2> QED  BY <2>1, <2>2, <2>3, <2>4 DEF Next, Progress
  <1> QED  BY <1>1, <1>2, FilesInvariant, PTL DEF Spec

-----------------------------------------------------------------------------
(***************************************************************************)
(* What is read is stored.                                                 *)
(***************************************************************************)

\* Every wanted row that has been read is held or stored.
LoadedInv ==
    \A l, f, n : Wanted(l, f, n) =>
        /\ l < at => Thing(RowsAt(l, f)[n]) \in Stored
        /\ l = at /\ Active /\ n <= files[f].pos
             /\ files[f].pc \in {"open", "full", "closed"} =>
                \/ RowsAt(l, f)[n] \in files[f].tx
                \/ Thing(RowsAt(l, f)[n]) \in Stored

\* Which rows are wanted depends on the program and its data only.
LEMMA SameWanted ==
    ASSUME UNCHANGED <<program, extract>>
    PROVE  /\ \A l, f, n : Wanted(l, f, n)' <=> Wanted(l, f, n)
           /\ \A l, f : RowsAt(l, f)' = RowsAt(l, f)
           /\ \A l, f, n : Thing(RowsAt(l, f)[n])' = Thing(RowsAt(l, f)[n])
PROOF
  <1>1. /\ Main' = Main /\ FilesAt(4)' = FilesAt(4)
        /\ \A l, f : RowsAt(l, f)' = RowsAt(l, f)
        /\ \A l, f, n : IsRow(l, f, n)' <=> IsRow(l, f, n)
    BY SameRows
  <1>2. CommentPlaces' = CommentPlaces /\ \A p : CommentAt(p)' = CommentAt(p)
    BY DEF CommentPlaces, CommentAt
  <1>3. \A p : TooEarly(p)' <=> TooEarly(p)
    BY <1>2 DEF TooEarly, Before
  <1>4. \A S : WithReplies(S)' <=> WithReplies(S)
    BY <1>2, <1>3 DEF WithReplies
  <1>5. LateReplies' = LateReplies
    BY <1>2, <1>4 DEF LateReplies
  <1>6. ASSUME NEW l, NEW f, NEW n
        PROVE  /\ NeedsLateReply(RowsAt(l, f)[n])' <=> NeedsLateReply(RowsAt(l, f)[n])
               /\ NeedsPlace(Main[l])' <=> NeedsPlace(Main[l])
    BY <1>1, <1>5 DEF NeedsLateReply, NeedsPlace, Ids
  <1>7. \A l, f, n : Wanted(l, f, n)' <=> Wanted(l, f, n)
    BY <1>1, <1>6 DEF Wanted
  <1> QED  BY <1>1, <1>7 DEF Thing

\* A wanted row of the load that is running matches what is stored; a class of tags or a
\* comment, what its transaction sees when it is read.
LEMMA CurrentFits ==
    ASSUME FilesInv, OrderInv, LoadedInv, state = "loading", NEW f, NEW n, Wanted(at, f, n),
           files[f].pc \in {"open", "full"}, NEW S, Stored \subseteq S,
           at \in {4, 9} => n = files[f].pos + 1 /\ Visible(f) \subseteq S
    PROVE  HasQuery(RowsAt(at, f)[n]) /\ Matches(RowsAt(at, f)[n], S)
PROOF
  <1>1. /\ program \in Programs /\ extract \in Extracts /\ Types /\ at \in 1 .. Len(Main)
        /\ \A g \in FileNames : FileOK(g, files[g])
    BY DEF FilesInv, Types, Active
  <1>2. /\ FileNames = FilesAt(at) /\ \A g : Content(g) = RowsAt(at, g)
        /\ LoadFits(at, Main[at])
    BY <1>1, CurrentFiles, LoadsFit
  <1>3. f \in FileNames
    BY <1>2 DEF Wanted, IsRow
  <1>4. ASSUME NEW m, NEW g, NEW k, Wanted(m, g, k), Earlier(m, g, k, at, f, n)
        PROVE  Thing(RowsAt(m, g)[k]) \in S
    <2>1. CASE m < at
      BY <1>4, <2>1 DEF LoadedInv
    <2>2. CASE m = at /\ at \in {4, 9} /\ g < f
      <3>1. ~ Current.threads
        BY <1>2, <2>2 DEF LoadFits, Current
      <3>2. g \in FileNames /\ k \in 1 .. Len(RowsAt(at, g))
        BY <1>2, <1>4, <2>2 DEF Wanted, IsRow
      <3>3. files[g].pc = "closed"
        <4>1. f \in FileNames /\ g \in FileNames /\ g < f /\ files[f].pc # "waiting" /\ Active
          BY <1>3, <2>2, <3>2 DEF Active
        <4> QED  BY <3>1, <4>1 DEF OrderInv, Closed
      <3>4. files[g].pos = Len(RowsAt(at, g)) /\ files[g].tx = {}
        BY <1>1, <1>2, <3>2, <3>3 DEF FileOK
      <3>5. k <= files[g].pos
        BY <3>2, <3>4
      <3> QED  BY <1>4, <2>2, <3>3, <3>4, <3>5 DEF LoadedInv, Active
    <2>3. CASE m = at /\ at \in {4, 9} /\ g = f /\ k < n
      <3>1. files[f].pos \in Int /\ k \in Int
        <4>1. files[f].pos \in 0 .. Len(Content(f)) /\ k \in 1 .. Len(RowsAt(m, g))
          BY <1>1, <1>3, <1>4 DEF FileOK, Wanted, IsRow
        <4> QED  BY <4>1
      <3>2. k <= files[f].pos
        BY <2>3, <3>1
      <3>3. RowsAt(m, g)[k] \in files[f].tx \/ Thing(RowsAt(m, g)[k]) \in Stored
        BY <1>4, <2>3, <3>2 DEF LoadedInv, Active
      <3>4. Thing(RowsAt(m, g)[k]) \in Visible(f)
        BY <3>3 DEF Visible
      <3> QED  BY <2>3, <3>4
    <2> QED  BY <1>4, <2>1, <2>2, <2>3 DEF Earlier
  <1> QED  BY <1>1, <1>4, WantedFits

\* Each row that is read is held, and each that is held is stored.
LEMMA OneStepLoaded ==
    ASSUME FilesInv, StoredInv, HeldInv, OrderInv, LoadedInv, NEW f, OneStep(f)
    PROVE  LoadedInv'
PROOF
  <1>1. /\ f \in FileNames /\ state = "loading" /\ state' = "loading"
        /\ UNCHANGED <<program, extract, at>>
        /\ \A h \in FileNames : h # f => files'[h] = files[h]
    BY DEF OneStep
  <1>2. /\ Types /\ at \in 1 .. Len(Main) /\ FileOK(f, files[f])
        /\ FileNames = FilesAt(at) /\ \A h : Content(h) = RowsAt(at, h)
    <2>1. Types /\ at \in 1 .. Len(Main) /\ FileOK(f, files[f])
      BY <1>1 DEF FilesInv, Active
    <2> QED  BY <2>1, CurrentFiles
  <1>3. Stored \subseteq Stored'
    <2>1. CASE Commits(f)
      BY <1>1, <2>1, StoredCommitted DEF Commits, Active
    <2>2. CASE Rereads(f) \/ Ends(f) \/ \E x : ReadsRow(f, x)
      BY <2>2 DEF Rereads, Ends, ReadsRow, Stored
    <2> QED  BY <2>1, <2>2 DEF OneStep
  <1>4. ASSUME NEW n, Wanted(at, f, n), n <= files'[f].pos,
               files'[f].pc \in {"open", "full", "closed"}
        PROVE  \/ RowsAt(at, f)[n] \in files'[f].tx
               \/ Thing(RowsAt(at, f)[n]) \in Stored'
    <2> DEFINE x == RowsAt(at, f)[n]
    <2>1. n \in Int /\ n >= 1 /\ IsRow(at, f, n)
      BY <1>2, <1>4 DEF Wanted, IsRow
    <2>2. ASSUME n <= files[f].pos, files[f].pc \in {"open", "full"}
          PROVE  x \in files[f].tx \/ Thing(x) \in Stored
      BY <1>1, <1>4, <2>1, <2>2 DEF LoadedInv, Active
    <2>3. CASE Rereads(f)
      <3>1. n <= files[f].pos /\ files[f].pc \in {"open", "full"} /\ files'[f].tx = files[f].tx
        BY <1>4, <2>1, <2>3 DEF Rereads
      <3> QED  BY <1>3, <2>2, <3>1
    <2>4. CASE Ends(f)
      BY <1>4, <2>4 DEF Ends
    <2>5. CASE Commits(f)
      <3>1. n <= files[f].pos /\ files[f].pc \in {"open", "full"}
        BY <1>4, <2>5 DEF Commits
      <3>2. ASSUME x \in files[f].tx PROVE Thing(x) \in Stored'
        <4>1. Current.commit # "queue" \/ Matches(x, Stored)
          <5>1. ASSUME Current.commit = "queue" PROVE at \notin {4, 9}
            <6>1. LoadFits(at, Main[at])
              BY <1>2, LoadsFit DEF Types
            <6> QED  BY <5>1, <6>1 DEF LoadFits, Current
          <5> QED  BY <1>1, <1>4, <3>1, <5>1, CurrentFits
        <4> QED  BY <1>1, <2>5, <3>2, <4>1, StoredCommitted DEF Commits, Active
      <3> QED  BY <1>3, <2>2, <3>1, <3>2
    <2>6. ASSUME NEW y, ReadsRow(f, y)
          PROVE  x \in files'[f].tx \/ Thing(x) \in Stored'
      <3> DEFINE m == files[f].pos + 1
      <3>1. /\ m \in 1 .. Len(RowsAt(at, f)) /\ y = RowsAt(at, f)[m] /\ files'[f].pos = m
            /\ files'[f].tx = IF Takes(f, y) THEN files[f].tx \cup {y} ELSE files[f].tx
            /\ files[f].pc = "open"
        BY <1>2, <2>6 DEF ReadsRow
      <3>2. files[f].pos \in Int
        <4>1. files[f].pos \in 0 .. Len(Content(f))
          BY <1>2 DEF FileOK
        <4> QED  BY <4>1
      <3>3. CASE n = m
        <4>1. HasQuery(x) /\ Matches(x, Visible(f))
          BY <1>1, <1>4, <3>1, <3>3, CurrentFits DEF Visible
        <4> QED  BY <3>1, <3>3, <4>1 DEF Takes
      <3>4. CASE n # m
        <4>1. n <= files[f].pos
          BY <1>4, <2>1, <3>1, <3>2, <3>4
        <4>2. files[f].tx \subseteq files'[f].tx
          BY <3>1
        <4> QED  BY <1>3, <2>2, <3>1, <4>1, <4>2
      <3> QED  BY <3>3, <3>4
    <2> QED  BY <2>3, <2>4, <2>5, <2>6 DEF OneStep
  <1>5. ASSUME NEW l, NEW g, NEW n, Wanted(l, g, n)
        PROVE  /\ l < at => Thing(RowsAt(l, g)[n]) \in Stored'
               /\ l = at /\ n <= files'[g].pos
                    /\ files'[g].pc \in {"open", "full", "closed"} =>
                       \/ RowsAt(l, g)[n] \in files'[g].tx
                       \/ Thing(RowsAt(l, g)[n]) \in Stored'
    <2>1. ASSUME l < at PROVE Thing(RowsAt(l, g)[n]) \in Stored'
      BY <1>3, <1>5, <2>1 DEF LoadedInv
    <2>2. ASSUME l = at, n <= files'[g].pos, files'[g].pc \in {"open", "full", "closed"}
          PROVE  \/ RowsAt(l, g)[n] \in files'[g].tx
                 \/ Thing(RowsAt(l, g)[n]) \in Stored'
      <3>1. CASE g = f
        BY <1>4, <1>5, <2>2, <3>1
      <3>2. CASE g # f
        <4>1. files'[g] = files[g]
          BY <1>1, <1>2, <1>5, <2>2, <3>2 DEF Wanted, IsRow
        <4> QED  BY <1>1, <1>3, <1>5, <2>2, <4>1 DEF LoadedInv, Active
      <3> QED  BY <3>1, <3>2
    <2> QED  BY <2>1, <2>2
  <1> QED  BY <1>1, <1>5, SameWanted DEF LoadedInv

\* When a load function has returned, all of its wanted rows are stored.
LEMMA EndLoadLoaded ==
    ASSUME FilesInv, LoadedInv, EndLoad
    PROVE  LoadedInv'
PROOF
  <1>1. /\ state = "loading" /\ \A f \in FileNames : Closed(f)
        /\ Proceeds(at + 1) /\ UNCHANGED <<program, extract, db>>
    BY DEF EndLoad
  <1>2. /\ at \in 1 .. Len(Main) /\ Types /\ \A f \in FileNames : FileOK(f, files[f])
    BY <1>1 DEF FilesInv, Active
  <1>3. FileNames = FilesAt(at) /\ (\A f : Content(f) = RowsAt(at, f)) /\ Len(Main) \in Nat
    BY <1>2, CurrentFiles, MainLoads DEF Types
  <1>4. at' = at + 1 /\ Stored' = Stored
    BY <1>1 DEF Proceeds, Stored
  <1>5. ASSUME NEW l, NEW f, NEW n, Wanted(l, f, n)
        PROVE  /\ l < at + 1 => Thing(RowsAt(l, f)[n]) \in Stored
               /\ l = at + 1 => files'[f].pc = "waiting"
    <2>0. IsRow(l, f, n) /\ l \in Int
      BY <1>3, <1>5 DEF Wanted, IsRow
    <2>1. CASE l < at
      BY <1>2, <1>5, <2>1 DEF LoadedInv
    <2>2. CASE l = at
      <3>1. f \in FileNames /\ files[f].pc = "closed" /\ FileOK(f, files[f])
        BY <1>1, <1>2, <1>3, <2>0, <2>2 DEF IsRow, Closed
      <3>2. files[f].pos = Len(RowsAt(at, f)) /\ files[f].tx = {}
        BY <1>3, <3>1 DEF FileOK
      <3>3. n <= files[f].pos
        BY <2>0, <2>2, <3>2 DEF IsRow
      <3>4. Thing(RowsAt(l, f)[n]) \in Stored
        BY <1>1, <1>5, <2>2, <3>1, <3>2, <3>3 DEF LoadedInv, Active
      <3> QED  BY <1>2, <2>2, <3>4
    <2>3. CASE l = at + 1
      <3>1. files' = [g \in FilesAt(l) |-> Unread]
        BY <1>1, <1>2, <1>3, <2>0, <2>3 DEF Proceeds, Fresh, FilesAt, IsRow
      <3>2. files'[f].pc = "waiting"
        BY <2>0, <3>1 DEF IsRow, Unread
      <3> QED  BY <1>2, <2>3, <3>2
    <2> QED  BY <1>2, <2>0, <2>1, <2>2, <2>3
  <1> QED  BY <1>1, <1>4, <1>5, SameWanted DEF LoadedInv

\* The program begins anew.
LEMMA BeginLoaded ==
    ASSUME Types, Begin
    PROVE  LoadedInv'
PROOF
  <1>1. Proceeds(1) /\ UNCHANGED <<program, extract>> /\ Len(Main) \in Nat
    BY MainLoads DEF Begin, Types
  <1>2. at' = 1
    BY <1>1 DEF Proceeds
  <1>3. ASSUME NEW l, NEW f, NEW n, Wanted(l, f, n)
        PROVE  ~ (l < 1) /\ (l = 1 => files'[f].pc = "waiting")
    <2>1. l \in 1 .. Len(Main) /\ f \in FilesAt(l)
      BY <1>3 DEF Wanted, IsRow
    <2>2. ASSUME l = 1 PROVE files'[f].pc = "waiting"
      <3>1. files' = [g \in FilesAt(l) |-> Unread]
        BY <1>1, <2>1, <2>2 DEF Proceeds, Fresh, FilesAt
      <3> QED  BY <2>1, <3>1 DEF Unread
    <2> QED  BY <1>1, <2>1, <2>2
  <1> QED  BY <1>1, <1>2, <1>3, SameWanted DEF LoadedInv

\* In every state, whatever the batch size and the number of threads, and up to where a
\* load ends early.
THEOREM LoadedInvariant == Spec => []LoadedInv
PROOF
  <1>1. Init => LoadedInv
    <2> SUFFICES ASSUME Init PROVE LoadedInv
      OBVIOUS
    <2>1. at = 0 /\ ~ Active /\ program \in Programs
      BY DEF Init, Active
    <2>2. \A l, f, n : Wanted(l, f, n) => ~ (l < 0)
      BY <2>1, MainLoads DEF Wanted, IsRow
    <2> QED  BY <2>1, <2>2 DEF LoadedInv
  <1>2. FilesInv /\ StoredInv /\ HeldInv /\ OrderInv /\ LoadedInv /\ [Next]_vars => LoadedInv'
    <2> SUFFICES ASSUME FilesInv, StoredInv, HeldInv, OrderInv, LoadedInv, [Next]_vars
                 PROVE  LoadedInv'
      OBVIOUS
    <2>1. CASE Begin
      BY <2>1, BeginLoaded DEF FilesInv
    <2>2. CASE EndLoad
      BY <2>2, EndLoadLoaded
    <2>3. CASE Fail \/ UNCHANGED vars
      <3>1. UNCHANGED <<program, extract, at, files, db>> /\ (Active' => Active)
        BY <2>3 DEF Fail, vars, Active
      <3>2. Stored' = Stored
        BY <3>1 DEF Stored
      <3> QED  BY <3>1, <3>2, SameWanted DEF LoadedInv
    <2>4. ASSUME NEW f \in DOMAIN files, Works(f) \/ Raises(f) \/ CommitRaises(f)
          PROVE  LoadedInv'
      BY <2>4, FileSteps, OneStepLoaded
    <2> QED  BY <2>1, <2>2, <2>3, <2>4 DEF Next, Progress
  <1> QED  BY <1>1, <1>2, FilesInvariant, StoredInvariant, OrderInvariant, PTL DEF Spec

\* ThreadsFinish: after a thread has raised, each file is loaded to its end, has
\* failed as well, or was never begun (the executor of load_forum).
THEOREM ThreadsAllFinish == Spec => []ThreadsFinish
PROOF
  <1>1. FilesInv /\ StoredInv /\ OrderInv /\ LoadedInv => ThreadsFinish
    <2> SUFFICES ASSUME FilesInv, StoredInv, OrderInv, LoadedInv, state = "failed", Current.threads,
                        NEW f \in FileNames
                 PROVE  /\ Over(f)
                        /\ Closed(f) /\ program # "typedb3dry" =>
                              \A x \in ToSet(Content(f)) : Thing(x) \in Stored
                        /\ files[f].pc = "cancelled" => \A x \in ToSet(Content(f)) : Thing(x) \notin Stored
      BY DEF ThreadsFinish
    <2>1. /\ Over(f) /\ Types /\ at \in 1 .. Len(Main) /\ FileOK(f, files[f])
          /\ program \in Programs /\ extract \in Extracts
      BY DEF FilesInv, Active, Types
    <2>2. /\ FileNames = FilesAt(at) /\ Content(f) = RowsAt(at, f)
          /\ Len(Content(f)) \in Nat /\ DOMAIN Content(f) = 1 .. Len(Content(f))
      BY <2>1, CurrentFiles
    <2>3. ASSUME NEW x \in ToSet(Content(f))
          PROVE  \E n \in 1 .. Len(Content(f)) : x = RowsAt(at, f)[n] /\ IsRow(at, f, n)
      <3>1. PICK n \in DOMAIN Content(f) : x = Content(f)[n]
        BY <2>3 DEF ToSet
      <3> QED  BY <2>1, <2>2, <3>1 DEF IsRow
    <2>4. ASSUME Closed(f), program # "typedb3dry", NEW x \in ToSet(Content(f))
          PROVE  Thing(x) \in Stored
      <3>1. PICK n \in 1 .. Len(Content(f)) : x = RowsAt(at, f)[n] /\ IsRow(at, f, n)
        BY <2>3, <2>4
      <3>2. files[f].pos = Len(Content(f)) /\ files[f].tx = {} /\ files[f].pc = "closed"
        BY <2>1, <2>4 DEF FileOK, Closed
      <3>3. at = 7
        <4>1. LoadFits(at, Main[at])
          BY <2>1, LoadsFit
        <4> QED  BY <4>1 DEF LoadFits, Current
      <3>4. ~ x.pass.own /\ ~ NeedsLateReply(x)
        <4>1. PassFits(7, 1, x.pass)
          BY <2>1, <3>1, <3>3, RowPass
        <4>2. ~ x.pass.own /\ x.pass.makes # "Comment"
          BY <4>1 DEF PassFits
        <4>3. ASSUME NEW k \in DOMAIN x.pass.match, x.pass.match[k] = "Comment" PROVE FALSE
          <5>1. "Comment" \in Subtypes(x.pass.match[k]) /\ Stage("Comment") = 9
            BY <4>3, TypesOf DEF Matched
          <5>2. Stage("Comment") < 7 \/ Stage("Comment") = 7
            BY <4>1, <5>1 DEF PassFits
          <5> QED  BY <5>1, <5>2
        <4> QED  BY <4>2, <4>3 DEF NeedsLateReply
      <3>5. Wanted(at, f, n)
        BY <2>4, <3>1, <3>3, <3>4 DEF Wanted, OrderInv
      <3>6. n <= files[f].pos
        BY <2>2, <3>1, <3>2
      <3> QED  BY <3>1, <3>2, <3>5, <3>6 DEF LoadedInv, Active
    <2>5. ASSUME files[f].pc = "cancelled", NEW x \in ToSet(Content(f)), Thing(x) \in Stored
          PROVE  FALSE
      <3>1. PICK n \in 1 .. Len(Content(f)) : x = RowsAt(at, f)[n] /\ IsRow(at, f, n)
        BY <2>3, <2>5
      <3>2. PICK l, g, k : IsSource(l, g, k, Thing(x))
        BY <2>5 DEF StoredInv
      <3>3. Past(l, g, k) /\ IsRow(l, g, k) /\ Thing(RowsAt(l, g)[k]) = Thing(x)
        BY <3>2 DEF IsSource, Past
      <3>4. l = at /\ g = f /\ k = n
        BY <2>1, <3>1, <3>3, RowsDiffer
      <3>5. n <= files[f].pos
        BY <2>1, <3>3, <3>4 DEF Past
      <3>6. files[f].pos = 0
        BY <2>1, <2>5 DEF FileOK
      <3> QED  BY <2>2, <3>5, <3>6
    <2> QED  BY <2>1, <2>4, <2>5
  <1> QED  BY <1>1, FilesInvariant, StoredInvariant, OrderInvariant, LoadedInvariant, PTL

-----------------------------------------------------------------------------
(***************************************************************************)
(* What is not stored.                                                     *)
(***************************************************************************)

\* What is held or stored had a query, and is no comment on a later one.
TakenInv ==
    \A l, f, n :
        /\ IsRow(l, f, n)
        /\ \/ Thing(RowsAt(l, f)[n]) \in Stored
           \/ l = at /\ Active /\ RowsAt(l, f)[n] \in files[f].tx
        => HasQuery(RowsAt(l, f)[n]) /\ (l = 9 => ~ TooEarly(<<f, n>>))

\* Nor does a step that leaves the data alone change whether a row has a query.
LEMMA SameTaken ==
    ASSUME UNCHANGED <<program, extract>>
    PROVE  /\ \A l, f, n : IsRow(l, f, n)' <=> IsRow(l, f, n)
           /\ \A l, f : RowsAt(l, f)' = RowsAt(l, f)
           /\ \A l, f, n : Thing(RowsAt(l, f)[n])' = Thing(RowsAt(l, f)[n])
           /\ \A l, f, n : HasQuery(RowsAt(l, f)[n])' <=> HasQuery(RowsAt(l, f)[n])
           /\ \A f, n : TooEarly(<<f, n>>)' <=> TooEarly(<<f, n>>)
PROOF
  <1>1. \A p : CommentAt(p)' = CommentAt(p)
    BY DEF CommentAt
  <1>2. \A f, n : TooEarly(<<f, n>>)' <=> TooEarly(<<f, n>>)
    BY <1>1 DEF TooEarly, Before, CommentPlaces
  <1> QED  BY <1>2, SameRows DEF Thing, HasQuery

\* A row whose thing is stored is the source of it.
LEMMA OwnSource ==
    ASSUME Types, StoredInv, NEW l, NEW f, NEW n, IsRow(l, f, n), Thing(RowsAt(l, f)[n]) \in Stored
    PROVE  Past(l, f, n) /\ PartsIn(RowsAt(l, f)[n], Stored)
PROOF
  <1>1. PICK m, g, k : IsSource(m, g, k, Thing(RowsAt(l, f)[n]))
    BY DEF StoredInv
  <1>2. /\ Past(m, g, k) /\ IsRow(m, g, k) /\ PartsIn(RowsAt(m, g)[k], Stored)
        /\ Thing(RowsAt(m, g)[k]) = Thing(RowsAt(l, f)[n])
    BY <1>1 DEF IsSource, Past
  <1>3. m = l /\ g = f /\ k = n
    BY <1>2, RowsDiffer DEF Types
  <1> QED  BY <1>2, <1>3

\* A comment that matches what its transaction sees is read after its parent.
LEMMA InTime ==
    ASSUME FilesInv, StoredInv, OrderInv, state = "loading", at = 9, NEW f \in FileNames,
           files[f].pc = "open", NEW m, m = files[f].pos + 1, IsRow(9, f, m),
           Matches(RowsAt(9, f)[m], Visible(f))
    PROVE  ~ TooEarly(<<f, m>>)
PROOF
  <1> DEFINE x == RowsAt(9, f)[m]
  <1>1. /\ program \in Programs /\ extract \in Extracts /\ Types /\ at \in 1 .. Len(Main)
        /\ \A g \in FileNames : FileOK(g, files[g])
    BY DEF FilesInv, Types, Active
  <1>2. /\ FileNames = FilesAt(9) /\ \A g : Content(g) = RowsAt(9, g)
        /\ LoadFits(9, Main[9])
    BY <1>1, CurrentFiles, LoadsFit
  <1>3. PICK last \in Nat : FileNames = 1 .. last
    BY <1>1, CurrentFiles
  <1>4. files[f].pos \in Int
    <2>1. files[f].pos \in 0 .. Len(Content(f))
      BY <1>1 DEF FileOK
    <2> QED  BY <2>1
  <1>5. /\ x.row = CommentAt(<<f, m>>) /\ Ids(x) = x.row.parts
        /\ x.pass.match = <<"Person", "Country", "Post", "Comment">>
    BY <1>1, CommentRow
  <1> SUFFICES ASSUME NEW q \in CommentPlaces, ~ Before(q, <<f, m>>),
                      CommentAt(q).id = CommentAt(<<f, m>>).parts[4]
               PROVE  FALSE
    BY DEF TooEarly
  <1> DEFINE g == q[1]
             k == q[2]
             y == RowsAt(9, g)[k]
  <1>6. q = <<g, k>> /\ IsRow(9, g, k) /\ g \in Nat /\ k \in Nat
    BY <1>1, CommentRow
  <1>7. y.row = CommentAt(q) /\ Thing(y) = <<"Comment", y.row.id>> /\ y.row.id # 0
    BY <1>1, <1>6, CommentRow, References
  <1>8. ~ (g < f) /\ ~ (g = f /\ k < m)
    BY <1>6 DEF Before
  <1>9. g \in FileNames /\ Thing(y) \in Visible(f)
    <2>1. Ids(x)[4] = y.row.id /\ Ids(x)[4] # 0 /\ 4 \in DOMAIN x.pass.match /\ x.pass.match[4] = "Comment"
      BY <1>5, <1>7
    <2>2. \E type \in Subtypes("Comment") : <<type, Ids(x)[4]>> \in Visible(f)
      BY <2>1 DEF Matches
    <2>3. <<"Comment", Ids(x)[4]>> \in Visible(f)
      BY <2>2 DEF Subtypes
    <2> QED  BY <1>2, <1>6, <1>7, <2>1, <2>3 DEF IsRow
  <1> HIDE DEF g, k, y
  <1>10. CASE Thing(y) \in Stored
    <2>1. Past(9, g, k)
      BY <1>1, <1>6, <1>10, OwnSource DEF y
    <2>2. k <= files[g].pos
      BY <2>1 DEF Past
    <2>3. g # f
      BY <1>4, <1>6, <1>8, <2>2
    <2>4. f < g
      BY <1>3, <1>6, <1>8, <2>3
    <2>5. k >= 1
      BY <1>1, <1>6, Contents DEF IsRow
    <2>6. files[g].pc # "waiting"
      <3>1. files[g].pc = "waiting" => files[g].pos = 0
        BY <1>1, <1>9 DEF FileOK
      <3> QED  BY <1>6, <2>2, <2>5, <3>1
    <2>7. ~ Current.threads
      BY <1>2 DEF LoadFits, Current
    <2>8. files[f].pc = "closed"
      BY <1>9, <2>4, <2>6, <2>7 DEF OrderInv, Active, Closed
    <2> QED  BY <2>8
  <1>11. CASE Thing(y) \notin Stored
    <2>1. PICK z \in files[f].tx : Thing(z) = Thing(y)
      BY <1>9, <1>11 DEF Visible
    <2>2. PICK j \in 1 .. files[f].pos : z = RowsAt(9, f)[j]
      BY <1>1, <1>2, <2>1 DEF FileOK
    <2>3. IsRow(9, f, j)
      <3>1. files[f].pos \in 0 .. Len(RowsAt(9, f))
        BY <1>1, <1>2 DEF FileOK
      <3>2. Len(RowsAt(9, f)) \in Nat
        BY <1>1, <1>2, CurrentFiles
      <3>3. j \in 1 .. Len(RowsAt(9, f))
        BY <3>1, <3>2
      <3> QED  BY <1>1, <1>2, <3>3 DEF IsRow
    <2>4. g = f /\ k = j
      BY <1>1, <1>6, <2>1, <2>2, <2>3, RowsDiffer DEF y
    <2> QED  BY <1>4, <1>8, <2>4
  <1> QED  BY <1>10, <1>11

\* A commit stores what was held and nothing else.
LEMMA CommittedOnly ==
    ASSUME NEW f, db' = Committed(f)
    PROVE  \A thing \in Stored' : thing \in Stored \/ \E x \in files[f].tx : Thing(x) = thing
PROOF
  <1>1. PICK S : S \subseteq files[f].tx /\ db' = db (+) SetToBag({Thing(x) : x \in S})
    <2>1. CASE Current.commit = "queue"
      BY <2>1 DEF Committed
    <2>2. CASE Current.commit # "queue"
      BY <2>2 DEF Committed
    <2> QED  BY <2>1, <2>2
  <1> DEFINE things == {Thing(x) : x \in S}
  <1>2. db' = db (+) SetToBag(things)
    BY <1>1
  <1> HIDE DEF things
  <1>3. Stored' = Stored \cup things
    BY <1>2 DEF (+), SetToBag, Stored, BagToSet
  <1> QED  BY <1>1, <1>3 DEF things

\* A row is held when its query has matched, and stored when it was held.
LEMMA OneStepTaken ==
    ASSUME FilesInv, StoredInv, OrderInv, TakenInv, NEW f, OneStep(f)
    PROVE  TakenInv'
PROOF
  <1>1. /\ f \in FileNames /\ state = "loading" /\ state' = "loading"
        /\ UNCHANGED <<program, extract, at>>
        /\ \A h \in FileNames : h # f => files'[h] = files[h]
    BY DEF OneStep
  <1>2. /\ Types /\ at \in 1 .. Len(Main) /\ FileOK(f, files[f])
        /\ FileNames = FilesAt(at) /\ \A h : Content(h) = RowsAt(at, h)
        /\ program \in Programs /\ extract \in Extracts
    <2>1. Types /\ at \in 1 .. Len(Main) /\ FileOK(f, files[f])
      BY <1>1 DEF FilesInv, Active
    <2> QED  BY <2>1, CurrentFiles DEF Types
  <1>3. ASSUME NEW l, NEW g, NEW n, IsRow(l, g, n), Thing(RowsAt(l, g)[n]) \in Stored'
        PROVE  \/ Thing(RowsAt(l, g)[n]) \in Stored
               \/ l = at /\ RowsAt(l, g)[n] \in files[g].tx
    <2>1. CASE Commits(f)
      <3>1. CASE Thing(RowsAt(l, g)[n]) \notin Stored
        <4>1. PICK y \in files[f].tx : Thing(y) = Thing(RowsAt(l, g)[n])
          BY <1>3, <2>1, <3>1, CommittedOnly DEF Commits
        <4>2. PICK j \in 1 .. files[f].pos : y = RowsAt(at, f)[j]
          BY <1>2, <4>1 DEF FileOK
        <4>3. IsRow(at, f, j)
          <5>1. files[f].pos \in 0 .. Len(RowsAt(at, f))
            BY <1>2 DEF FileOK
          <5>2. Len(RowsAt(at, f)) \in Nat
            BY <1>1, <1>2, CurrentFiles
          <5>3. j \in 1 .. Len(RowsAt(at, f))
            BY <5>1, <5>2
          <5> QED  BY <1>1, <1>2, <5>3 DEF IsRow
        <4>4. l = at /\ g = f /\ n = j
          BY <1>2, <1>3, <4>1, <4>2, <4>3, RowsDiffer
        <4> QED  BY <4>1, <4>2, <4>4
      <3> QED  BY <3>1
    <2>2. CASE Rereads(f) \/ Ends(f) \/ \E x : ReadsRow(f, x)
      BY <1>3, <2>2 DEF Rereads, Ends, ReadsRow, Stored
    <2> QED  BY <2>1, <2>2 DEF OneStep
  <1>4. ASSUME NEW g, NEW n, IsRow(at, g, n), RowsAt(at, g)[n] \in files'[g].tx,
               RowsAt(at, g)[n] \notin files[g].tx
        PROVE  HasQuery(RowsAt(at, g)[n]) /\ (at = 9 => ~ TooEarly(<<g, n>>))
    <2>1. g \in FileNames
      BY <1>2, <1>4 DEF IsRow
    <2>2. g = f
      BY <1>1, <1>4, <2>1
    <2>3. PICK y : ReadsRow(f, y)
      BY <1>4, <2>2 DEF OneStep, Rereads, Ends, Commits
    <2> DEFINE m == files[f].pos + 1
    <2>4. /\ m \in 1 .. Len(RowsAt(at, f)) /\ y = RowsAt(at, f)[m]
          /\ files'[f].tx = IF Takes(f, y) THEN files[f].tx \cup {y} ELSE files[f].tx
          /\ files[f].pc = "open"
      BY <1>2, <2>3 DEF ReadsRow
    <2>5. y = RowsAt(at, g)[n] /\ Takes(f, y)
      BY <1>4, <2>2, <2>4
    <2>6. IsRow(at, f, m)
      BY <1>1, <1>2, <2>4 DEF IsRow
    <2>7. n = m
      <3>1. IsRow(at, f, n) /\ RowsAt(at, f)[n] = RowsAt(at, f)[m]
        BY <1>4, <2>2, <2>4, <2>5
      <3>2. Thing(RowsAt(at, f)[n]) = Thing(RowsAt(at, f)[m])
        BY <3>1
      <3> QED  BY <1>2, <2>6, <3>1, <3>2, RowsDiffer
    <2>8. ASSUME at = 9 PROVE ~ TooEarly(<<g, n>>)
      <3>1. Current.commit # "queue"
        <4>1. LoadFits(at, Main[at])
          BY <1>2, LoadsFit
        <4> QED  BY <2>8, <4>1 DEF LoadFits, Current
      <3>2. Matches(RowsAt(9, f)[m], Visible(f)) /\ IsRow(9, f, m)
        BY <2>4, <2>5, <2>6, <2>8, <3>1 DEF Takes
      <3> QED  BY <1>1, <2>2, <2>4, <2>7, <2>8, <3>2, InTime
    <2> QED  BY <2>5, <2>8 DEF Takes
  <1>5. ASSUME NEW l, NEW g, NEW n, IsRow(l, g, n),
               \/ Thing(RowsAt(l, g)[n]) \in Stored'
               \/ l = at /\ RowsAt(l, g)[n] \in files'[g].tx
        PROVE  HasQuery(RowsAt(l, g)[n]) /\ (l = 9 => ~ TooEarly(<<g, n>>))
    <2>1. CASE \/ Thing(RowsAt(l, g)[n]) \in Stored
               \/ l = at /\ RowsAt(l, g)[n] \in files[g].tx
      BY <1>1, <1>5, <2>1 DEF TakenInv, Active
    <2> QED  BY <1>3, <1>4, <1>5, <2>1
  <1> QED  BY <1>1, <1>5, SameTaken DEF TakenInv

\* In every state.
THEOREM TakenInvariant == Spec => []TakenInv
PROOF
  <1>1. Init => TakenInv
    BY DEF Init, TakenInv, Active, Stored, BagToSet, EmptyBag, SetToBag
  <1>2. FilesInv /\ StoredInv /\ OrderInv /\ TakenInv /\ [Next]_vars => TakenInv'
    <2> SUFFICES ASSUME FilesInv, StoredInv, OrderInv, TakenInv, [Next]_vars PROVE TakenInv'
      OBVIOUS
    <2>1. ASSUME NEW l, Proceeds(l), UNCHANGED <<program, extract>>, Stored' \subseteq Stored
          PROVE  TakenInv'
      <3>1. ASSUME NEW f, NEW n, IsRow(l, f, n), Active' PROVE files'[f].tx = {}
        <4>1. ~ l > Len(Main)
          BY <2>1, <3>1 DEF Proceeds, Active
        <4>2. files' = [g \in FilesAt(l) |-> Unread] /\ f \in FilesAt(l)
          BY <2>1, <3>1, <4>1 DEF Proceeds, Fresh, FilesAt, IsRow
        <4> QED  BY <4>2 DEF Unread
      <3>2. at' = l
        BY <2>1 DEF Proceeds
      <3> QED  BY <2>1, <3>1, <3>2, SameTaken DEF TakenInv
    <2>2. CASE Begin
      <3>1. Stored' = {}
        BY <2>2 DEF Begin, Stored, BagToSet, EmptyBag, SetToBag
      <3> QED  BY <2>1, <2>2, <3>1 DEF Begin
    <2>3. CASE EndLoad
      BY <2>1, <2>3 DEF EndLoad, Stored
    <2>4. CASE Fail \/ UNCHANGED vars
      <3>1. UNCHANGED <<program, extract, at, files, db>> /\ (Active' => Active)
        BY <2>4 DEF Fail, vars, Active
      <3>2. Stored' = Stored
        BY <3>1 DEF Stored
      <3> QED  BY <3>1, <3>2, SameTaken DEF TakenInv
    <2>5. ASSUME NEW f \in DOMAIN files, Works(f) \/ Raises(f) \/ CommitRaises(f)
          PROVE  TakenInv'
      BY <2>5, FileSteps, OneStepTaken
    <2> QED  BY <2>2, <2>3, <2>4, <2>5 DEF Next, Progress
  <1> QED  BY <1>1, <1>2, FilesInvariant, StoredInvariant, OrderInvariant, PTL DEF Spec

\* What is in the database as a part of a stored row has itself a row that is stored.
LEMMA PartStored ==
    ASSUME Types, StoredInv, NEW l, NEW f, NEW n, IsRow(l, f, n),
           Thing(RowsAt(l, f)[n]) \in Stored,
           NEW k \in DOMAIN RowsAt(l, f)[n].pass.match, Ids(RowsAt(l, f)[n])[k] # 0
    PROVE  \E m, g, j : /\ IsRow(m, g, j) /\ Thing(RowsAt(m, g)[j]) \in Stored
                        /\ Thing(RowsAt(m, g)[j])[1] \in Subtypes(RowsAt(l, f)[n].pass.match[k])
                        /\ Thing(RowsAt(m, g)[j])[2] = Ids(RowsAt(l, f)[n])[k]
PROOF
  <1>1. PICK thing \in Stored : /\ thing[1] \in Subtypes(RowsAt(l, f)[n].pass.match[k])
                                /\ thing[2] = Ids(RowsAt(l, f)[n])[k]
    BY OwnSource DEF PartsIn
  <1>2. PICK m, g, j : IsSource(m, g, j, thing)
    BY DEF StoredInv
  <1>3. IsRow(m, g, j) /\ Thing(RowsAt(m, g)[j]) = thing
    BY <1>2 DEF IsSource, Past
  <1> QED  BY <1>1, <1>3

\* The comments that are not stored are closed under replies, so that the late ones are
\* among them, and nothing that refers to a late one is stored.
LEMMA LateNotStored ==
    ASSUME Types, StoredInv, TakenInv, NEW l, NEW f, NEW n, IsRow(l, f, n),
           NeedsLateReply(RowsAt(l, f)[n]), Thing(RowsAt(l, f)[n]) \in Stored
    PROVE  FALSE
PROOF
  <1> DEFINE ids  == {CommentAt(p).id : p \in CommentPlaces}
             left == {id \in ids : <<"Comment", id>> \notin Stored}
             x    == RowsAt(l, f)[n]
  <1>1. program \in Programs /\ extract \in Extracts
    BY DEF Types
  <1>2. ASSUME NEW p \in CommentPlaces, TooEarly(p) \/ CommentAt(p).parts[4] \in left
        PROVE  CommentAt(p).id \in left
    <2> DEFINE y == RowsAt(9, p[1])[p[2]]
    <2>1. p = <<p[1], p[2]>> /\ IsRow(9, p[1], p[2])
      BY <1>1, CommentRow
    <2>2. /\ y.row = CommentAt(p) /\ Ids(y) = y.row.parts /\ Thing(y) = <<"Comment", y.row.id>>
          /\ y.pass.match = <<"Person", "Country", "Post", "Comment">>
      BY <1>1, <2>1, CommentRow
    <2>3. ASSUME Thing(y) \in Stored PROVE FALSE
      <3>1. ~ TooEarly(p)
        BY <2>1, <2>3 DEF TakenInv
      <3>2. CommentAt(p).parts[4] \in ids /\ <<"Comment", CommentAt(p).parts[4]>> \notin Stored
        BY <1>2, <3>1
      <3>3. PICK q \in CommentPlaces : CommentAt(q).id = CommentAt(p).parts[4]
        BY <3>2
      <3>4. CommentAt(q).id # 0
        <4>1. /\ IsRow(9, q[1], q[2]) /\ q = <<q[1], q[2]>>
          BY <1>1, CommentRow
        <4>2. RowsAt(9, q[1])[q[2]].row = CommentAt(q)
          BY <1>1, <4>1, CommentRow
        <4> QED  BY <1>1, <4>1, <4>2, References
      <3>5. 4 \in DOMAIN y.pass.match /\ y.pass.match[4] = "Comment" /\ Ids(y)[4] # 0
            /\ Ids(y)[4] = CommentAt(p).parts[4]
        BY <2>2, <3>3, <3>4
      <3>6. \E thing \in Stored : thing[1] \in Subtypes("Comment") /\ thing[2] = Ids(y)[4]
        BY <2>1, <2>3, <3>5, OwnSource DEF PartsIn
      <3>7. PICK m, g, j : /\ IsRow(m, g, j) /\ Thing(RowsAt(m, g)[j]) \in Stored
                           /\ Thing(RowsAt(m, g)[j])[1] \in Subtypes("Comment")
                           /\ Thing(RowsAt(m, g)[j])[2] = Ids(y)[4]
        BY <2>1, <2>3, <3>5, PartStored
      <3>8. Thing(RowsAt(m, g)[j]) = <<"Comment", CommentAt(p).parts[4]>>
        BY <3>5, <3>7 DEF Thing, Subtypes
      <3> QED  BY <3>2, <3>7, <3>8
    <2> QED  BY <2>2, <2>3
  <1>3. LateReplies \subseteq left
    <2>1. WithReplies(left) /\ left \subseteq ids
      BY <1>2 DEF WithReplies
    <2> HIDE DEF left
    <2> QED  BY <2>1, LateClosed
  <1> HIDE DEF x
  <1>4. CASE x.pass.makes = "Comment" /\ x.row.id \in LateReplies
    <2>1. Thing(x) = <<"Comment", x.row.id>>
      BY <1>4 DEF Thing, Subtypes
    <2> QED  BY <1>3, <1>4, <2>1 DEF x
  <1>5. ASSUME NEW k \in DOMAIN x.pass.match, x.pass.match[k] = "Comment", Ids(x)[k] \in LateReplies
        PROVE  FALSE
    <2>1. Ids(x)[k] \in ids /\ <<"Comment", Ids(x)[k]>> \notin Stored
      BY <1>3, <1>5
    <2>2. PICK q \in CommentPlaces : CommentAt(q).id = Ids(x)[k]
      BY <2>1
    <2>3. CommentAt(q).id # 0
      <3>1. IsRow(9, q[1], q[2]) /\ q = <<q[1], q[2]>>
        BY <1>1, CommentRow
      <3>2. RowsAt(9, q[1])[q[2]].row = CommentAt(q)
        BY <1>1, <3>1, CommentRow
      <3> QED  BY <1>1, <3>1, <3>2, References
    <2>4. PICK m, g, j : /\ IsRow(m, g, j) /\ Thing(RowsAt(m, g)[j]) \in Stored
                         /\ Thing(RowsAt(m, g)[j])[1] \in Subtypes("Comment")
                         /\ Thing(RowsAt(m, g)[j])[2] = Ids(x)[k]
      BY <1>5, <2>2, <2>3, PartStored DEF x
    <2>5. Thing(RowsAt(m, g)[j]) = <<"Comment", Ids(x)[k]>>
      BY <2>4 DEF Thing, Subtypes
    <2> QED  BY <2>1, <2>4, <2>5
  <1> QED  BY <1>4, <1>5 DEF NeedsLateReply, x

\* The rows of the loads of one pass are as the data has them.
LEMMA RowType ==
    ASSUME program \in Programs, extract \in Extracts, NEW l, l # 4, NEW f, NEW n, IsRow(l, f, n)
    PROVE  RowsAt(l, f)[n].row.parts \in Seq(Nat)
PROOF
  <1> DEFINE S == [type : STRING, id : Nat, parts : Seq(Nat)]
             load == Main[l]
             these == extract[load.reads]
             file == these[f]
  <1>1. LoadFits(l, load) /\ RowsAt(l, f)[n].row = file[n] /\ n \in 1 .. Len(RowsAt(l, f))
    BY RowPass
  <1>2. load.reads \in Directories /\ Len(load.passes) = 1 /\ Len(load.passes) \in Nat
    BY <1>1 DEF LoadFits
  <1>3. these \in Seq(Seq(S)) /\ f \in DOMAIN these
    BY <1>2, ExtractsAssumption DEF IsRow, FilesAt
  <1> HIDE DEF S, these, load
  <1>4. file \in Seq(S)
    BY <1>3
  <1>5. RowsAt(l, f) = Reads(load, file)
    BY DEF RowsAt, these, load
  <1> HIDE DEF file
  <1>6. Len(Reads(load, file)) = Len(file)
    BY <1>2, <1>4, ReadsSeq, Zenon
  <1>7. file[n] \in S
    BY <1>1, <1>4, <1>5, <1>6
  <1> QED  BY <1>1, <1>7 DEF S

\* A dry run stores tags and their classes only: everything else is in a place, or in
\* what is, and a load before it would have to store that.
LEMMA DryNotStored ==
    ASSUME Types, StoredInv, TakenInv, program = "typedb3dry"
    PROVE  \A l, f, n : IsRow(l, f, n) /\ Thing(RowsAt(l, f)[n]) \in Stored => l \in {4, 5}
PROOF
  <1> DEFINE Stores(l) == \E f, n : IsRow(l, f, n) /\ Thing(RowsAt(l, f)[n]) \in Stored
  <1>1. program \in Programs /\ extract \in Extracts
    BY DEF Types
  <1>2. ASSUME NEW l, Stores(l), l \notin {4, 5}
        PROVE  /\ l \in 2 .. 19
               /\ \E m \in 1 .. 9 : m < l /\ m \notin {4, 5} /\ Stores(m)
    <2>1. PICK f, n : IsRow(l, f, n) /\ Thing(RowsAt(l, f)[n]) \in Stored
      BY <1>2
    <2> DEFINE x == RowsAt(l, f)[n]
    <2>2. l \in 1 .. 19 /\ PassFits(l, 1, x.pass) /\ LoadFits(l, Main[l])
      BY <1>1, <1>2, <2>1, RowPass
    <2>3. HasQuery(x)
      BY <2>1 DEF TakenInv
    <2>4. l # 1
      BY <2>2, <2>3 DEF HasQuery, PassFits
    <2>5. 1 \in DOMAIN x.pass.match
      BY <1>2, <2>2, <2>4 DEF PassFits
    <2>6. Ids(x)[1] # 0
      <3>1. /\ x.row.id # 0
            /\ Main[l].reads \notin {"Place", "TagClass", "Tag"} => Ids(x)[1] # 0
        BY <1>1, <2>1, References
      <3>2. CASE l = 2
        <4>1. x.pass.own
          BY <2>2, <3>2 DEF PassFits
        <4>2. Ids(x) = <<x.row.id>> \o x.row.parts
          BY <4>1 DEF Ids
        <4>3. x.row.parts \in Seq(Nat)
          BY <1>1, <1>2, <2>1, RowType
        <4>4. (<<x.row.id>> \o x.row.parts)[1] = x.row.id
          <5> DEFINE a == x.row.id
                     s == x.row.parts
                     U == {a} \cup Nat
          <5>1. s \in Seq(U) /\ <<a>> \in Seq(U) /\ Len(<<a>>) = 1 /\ <<a>>[1] = a
            BY <4>3
          <5> HIDE DEF a, s, U
          <5>2. (<<a>> \o s)[1] = a
            BY <5>1
          <5> QED  BY <5>2 DEF a, s
        <4> QED  BY <3>1, <4>2, <4>4
      <3>3. CASE l # 2
        <4>1. Main[l].reads \notin {"Place", "TagClass", "Tag"}
          BY <1>2, <2>2, <2>4, <3>3 DEF LoadFits
        <4> QED  BY <3>1, <4>1
      <3> QED  BY <3>2, <3>3
    <2>7. PICK m, g, j : /\ IsRow(m, g, j) /\ Thing(RowsAt(m, g)[j]) \in Stored
                         /\ Thing(RowsAt(m, g)[j])[1] \in Subtypes(x.pass.match[1])
      BY <2>1, <2>5, <2>6, PartStored
    <2> DEFINE T == Thing(RowsAt(m, g)[j])[1]
    <2> HIDE DEF x
    <2>8. T \in Matched /\ Stage(T) < l /\ Stage(T) \notin {4, 5}
      <3>1. \/ Stage(T) < l
            \/ Stage(T) = l /\ l = 4
            \/ Stage(T) = l /\ l = 9 /\ 1 = 4
        BY <2>2, <2>5, <2>7 DEF PassFits
      <3>2. T \in Matched /\ Stage(T) \notin {4, 5}
        BY <1>2, <2>2, <2>5, <2>7 DEF PassFits
      <3> QED  BY <1>2, <3>1, <3>2
    <2>9. Stage(T) = m /\ Stage(T) \in 1 .. 9
      BY <1>1, <2>7, <2>8, ThingStage, TypesOf
    <2>10. Stores(m)
      BY <2>7
    <2> QED  BY <2>2, <2>4, <2>8, <2>9, <2>10
  <1> HIDE DEF Stores
  <1>3. ~ Stores(1)
    BY <1>2
  <1>4. ~ Stores(2)
    BY <1>2, <1>3
  <1>5. ~ Stores(3)
    BY <1>2, <1>3, <1>4
  <1>6. ~ Stores(6)
    BY <1>2, <1>3, <1>4, <1>5
  <1>7. ~ Stores(7)
    BY <1>2, <1>3, <1>4, <1>5, <1>6
  <1>8. ~ Stores(8)
    BY <1>2, <1>3, <1>4, <1>5, <1>6, <1>7
  <1>9. ~ Stores(9)
    BY <1>2, <1>3, <1>4, <1>5, <1>6, <1>7, <1>8
  <1>10. \A l : Stores(l) => l \in {4, 5}
    <2>1. \A m \in 1 .. 9 : m \in {1, 2, 3, 4, 5, 6, 7, 8, 9}
      OBVIOUS
    <2> QED  BY <1>2, <1>3, <1>4, <1>5, <1>6, <1>7, <1>8, <1>9, <2>1
  <1> QED  BY <1>10 DEF Stores

\* LoadedButLateReplies: a load function that has returned has stored the rows of its
\* directory, but for the comments on later ones and what refers to them, and in a dry
\* run all but tags and their classes (every load of main).
THEOREM AllLoadedButLate == Spec => []LoadedButLateReplies
PROOF
  <1>1. FilesInv /\ StoredInv /\ OrderInv /\ LoadedInv /\ TakenInv => LoadedButLateReplies
    <2> SUFFICES ASSUME FilesInv, StoredInv, OrderInv, LoadedInv, TakenInv,
                        NEW l \in 1 .. at - 1, NEW x \in Rows(Main[l]),
                        x.pass.own => 0 \notin ToSet(x.row.parts)
                 PROVE  Thing(x) \in Stored <=>
                           ~ NeedsLateReply(x) /\ ~ (program = "typedb3dry" /\ NeedsPlace(Main[l]))
      BY DEF LoadedButLateReplies
    <2>1. Types /\ program \in Programs /\ extract \in Extracts
      BY DEF FilesInv, Types
    <2>2. /\ Len(Main) = 19 /\ \A m \in 1 .. 19 : LoadFits(m, Main[m])
      BY <2>1, LoadsFit
    <2>3. l \in 1 .. 19 /\ l < at
      <3>1. at \in 0 .. 20
        BY <2>1, <2>2 DEF FilesInv, Types, Active
      <3> QED  BY <3>1
    <2>4. PICK f, n : IsRow(l, f, n) /\ x = RowsAt(l, f)[n]
      <3>1. PICK f \in DOMAIN extract[Main[l].reads] : x \in ToSet(RowsAt(l, f))
        BY DEF Rows, ToSet, RowsAt
      <3>2. PICK n \in DOMAIN RowsAt(l, f) : x = RowsAt(l, f)[n]
        BY <3>1 DEF ToSet
      <3>3. l \in 1 .. Len(Main) /\ f \in FilesAt(l)
        BY <2>2, <2>3 DEF FilesAt
      <3>4. IsRow(l, f, n)
        BY <2>1, <3>2, <3>3, Contents DEF IsRow
      <3> QED  BY <3>2, <3>4
    <2>5. ASSUME ~ NeedsLateReply(x), ~ (program = "typedb3dry" /\ NeedsPlace(Main[l]))
          PROVE  Thing(x) \in Stored
      <3>1. l >= 4 => FilesAt(4) \subseteq {1}
        <4>1. at \in Int
          BY <2>1, <2>2 DEF FilesInv, Types, Active
        <4> QED  BY <2>3, <4>1 DEF OrderInv
      <3>2. Wanted(l, f, n)
        BY <2>4, <2>5, <3>1 DEF Wanted
      <3> QED  BY <2>3, <2>4, <3>2 DEF LoadedInv
    <2>6. ASSUME Thing(x) \in Stored, NeedsLateReply(x)
          PROVE  FALSE
      BY <2>1, <2>4, <2>6, LateNotStored
    <2>7. ASSUME Thing(x) \in Stored, program = "typedb3dry", NeedsPlace(Main[l])
          PROVE  FALSE
      <3>1. l \in {4, 5}
        BY <2>1, <2>4, <2>7, DryNotStored
      <3>2. LoadFits(l, Main[l])
        BY <2>2, <2>3
      <3> QED  BY <2>7, <3>1, <3>2 DEF LoadFits, NeedsPlace
    <2> QED  BY <2>5, <2>6, <2>7
  <1> QED  BY <1>1, FilesInvariant, StoredInvariant, OrderInvariant, LoadedInvariant,
              TakenInvariant, PTL
=============================================================================
