------------------------------ MODULE LdbcTables ------------------------------
(***************************************************************************)
(* How a load function of ldbc/typedb2/loader.py or ldbc/typedb3/loader.py *)
(* is described.  It works on the CSV files of one directory, each of      *)
(* whose rows becomes a match-insert query: the things the row refers to   *)
(* are matched by type and id, and where one is not found nothing is       *)
(* inserted, without an error.                                             *)
(***************************************************************************)
EXTENDS Integers, Sequences

\* schema.tql: the types that have subtypes, and what "isa" them matches.
Subtypes(type) ==
    CASE type = "Place"        -> {"City", "Country", "Continent"}
      [] type = "Organisation" -> {"University", "Company"}
      [] OTHER                 -> {type}

\* The directories of an extract, each of CSV files.
Directories ==
    {"Place", "Organisation", "TagClass", "Tag", "Person", "Forum", "Post", "Comment",
     "Comment_hasTag_Tag", "Forum_hasMember_Person", "Forum_hasTag_Tag",
     "Person_hasInterest_Tag", "Person_knows_Person", "Person_likes_Comment",
     "Person_likes_Post", "Person_studyAt_University", "Person_workAt_Company",
     "Post_hasTag_Tag"}

(***************************************************************************)
(* One pass over a file: what its rows insert ("Place" and "Organisation"  *)
(* stand for the subtype a column of the row names) and the types they     *)
(* match, one for each column with an id.                                  *)
(*   own:  the row's own thing is matched first (a relation of its own);   *)
(*         a row without the other id is skipped                           *)
(*   dry:  the query is not executed                                       *)
(***************************************************************************)
Inserts(makes, match) == [makes |-> makes, match |-> match, own |-> FALSE, dry |-> FALSE]

Relates(makes, match) == [makes |-> makes, match |-> match, own |-> TRUE, dry |-> FALSE]

(***************************************************************************)
(* A load over a directory.                                                *)
(*   commit:  "file"   one transaction for each file                       *)
(*            "load"   one transaction opened for all the files            *)
(*            "batch"  a commit each batch_size rows, then a new one       *)
(*            "queue"  queries are collected and each batch_size of them   *)
(*                     are executed in a transaction of their own          *)
(*   carried: the count of rows goes on from file to file                  *)
(*   threads: a thread for each file                                       *)
(***************************************************************************)
Loads(reads, commit, passes) ==
    [reads |-> reads, commit |-> commit, carried |-> FALSE, threads |-> FALSE,
     passes |-> passes]

\* A directory of relations, as they are all loaded.
LoadsRelations(reads, makes, match) ==
    [reads |-> reads, commit |-> "batch", carried |-> TRUE, threads |-> FALSE,
     passes |-> <<Inserts(makes, match)>>]
============================================================================
