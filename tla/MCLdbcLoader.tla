----------------------------- MODULE MCLdbcLoader -----------------------------
(***************************************************************************)
(* Small extracts of a social network for LdbcLoader: one to three rows of *)
(* every directory, with the comments in each order and in one file or     *)
(* two, and the tag classes in one file or two.                            *)
(***************************************************************************)
EXTENDS LdbcLoader

R(type, id, parts) == [type |-> type, id |-> id, parts |-> parts]

Reply(n) ==
    CASE n = 1 -> R("Comment", 1, <<2, 2, 1, 0>>)
      [] n = 2 -> R("Comment", 2, <<1, 2, 0, 1>>)
      [] n = 3 -> R("Comment", 3, <<3, 2, 0, 2>>)

CommentFiles ==
    UNION {{<<<<Reply(p[1]), Reply(p[2]), Reply(p[3])>>>>,
            <<<<Reply(p[1])>>, <<Reply(p[2]), Reply(p[3])>>>>} : p \in Permutations(1 .. 3)}

Class1 == R("TagClass", 1, <<0>>)
Class2 == R("TagClass", 2, <<1>>)

Extract(classes, comments) ==
    [Place        |-> <<<<R("City", 1, <<2>>), R("Country", 2, <<3>>)>>, <<R("Continent", 3, <<0>>)>>>>,
     Organisation |-> <<<<R("University", 1, <<1>>), R("Company", 2, <<2>>)>>>>,
     TagClass     |-> classes,
     Tag          |-> <<<<R("Tag", 1, <<1>>), R("Tag", 2, <<2>>), R("Tag", 3, <<2>>)>>>>,
     Person       |-> <<<<R("Person", 1, <<1>>), R("Person", 2, <<1>>), R("Person", 3, <<1>>)>>>>,
     Forum        |-> <<<<R("Forum", 1, <<1>>), R("Forum", 2, <<2>>)>>, <<R("Forum", 3, <<3>>)>>,
                        <<R("Forum", 4, <<1>>)>>>>,
     Post         |-> <<<<R("Post", 1, <<1, 1, 2>>)>>>>,
     Comment      |-> comments,
     Comment_hasTag_Tag       |-> <<<<R("commentHasTag", 1, <<3, 1>>)>>>>,
     Forum_hasMember_Person   |-> <<<<R("hasMember", 1, <<1, 2>>)>>, <<R("hasMember", 2, <<4, 3>>)>>>>,
     Forum_hasTag_Tag         |-> <<<<R("forumHasTag", 1, <<3, 2>>)>>>>,
     Person_hasInterest_Tag   |-> <<<<R("hasInterest", 1, <<1, 1>>)>>,
                                    <<R("hasInterest", 2, <<2, 1>>), R("hasInterest", 3, <<3, 3>>)>>>>,
     Person_knows_Person      |-> <<<<R("knows", 1, <<1, 2>>), R("knows", 2, <<2, 3>>)>>>>,
     Person_likes_Comment     |-> <<<<R("likesComment", 1, <<1, 1>>)>>, <<R("likesComment", 2, <<2, 3>>)>>>>,
     Person_likes_Post        |-> <<<<R("likesPost", 1, <<3, 1>>)>>>>,
     Person_studyAt_University |-> <<<<R("studyAt", 1, <<1, 1>>)>>>>,
     Person_workAt_Company    |-> <<<<R("workAt", 1, <<2, 2>>)>>>>,
     Post_hasTag_Tag          |-> <<<<R("postHasTag", 1, <<1, 3>>)>>>>]

\* With the tag classes in two files the load never comes to the comments.
SomeExtracts ==
    {Extract(<<<<Class2, Class1>>>>, comments) : comments \in CommentFiles}
        \cup {Extract(<<<<Class1>>, <<Class2>>>>, <<<<Reply(1), Reply(2), Reply(3)>>>>)}
============================================================================
