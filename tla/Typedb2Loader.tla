---------------------------- MODULE Typedb2Loader ----------------------------
(***************************************************************************)
(* The load functions of ldbc/typedb2/loader.py, in the order of main.       *)
(***************************************************************************)
EXTENDS LdbcTables

(***************************************************************************)
(* static                                                                  *)
(***************************************************************************)

\* The places, then the relation of each to the one it is part of.
load_place ==
    <<Loads("Place", "file", <<Inserts("Place", <<>>)>>),
      Loads("Place", "file", <<Relates("isPartOf", <<"Place", "Place">>)>>)>>

\* An organisation is located in a place of any kind.
load_organization ==
    <<Loads("Organisation", "file", <<Inserts("Organisation", <<"Place">>)>>)>>

\* Each file is read twice; the transaction opened for all of them is committed
\* after each.
load_tagclass ==
    <<Loads("TagClass", "load",
            <<Inserts("TagClass", <<>>), Relates("isSubclassOf", <<"TagClass", "TagClass">>)>>)>>

load_tags == <<Loads("Tag", "batch", <<Inserts("Tag", <<"TagClass">>)>>)>>

----------------------------------------------------------------------------
(***************************************************************************)
(* dynamic                                                                 *)
(***************************************************************************)
load_person == <<Loads("Person", "queue", <<Inserts("Person", <<"City">>)>>)>>

\* process_file in a thread for each file.
load_forum ==
    <<[Loads("Forum", "batch", <<Inserts("Forum", <<"Person">>)>>) EXCEPT !.threads = TRUE]>>

load_posts == <<Loads("Post", "batch", <<Inserts("Post", <<"Person", "Forum", "Country">>)>>)>>

\* The parent is a post or another comment.
load_comments ==
    <<Loads("Comment", "batch",
            <<Inserts("Comment", <<"Person", "Country", "Post", "Comment">>)>>)>>

load_comment_hasTag_Tag ==
    LoadsRelations("Comment_hasTag_Tag", "commentHasTag", <<"Comment", "Tag">>)

load_forum_hasMember_Person ==
    LoadsRelations("Forum_hasMember_Person", "hasMember", <<"Forum", "Person">>)

load_forum_hasTag_Tag ==
    LoadsRelations("Forum_hasTag_Tag", "forumHasTag", <<"Forum", "Tag">>)

load_person_hasInterest_Tag ==
    LoadsRelations("Person_hasInterest_Tag", "hasInterest", <<"Person", "Tag">>)

load_person_knows_person ==
    LoadsRelations("Person_knows_Person", "knows", <<"Person", "Person">>)

load_person_likes_comment ==
    LoadsRelations("Person_likes_Comment", "likesComment", <<"Person", "Comment">>)

load_person_likes_post ==
    LoadsRelations("Person_likes_Post", "likesPost", <<"Person", "Post">>)

load_person_studyAt_university ==
    LoadsRelations("Person_studyAt_University", "studyAt", <<"Person", "University">>)

load_person_workAt_company ==
    LoadsRelations("Person_workAt_Company", "workAt", <<"Person", "Company">>)

load_post_hasTag_tag == LoadsRelations("Post_hasTag_Tag", "postHasTag", <<"Post", "Tag">>)

load_relations ==
    <<load_comment_hasTag_Tag, load_forum_hasMember_Person, load_forum_hasTag_Tag,
      load_person_hasInterest_Tag, load_person_knows_person, load_person_likes_comment,
      load_person_likes_post, load_person_studyAt_university, load_person_workAt_company,
      load_post_hasTag_tag>>

----------------------------------------------------------------------------
main ==
    load_place \o load_organization \o load_tagclass \o load_tags \o load_person
        \o load_forum \o load_posts \o load_comments \o load_relations
============================================================================
