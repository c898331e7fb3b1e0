---------------------------- MODULE MCPersonAgent ----------------------------
(***************************************************************************)
(* The agents of read-write/config/medium-delete-benchmark.yml, with a     *)
(* read as in the other configurations.                                    *)
(***************************************************************************)
EXTENDS PersonAgent

MediumDelete == <<"createPerson", "createFriendship", "deletePersons", "readFriendsOf">>
============================================================================
