---------------------------- MODULE MCConnected ----------------------------
(* Lists and images of every number of blocks about the boundaries, two    *)
(* peers who send the same image, groups with and without repetitions.     *)
EXTENDS Connected
MCImages == {[id |-> "cat", size |-> 2], [id |-> "dog", size |-> 5]}
MCLists == {<<>>, <<1, 2>>, <<1, 2, 3>>}
MCContactLists == {<<>>, <<1, 2>>, <<1, 2, 3>>}
MCGroups == {<<"ola", "eve", "me">>, <<"ola", "ola", "me">>}
MCClocks == {<<1, 1>>}
MCResults == {<<>>, <<<<<<"name", "a">>, <<"city", "b">>>>, <<<<"city", "c">>>>>>}
=============================================================================
