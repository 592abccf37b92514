---------------------------- MODULE MCFilterMain ----------------------------
(* FilterMain with no word, one, and four of which two are the same, on the keys of
   MCCuckooFilter. *)
EXTENDS FilterMain, MCCuckooFilter

tables == {<<>>, <<"a">>, <<"a", "b", "a", "c">>}
=============================================================================
