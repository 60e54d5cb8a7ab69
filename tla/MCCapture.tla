------------------------------- MODULE MCCapture -------------------------------
(***************************************************************************)
(* Three channel lists, two with packets of one size and b elsewhere.      *)
(***************************************************************************)
EXTENDS Capture

MCSize == [a |-> 1, b |-> 2]
MCLists == {<<"b">>, <<"a", "b">>, <<"b", "a">>}
=============================================================================
