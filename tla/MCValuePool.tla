---------------------------- MODULE MCValuePool -----------------------------
(* ValuePool for TLC: values of up to two characters. *)
EXTENDS ValuePool
MCKeys == {1, 2, 3}
MCValues == {<<>>, <<"a">>, <<"b", "a">>}
=============================================================================
