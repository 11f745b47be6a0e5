-------------------------- MODULE MCLoginRefinement -------------------------
(* Two clients with the values of MCLoginServer. *)
EXTENDS LoginRefinement

MCChar == {"a", "b", "x", "y"}
MCWhitespace == {}
MCAlice == [login |-> <<"a">>, passwd |-> <<"x">>]
MCMallory == [login |-> <<"a">>, passwd |-> <<"y">>]
MCBob == [login |-> <<"b">>, passwd |-> <<"y">>]
MCAttempts == {MCMallory, MCBob}
MCInitialUsers == <<MCAlice>>
TwoFds == {9, 10}
=============================================================================
