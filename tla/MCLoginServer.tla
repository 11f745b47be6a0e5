---------------------------- MODULE MCLoginServer ----------------------------
(* Descriptors 9 and 10, so that a CLIENT_ID has one byte or two; 8 and 9    *)
(* where its length does not matter.  Alice is registered, Mallory has not   *)
(* got her password.                                                         *)
EXTENDS LoginServer

MCChar == {"a", "x", "y"}
MCWhitespace == {}
MCAlice == [login |-> <<"a">>, passwd |-> <<"x">>]
MCMallory == [login |-> <<"a">>, passwd |-> <<"y">>]
MCAttempts == {MCAlice, MCMallory}
MCInitialUsers == <<MCAlice>>
OneAttempt == {MCMallory}
TwoFds == {9, 10}
LowFds == {8, 9}
=============================================================================
