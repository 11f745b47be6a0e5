--------------------------- MODULE MCLoginHandler ---------------------------
(* Three logins, "b" the end of "ab", and the empty login; two passwords and *)
(* a password with a blank.                                                  *)
EXTENDS LoginHandler

MCChar == {"a", "b", "x", "y", " "}
MCWhitespace == {" "}
MCLogins == {<<"b">>, <<"a", "b">>, <<>>}
MCPasswds == {<<"x">>, <<"y">>}
MCAttempts ==
    [login : MCLogins, passwd : MCPasswds]
        \cup {[login |-> <<"b">>, passwd |-> <<"x", " ">>]}
MCInitialUsers == << >>
=============================================================================
