--------------------------- MODULE MCAdminBuffers ---------------------------
(* Numbers are binary, so that a length of two digits is less than 4 and the *)
(* lists that are too long need not have 100 bytes.  10 is a letter of one   *)
(* byte, 11 one of two.                                                      *)
EXTENDS AdminBuffers

MCLetter == {10, 11}
MCWide == {11}
MCLogin == [type |-> 0, data |-> <<10>>]
MCWideLogin == [type |-> 0, data |-> <<11>>]
MCStatement == [type |-> 1, data |-> <<1>>]
MCWideList == [type |-> 3, data |-> <<11>>]
MCLongList == [type |-> 3, data |-> <<10, 10, 10, 10>>]
MCOut == {MCLogin, MCWideLogin}
MCIn == {MCStatement, MCWideList, MCLongList}
=============================================================================
