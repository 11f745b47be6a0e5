--------------------------- MODULE MCSharedNotepad ---------------------------
(* Two descriptors, so that a third connection reuses one.  changes_left   *)
(* starts as the number of sends of a round among two, or as nothing.      *)
EXTENDS SharedNotepad

TwoFds == {5, 6}
NoneOrOne == {0, 1}
ZeroLeft == {0}
AllButOneByte == {5}
=============================================================================
