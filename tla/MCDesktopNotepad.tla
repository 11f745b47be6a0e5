-------------------------- MODULE MCDesktopNotepad --------------------------
(* Three clients, one after the other or at once, on a note to which a       *)
(* fourth once typed two characters, the second below the first.  No number  *)
(* but 0 is kept as one object.                                              *)
EXTENDS DesktopNotepad

CONSTANTS a, b
MCKept == <<[c |-> "o", position |-> <<1>>, creator |-> 9],
            [c |-> "o", position |-> <<1, 1>>, creator |-> 9]>>
MCLetter == {a, b}
MCSymmetry == Permutations(MCLetter)
=============================================================================
