--------------------------- MODULE MessageStream ----------------------------
(***************************************************************************)
(* What sending messages over a connection promises: the receiver has the  *)
(* messages that were sent, whole, in order and once each, as long as the  *)
(* stream is intact.  What may end that is for the implementation to say.  *)
(***************************************************************************)
EXTENDS Naturals, Sequences

CONSTANT Message

VARIABLES sent, delivered, intact

vars == <<sent, delivered, intact>>

Init == sent = <<>> /\ delivered = <<>> /\ intact = TRUE

Put(m) ==
    /\ sent' = Append(sent, m)
    /\ UNCHANGED <<delivered, intact>>

Deliver ==
    /\ intact /\ intact' = TRUE
    /\ Len(delivered) < Len(sent)
    /\ delivered' = Append(delivered, sent[Len(delivered) + 1])
    /\ UNCHANGED sent

(* Nothing is promised of what is delivered after that. *)
Break == intact' = FALSE

Next == Deliver \/ Break \/ \E m \in Message : Put(m)

Spec == Init /\ [][Next]_vars

InOrder == intact => /\ Len(delivered) <= Len(sent)
                     /\ delivered = SubSeq(sent, 1, Len(delivered))
=============================================================================
