----------------------------- MODULE Characters -----------------------------
(***************************************************************************)
(* The characters of a text edited together, as Notepad.java positions,    *)
(* compares, adds and removes them, and as Note.cpp keeps them.            *)
(*                                                                         *)
(* A position is a sequence of Integers.  getChar compares two of them as  *)
(* references, which for numbers above Cached (127) tells whether they are *)
(* one object: an Integer is therefore [n, box], where box is 0 for the    *)
(* numbers Java keeps one object of and otherwise says which character     *)
(* brought the object into this client.                                    *)
(*                                                                         *)
(* An operator X_Y is X with the fault Y put in; no specification uses it. *)
(***************************************************************************)
EXTENDS Integers, Sequences, FiniteSets, SequencesExt

CONSTANT Cached
ASSUME CachedAssumption == Cached \in Nat

Boxed(n, box) == [n |-> n, box |-> IF n <= Cached THEN 0 ELSE box]
Numbers(position) == [i \in DOMAIN position |-> position[i].n]

(* Notepad.compare of two positions: 1, -1, or 0 when they are the same.     *)
ComparePositions(first, second) ==
    LET common == {i \in 1..Len(first) : i <= Len(second) /\ first[i] # second[i]}
    IN  IF common = {}
        THEN IF Len(first) = Len(second) THEN 0
             ELSE IF Len(first) < Len(second) THEN -1 ELSE 1
        ELSE LET i == CHOOSE k \in common : \A j \in common : k <= j
             IN  IF first[i] > second[i] THEN 1 ELSE -1

(* ... and of two characters: -2 when only the letters differ.               *)
compare(first, second) ==
    LET order == ComparePositions(Numbers(first.position), Numbers(second.position))
    IN  IF order # 0 THEN order
        ELSE IF first.creator > second.creator THEN 1
        ELSE IF first.creator < second.creator THEN -1
        ELSE IF first.c = second.c THEN 0 ELSE -2

-----------------------------------------------------------------------------
(* getChar: the position of a character typed after prev and before next;    *)
(* next is <<>> at the end of the text.                                      *)

(* How far the loop goes: as long as both have the same object.              *)
SameLength(prev, next) ==
    LET differ == {i \in 1..Len(prev) : i > Len(next) \/ prev[i] # next[i]}
    IN  IF differ = {} THEN Len(prev) ELSE (CHOOSE k \in differ : \A j \in differ : k <= j) - 1

WithLast(position, number, box) ==
    [position EXCEPT ![Len(position)] = Boxed(number, box)]
One == Boxed(1, 0)

(* CASE 1: next begins with prev; one before it, below it if need be.        *)
BeforeNext(next, box) ==
    LET c == WithLast(next, next[Len(next)].n - 1, box)
    IN  IF c[Len(c)].n < 1 THEN Append(c, One) ELSE c

(* CASE 3: they differ at a place both have.                                 *)
AfterPrev(prev, same, box) ==
    IF Len(prev) - 1 > same THEN WithLast(prev, prev[Len(prev)].n + 1, box)
                            ELSE Append(prev, One)

NewPosition(prev, next, atEnd, box) ==
    LET same == SameLength(prev, next)
    IN  IF Len(prev) <= same
        THEN IF Len(next) <= same THEN Append(prev, One)            \* CASE 666
                                  ELSE BeforeNext(next, box)
        ELSE IF Len(next) <= same /\ atEnd THEN <<Boxed(prev[1].n + 1, box)>> \* CASE 2
        ELSE AfterPrev(prev, same, box)

(* get(i) past the end of next throws: prev goes on where next has ended.    *)
Throws(prev, next, atEnd) ==
    LET same == SameLength(prev, next) IN Len(prev) > same /\ Len(next) <= same /\ ~atEnd

(* Equal numbers taken for different ones, because they are two objects.     *)
Misread(prev, next) ==
    LET i == SameLength(prev, next) + 1
    IN  i <= Len(prev) /\ i <= Len(next) /\ prev[i].n = next[i].n

-----------------------------------------------------------------------------
(* A text is a sequence of characters after the invisible one at position 0. *)

addChar_AtEnd(text, char) ==
    IF \E i \in 2..Len(text) : compare(char, text[i]) = 0 THEN text ELSE Append(text, char)
addChar(text, char) ==
    LET stop == {i \in 2..Len(text) : compare(char, text[i]) # 1}
    IN  IF stop = {} THEN Append(text, char)
        ELSE LET i == CHOOSE k \in stop : \A j \in stop : k <= j
             IN  IF compare(char, text[i]) = -1 THEN InsertAt(text, i, char) ELSE text

(* The loop goes on after a removal, one further than it should: what        *)
(* follows a character that was removed is kept whatever it is.              *)
removeChar(text, char) ==
    LET passed[i \in 0..Len(text)] ==
            IF i = 0 THEN [kept |-> <<>>, skips |-> TRUE]
            ELSE IF ~passed[i - 1].skips /\ compare(char, text[i]) = 0
                 THEN [kept |-> passed[i - 1].kept, skips |-> TRUE]
                 ELSE [kept |-> Append(passed[i - 1].kept, text[i]), skips |-> FALSE]
    IN  passed[Len(text)].kept

(* toString and toCharacter: letter and numbers travel, and the creator      *)
(* written behind them is not read: the reader's own id takes its place.     *)
Written(char) == [c |-> char.c, position |-> Numbers(char.position), creator |-> char.creator]
toCharacter(written, me, box) ==
    [c |-> written.c, creator |-> me,
     position |-> [i \in DOMAIN written.position |-> Boxed(written.position[i], box)]]

(* An object no character of the text has: a number that is not in use.     *)
Fresh(text) ==
    LET inUse == UNION {{text[i].position[k].box : k \in DOMAIN text[i].position} : i \in DOMAIN text}
    IN  CHOOSE box \in 1..(Cardinality(inUse) + 1) : box \notin inUse

(* Notepad.applyChanges: all that were added, then all that were deleted.    *)
AddAll(text, added, me) ==
    LET after[i \in 0..Len(added)] ==
            IF i = 0 THEN text
            ELSE addChar(after[i - 1], toCharacter(added[i], me, Fresh(after[i - 1])))
    IN  after[Len(added)]
RemoveAll(text, deleted, me) ==
    LET after[i \in 0..Len(deleted)] ==
            IF i = 0 THEN text ELSE removeChar(after[i - 1], toCharacter(deleted[i], me, 0))
    IN  after[Len(deleted)]
applyChanges_AddedOnly(text, edit, me) == AddAll(text, edit.added, me)
applyChanges(text, edit, me) == RemoveAll(AddAll(text, edit.added, me), edit.deleted, me)

-----------------------------------------------------------------------------
(* Note.cpp: what was added and deleted is kept as it was written, and what  *)
(* is left is sorted by position when the note is saved.                     *)

Left_ByLetter(note) ==
    SelectSeq(note.added, LAMBDA w : \A i \in DOMAIN note.deleted : note.deleted[i].c # w.c)
Left(note) ==
    LET left[i \in 0..Len(note.added)] ==
            IF i = 0 THEN <<>>
            ELSE IF note.added[i] \in ToSet(note.deleted) THEN left[i - 1]
                 ELSE Append(left[i - 1], note.added[i])
    IN  left[Len(note.added)]

(* The letters of the saved file: std::sort leaves no character after one    *)
(* that it comes before.  Two at one position it may leave in either order,  *)
(* since the creator, which should decide, is not set here.                  *)
toString(note) ==
    LET left  == Left(note)
        order == CHOOSE p \in Bijection(DOMAIN left, DOMAIN left) :
                     \A i, j \in DOMAIN left :
                         i < j => ComparePositions(left[p[j]].position, left[p[i]].position) # -1
    IN  [i \in DOMAIN left |-> left[order[i]].c]
=============================================================================
