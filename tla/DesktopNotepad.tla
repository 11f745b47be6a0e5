--------------------------- MODULE DesktopNotepad ---------------------------
(***************************************************************************)
(* One note edited from several desktop clients: Notepad.java with the     *)
(* writer and reader of Client.java around it, and the note of the server. *)
(* Characters.tla has the operators; here are the orders in which clients  *)
(* type, delete, send and receive.                                         *)
(*                                                                         *)
(* Between them stands a server that does what 11.3 of the documentation   *)
(* promises: every edit is kept and passed on once, in one order, and a    *)
(* client that joins is given what is left of the note.  What the server   *)
(* really does to edits is SharedNotepad's subject; this module asks       *)
(* whether the clients agree even so.  A handler of the client is one      *)
(* step: the flags that should make it so are DesktopClient's subject.     *)
(*                                                                         *)
(* An operator X_Y is X with the fault Y put in; no specification uses it. *)
(* reused, misread, foreign and revived record what happened, for the      *)
(* properties; nothing reads them.                                         *)
(***************************************************************************)
EXTENDS Characters

CONSTANTS
    Client,     \* ids given out by the server
    Kept,       \* what clients that have left typed into the note
    Letter,     \* those typed from now on
    MaxTyped,   \* bound: characters typed in all
    MaxRemoved  \* bound: characters deleted in all

WrittenChar == [c : Letter \cup {Kept[i].c : i \in DOMAIN Kept}, position : Seq(Nat), creator : Nat]

(* Positions are such as getChar makes. *)
ASSUME ClientAssumption ==
    /\ Client \subseteq Nat
    /\ Kept \in Seq(WrittenChar)
    /\ \A i \in DOMAIN Kept : Kept[i].position # <<>> /\ Last(Kept[i].position) >= 1
    /\ MaxTyped \in Nat /\ MaxRemoved \in Nat

VARIABLES
    joined,     \* clients that have been sent the note
    text,       \* [Client -> sequence of characters], the invisible one first
    added,      \* addedBuffer, as it will be written
    deleted,    \* deletedBuffer
    inbox,      \* edits passed on to a client that it has not applied
    note,       \* what the server's Note has kept
    up,         \* the server runs
    given,      \* positions given to characters so far
    reused,     \* a position was given a second time
    misread,    \* getChar took equal numbers for different ones
    foreign,    \* someone deleted a character it had not typed itself
    revived,    \* someone joined after that
    typed, removed      \* how many so far

vars == <<joined, text, added, deleted, inbox, note, up, given, reused, misread,
          foreign, revived, typed, removed>>

Root == [c |-> "", position |-> <<Boxed(0, 0)>>, creator |-> 0]
Nothing == [c \in Client |-> <<>>]

Init ==
    /\ joined = {}
    /\ text = [c \in Client |-> <<Root>>]
    /\ added = Nothing /\ deleted = Nothing /\ inbox = Nothing
    /\ note = [added |-> Kept, deleted |-> <<>>]
    /\ up = TRUE
    /\ given = {[position |-> Kept[i].position, creator |-> Kept[i].creator] : i \in DOMAIN Kept}
    /\ reused = \E i, j \in DOMAIN Kept : i # j /\ Kept[i].position = Kept[j].position
    /\ misread = FALSE /\ foreign = FALSE /\ revived = FALSE
    /\ typed = 0 /\ removed = 0

-----------------------------------------------------------------------------
(* removeMultipleChars: k characters that follow the i-th.                   *)
Cut_FromCaret(t, i, k) == SubSeq(t, 1, i - 1) \o SubSeq(t, i + k, Len(t))
Cut(t, i, k) == SubSeq(t, 1, i) \o SubSeq(t, i + k + 1, Len(t))
CutOut(t, i, k) == [j \in 1..k |-> Written(t[i + j])]

(* Whose a character was before it came here with the reader's own id.       *)
Typist(w) == {v.creator : v \in {v \in given : v.position = w.position}}
NotOnlyOwn(c, cut) == \E j \in DOMAIN cut : Typist(cut[j]) # {c}

RemoveMultiple(c, i, k) ==
    LET cut == CutOut(text[c], i, k)
    IN  /\ removed + k <= MaxRemoved
        /\ removed' = removed + k
        /\ deleted' = [deleted EXCEPT ![c] = @ \o cut]
        /\ foreign' = (foreign \/ NotOnlyOwn(c, cut))

(* proceedKeyTyped, a character typed over the k that were selected.         *)
Type(c, i, k, letter) ==
    LET rest == Cut(text[c], i, k)
        atEnd == i = Len(rest)
        prev == rest[i].position
        next == IF atEnd THEN <<>> ELSE rest[i + 1].position
        char == [c |-> letter, creator |-> c, position |-> NewPosition(prev, next, atEnd, Fresh(rest))]
    IN  /\ c \in joined
        /\ i + k <= Len(text[c])
        /\ typed < MaxTyped
        /\ typed' = typed + 1
        /\ RemoveMultiple(c, i, k)
        /\ IF Throws(prev, next, atEnd)
           THEN /\ text' = [text EXCEPT ![c] = rest]
                /\ UNCHANGED <<added, given, reused, misread>>
           ELSE /\ text' = [text EXCEPT ![c] = InsertAt(rest, i + 1, char)]
                /\ added' = [added EXCEPT ![c] = Append(@, Written(char))]
                /\ given' = given \cup {[position |-> Numbers(char.position), creator |-> c]}
                /\ reused' = (reused \/ \E g \in given : g.position = Numbers(char.position))
                /\ misread' = (misread \/ Misread(prev, next))
        /\ UNCHANGED <<joined, inbox, note, up, revived>>

(* proceedKeyTyped, Backspace or Delete.                                     *)
Delete(c, i, k) ==
    /\ c \in joined
    /\ i + k <= Len(text[c])
    /\ RemoveMultiple(c, i, k)
    /\ text' = [text EXCEPT ![c] = Cut(@, i, k)]
    /\ UNCHANGED <<joined, added, inbox, note, up, given, reused, misread, revived, typed>>

(* The writer's turn: getChanges empties both buffers.  On the server an     *)
(* edit that only deletes has buffers[1] read past the end (Note.cpp:88):    *)
(* the server ends, or goes on with nothing added.                           *)
SendChanges(c) ==
    LET edit == [added |-> added[c], deleted |-> deleted[c]]
    IN  /\ c \in joined
        /\ added[c] # <<>> \/ deleted[c] # <<>>
        /\ added' = [added EXCEPT ![c] = <<>>]
        /\ deleted' = [deleted EXCEPT ![c] = <<>>]
        /\ up' \in (IF added[c] = <<>> THEN {up, FALSE} ELSE {up})
        /\ IF up'
           THEN /\ note' = [added |-> note.added \o edit.added,
                            deleted |-> note.deleted \o edit.deleted]
                /\ inbox' = [d \in Client |-> IF d \in joined \ {c} THEN Append(inbox[d], edit)
                                                                   ELSE inbox[d]]
           ELSE UNCHANGED <<note, inbox>>
        /\ UNCHANGED <<joined, text, given, reused, misread, foreign, revived, typed, removed>>

(* The reader's turn: getEdit.                                               *)
Apply(c) ==
    /\ inbox[c] # <<>>
    /\ inbox' = [inbox EXCEPT ![c] = Tail(@)]
    /\ text' = [text EXCEPT ![c] = applyChanges(@, Head(inbox[c]), c)]
    /\ UNCHANGED <<joined, added, deleted, note, up, given, reused, misread, foreign, revived,
                   typed, removed>>

(* A client logs in and is sent getFileChanges.                              *)
Join(c) ==
    /\ up /\ c \notin joined
    /\ joined' = joined \cup {c}
    /\ inbox' = [inbox EXCEPT ![c] = <<[added |-> Left(note), deleted |-> <<>>]>>]
    /\ revived' = (revived \/ foreign)
    /\ UNCHANGED <<text, added, deleted, note, up, given, reused, misread, foreign, typed, removed>>

Next ==
    \E c \in Client :
        \/ \E i \in 1..Len(text[c]), k \in 0..1, letter \in Letter : Type(c, i, k, letter)
        \/ \E i \in 1..Len(text[c]), k \in 1..MaxRemoved : Delete(c, i, k)
        \/ SendChanges(c)
        \/ Apply(c)
        \/ Join(c)

Spec == Init /\ [][Next]_vars

-----------------------------------------------------------------------------
Edit == [added : Seq(WrittenChar), deleted : Seq(WrittenChar)]

TypeOK ==
    /\ joined \subseteq Client
    /\ \A c \in Client :
        /\ text[c][1] = Root
        /\ \A i \in 2..Len(text[c]) : Written(text[c][i]) \in WrittenChar
        /\ added[c] \in Seq(WrittenChar) /\ deleted[c] \in Seq(WrittenChar)
        /\ inbox[c] \in Seq(Edit)
    /\ note \in Edit
    /\ {up, reused, misread, foreign, revived} \subseteq BOOLEAN
    /\ typed \in 0..MaxTyped /\ removed \in 0..MaxRemoved

(* Whatever is typed, deleted and received, in whatever order, every text    *)
(* stays sorted by position with no position twice, unless getChar took      *)
(* equal numbers for different ones.  addChar looks for the first greater    *)
(* character, compare and removeChar rely on it, and getChar would throw     *)
(* or leave the gap between its neighbours in a text that is not.            *)
TextSorted ==
    misread \/ \A c \in Client : \A i \in 1..Len(text[c]) - 1 :
        ComparePositions(Numbers(text[c][i].position), Numbers(text[c][i + 1].position)) = -1

(* Everything sent has been applied, and everything typed has been sent.     *)
Quiet == /\ up
         /\ \A c \in joined : inbox[c] = <<>> /\ added[c] = <<>> /\ deleted[c] = <<>>
Shown(t) == [i \in DOMAIN t |-> [c |-> t[i].c, position |-> Numbers(t[i].position)]]

(* When nothing is under way all clients have the same text, in the same     *)
(* order: unless a position was given twice, which the creator should tell   *)
(* apart but toCharacter does not read it; or numbers were misread; or a     *)
(* client joined after somebody deleted what another had typed.              *)
Converges ==
    Quiet /\ ~reused /\ ~misread /\ ~revived =>
        \A c, d \in joined : Shown(text[c]) = Shown(text[d])

(* ... and what the server would save is that text, unless somebody deleted  *)
(* a character of another: the note looks for it under the wrong creator.    *)
NoteIsText ==
    Quiet /\ ~reused /\ ~misread /\ ~foreign =>
        \A c \in joined : toString(note) = [i \in 1..Len(text[c]) - 1 |-> text[c][i + 1].c]
=============================================================================
