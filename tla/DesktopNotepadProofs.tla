------------------------ MODULE DesktopNotepadProofs ------------------------
(***************************************************************************)
(* However many clients type, delete, send, receive and join, and for any  *)
(* number of characters: every client's text stays sorted, all clients     *)
(* agree when nothing is under way, and what the server would save is      *)
(* what they show, but for the defects that the properties name.           *)
(*                                                                         *)
(* TextSorted alone is not inductive: what is typed or received is put in  *)
(* its place only if positions are such as getChar makes, wherever they    *)
(* are: in a text, in a buffer, on their way, or in the server's note.     *)
(* That is IInv.                                                           *)
(*                                                                         *)
(* Nor is Converges, which says nothing before all is quiet.  CInv keeps   *)
(* the books until then: which characters each text, buffer, edit on its   *)
(* way and the note have, so that what a client shows once it has applied  *)
(* all that comes to it is what is left of the note once it has been sent  *)
(* all that the client has done.                                           *)
(***************************************************************************)
EXTENDS DesktopNotepad, CharactersProofs

Letters == Letter \cup {Kept[i].c : i \in DOMAIN Kept}
Sendable == AsWritten(Letters)
Edits == [added : Seq(Sendable), deleted : Seq(Sendable)]
TextOf(c) == Text(Letters, c, Root)

LEMMA RootIsRoot == IsRoot(Root)
<1>1. Boxed(0, 0) \in JavaInteger /\ Boxed(0, 0).n = 0
  BY BoxedIsInteger
<1>2. Root.position = <<Boxed(0, 0)>>
  BY DEF Root
<1> DEFINE p == Root.position
<1>3. p \in Position /\ Len(p) = 1 /\ p[1].n = 0
  BY <1>1, <1>2 DEF Position
<1> HIDE DEF p
<1>4. Numbers(p) \in Seq(Nat) /\ Len(Numbers(p)) = 1 /\ Numbers(p)[1] = 0
  <2>1. 1 \in 1..Len(p)
    BY <1>3
  <2> QED
    BY <1>3, <2>1, NumbersOfPosition
<1>5. Numbers(p) = <<0>>
  BY <1>4, SeqEqual
<1> QED
  BY <1>3, <1>5 DEF IsRoot, Place, p

(* No position of a text is empty.                                           *)
LEMMA NoEmptyPosition ==
    ASSUME NEW c, NEW t \in TextOf(c), NEW i \in 1..Len(t)
    PROVE  t[i].position \in Position /\ t[i].position # <<>>
<1>1. /\ Len(t) \in Nat /\ t[1] = Root
      /\ \A j \in 1..Len(t) : t[j].position \in Position
      /\ \A j \in 2..Len(t) : EndsAboveZero(Place(t[j]))
  BY RootIsRoot, PlacesOfText DEF TextOf
<1> DEFINE p == t[i].position
<1>2. p \in Position /\ Len(p) = Len(Numbers(p))
  BY <1>1, NumbersOfPosition
<1>3. Numbers(p) # <<>> /\ Numbers(p) \in Seq(Nat)
  <2>1. CASE i = 1
    <3>1. Numbers(p) = <<0>>
      BY <1>1, <2>1, RootIsRoot DEF IsRoot, Place
    <3>2. <<0>> # <<>> /\ <<0>> \in Seq(Nat)
      OBVIOUS
    <3> HIDE DEF p
    <3> QED
      BY <3>1, <3>2
  <2>2. CASE i # 1
    <3>1. i \in 2..Len(t)
      BY <1>1, <2>2
    <3>2. EndsAboveZero(Place(t[i]))
      BY <1>1, <3>1
    <3>3. Numbers(p) # <<>>
      BY <3>2 DEF EndsAboveZero, Place
    <3> QED
      BY <1>2, <3>3, NumbersOfPosition
  <2> QED
    BY <2>1, <2>2
<1> HIDE DEF p
<1>4. p # <<>>
  <2> SUFFICES ASSUME p = <<>> PROVE FALSE
    OBVIOUS
  <2>1. Len(Numbers(p)) = 0
    BY <1>2
  <2> QED
    BY <1>3, <2>1, EmptySeq
<1> QED
  BY <1>2, <1>4 DEF p

(* Cutting characters out, never the first.                                  *)
LEMMA CutKeepsText ==
    ASSUME NEW c, NEW t \in TextOf(c), NEW k \in Nat, NEW i \in 1..Len(t), i + k <= Len(t)
    PROVE  /\ Cut(t, i, k) \in TextOf(c) /\ Len(Cut(t, i, k)) = Len(t) - k
           /\ Sorted(t) => Sorted(Cut(t, i, k))
<1> DEFINE Chars == {Root} \cup Typed(Letters, c)
           head == SubSeq(t, 1, i)
           tail == SubSeq(t, i + k + 1, Len(t))
           n == Len(t) - k
           places == [j \in 1..n |-> IF j <= i THEN j ELSE j + k]
<1>1. t \in Seq(Chars)
  BY DEF TextOf, Text
<1>2. Len(t) \in Nat /\ \A j \in 1..Len(t) : t[j] \in Chars
  BY <1>1
<1> HIDE DEF Chars
<1>3. /\ head \in Seq(Chars) /\ Len(head) = i
      /\ \A j \in 1..i : head[j] = t[j]
  BY <1>1, <1>2, SubSeqProperties
<1>4. /\ tail \in Seq(Chars) /\ Len(tail) = Len(t) - i - k
      /\ \A j \in 1..(Len(t) - i - k) : tail[j] = t[i + k + j]
  BY <1>1, <1>2, SubSeqProperties
<1>5. Cut(t, i, k) = head \o tail
  BY DEF Cut
<1> HIDE DEF head, tail
<1> DEFINE new == head \o tail
<1>6. /\ new \in Seq(Chars) /\ Len(new) = Len(head) + Len(tail)
      /\ \A j \in 1..(Len(head) + Len(tail)) :
             new[j] = IF j <= Len(head) THEN head[j] ELSE tail[j - Len(head)]
  <2>1. head \in Seq(Chars) /\ tail \in Seq(Chars)
    BY <1>3, <1>4
  <2> QED
    BY <2>1, ConcatProperties
<1> HIDE DEF new
<1>7. n \in Nat /\ n >= 1 /\ i \in 1..n /\ Len(head) + Len(tail) = n
  BY <1>2, <1>3, <1>4
<1>8. Len(new) = n
  BY <1>6, <1>7
<1> HIDE DEF n
<1>9. places \in [1..n -> 1..Len(t)]
  BY <1>2, <1>7 DEF n
<1>10. /\ places[1] = 1
       /\ \A j, m \in 1..n : j < m => places[j] < places[m]
  BY <1>7
<1>11. ASSUME NEW j \in 1..n PROVE new[j] = t[places[j]]
  <2>1. CASE j <= i
    <3>1. j \in 1..i
      BY <1>7, <2>1
    <3>2. new[j] = head[j]
      BY <1>3, <1>6, <1>7, <2>1
    <3> QED
      BY <1>3, <2>1, <3>1, <3>2
  <2>2. CASE ~(j <= i)
    <3>1. j - i \in 1..(Len(t) - i - k) /\ i + k + (j - i) = j + k
      BY <1>2, <1>7, <2>2 DEF n
    <3>2. new[j] = tail[j - i]
      BY <1>3, <1>6, <1>7, <2>2
    <3>3. tail[j - i] = t[i + k + (j - i)]
      BY <1>4, <3>1
    <3> QED
      BY <2>2, <3>1, <3>2, <3>3
  <2> QED
    BY <2>1, <2>2
<1> HIDE DEF places
<1>12. new \in TextOf(c) /\ (Sorted(t) => Sorted(new))
  <2>1. new \in Seq(Chars) /\ Len(new) >= 1 /\ places \in [1..Len(new) -> 1..Len(t)]
    BY <1>6, <1>7, <1>8, <1>9
  <2>2. /\ \A j, m \in 1..Len(new) : j < m => places[j] < places[m]
        /\ \A j \in 1..Len(new) : new[j] = t[places[j]]
    BY <1>8, <1>10, <1>11
  <2> QED
    BY <1>10, <2>1, <2>2, RootIsRoot, FewerKeepText DEF TextOf, Chars
<1> QED
  BY <1>5, <1>8, <1>12 DEF new, n

(* What is cut out is fit to be sent.                                        *)
LEMMA CutOutIsSendable ==
    ASSUME NEW c \in Nat, NEW t \in TextOf(c), NEW k \in Nat, NEW i \in 1..Len(t), i + k <= Len(t)
    PROVE  CutOut(t, i, k) \in Seq(Sendable)
<1>1. Len(t) \in Nat /\ \A j \in 2..Len(t) : t[j] \in Typed(Letters, c)
  BY DEF TextOf, Text
<1>2. ASSUME NEW j \in 1..k PROVE Written(t[i + j]) \in Sendable
  <2>1. i + j \in 2..Len(t)
    BY <1>1
  <2> QED
    BY <1>1, <2>1, WrittenIsAsWritten DEF Sendable
<1> QED
  BY <1>2 DEF CutOut

-----------------------------------------------------------------------------
(* Typing.  Next is <<>> after the last character.                           *)

NextTo(t, i) == IF i = Len(t) THEN <<>> ELSE t[i + 1].position
TypedAfter(c, t, i, letter) ==
    [c |-> letter, creator |-> c,
     position |-> NewPosition(t[i].position, NextTo(t, i), i = Len(t), Fresh(t))]

LEMMA Neighbours ==
    ASSUME NEW c, NEW t \in TextOf(c), NEW i \in 1..Len(t)
    PROVE  /\ t[i].position \in Position /\ t[i].position # <<>>
           /\ NextTo(t, i) \in Position /\ Fresh(t) \in Nat
           /\ i # Len(t) => EndsAboveZero(Numbers(NextTo(t, i)))
           /\ i # Len(t) /\ Sorted(t) => Before(Place(t[i]), Numbers(NextTo(t, i)))
<1>1. /\ Len(t) \in Nat /\ DOMAIN t = 1..Len(t)
      /\ \A j \in 1..Len(t) : t[j].position \in Position
      /\ \A j \in 2..Len(t) : EndsAboveZero(Place(t[j]))
  <2>1. DOMAIN t = 1..Len(t)
    BY DEF TextOf, Text
  <2> QED
    BY <2>1, RootIsRoot, PlacesOfText DEF TextOf
<1>2. t[i].position \in Position /\ t[i].position # <<>>
  BY NoEmptyPosition
<1>3. Fresh(t) \in Nat
  BY <1>1, FreshIsNumber
<1>4. CASE i = Len(t)
  <2>1. NextTo(t, i) = <<>> /\ <<>> \in Position
    BY <1>4, EmptySeq DEF NextTo, Position
  <2> QED
    BY <1>2, <1>3, <1>4, <2>1
<1>5. CASE i # Len(t)
  <2>1. i + 1 \in 2..Len(t) /\ i + 1 \in 1..Len(t) /\ i < i + 1
    <3> DEFINE n == Len(t)
    <3>1. n \in Nat /\ i \in 1..n /\ i # n
      BY <1>1, <1>5
    <3> HIDE DEF n
    <3>2. i + 1 \in 2..n /\ i + 1 \in 1..n /\ i < i + 1
      BY <3>1
    <3> QED
      BY <3>2 DEF n
  <2>2. NextTo(t, i) = t[i + 1].position
    BY <1>5 DEF NextTo
  <2>3. EndsAboveZero(Numbers(NextTo(t, i))) /\ NextTo(t, i) \in Position
    BY <1>1, <2>1, <2>2 DEF Place
  <2>4. Sorted(t) => Before(Place(t[i]), Place(t[i + 1]))
    BY <2>1 DEF Sorted
  <2> QED
    BY <1>2, <1>3, <2>2, <2>3, <2>4 DEF Place
<1> QED
  BY <1>4, <1>5

LEMMA TypingKeepsText ==
    ASSUME NEW c \in Nat, NEW t \in TextOf(c), NEW i \in 1..Len(t), NEW letter \in Letters,
           ~Throws(t[i].position, NextTo(t, i), i = Len(t))
    PROVE  /\ TypedAfter(c, t, i, letter) \in Typed(Letters, c)
           /\ InsertAt(t, i + 1, TypedAfter(c, t, i, letter)) \in TextOf(c)
           /\ Sorted(t) /\ ~Misread(t[i].position, NextTo(t, i))
                => Sorted(InsertAt(t, i + 1, TypedAfter(c, t, i, letter)))
<1> DEFINE prev == t[i].position
           next == NextTo(t, i)
           atEnd == i = Len(t)
           box == Fresh(t)
           position == NewPosition(prev, next, atEnd, box)
           char == TypedAfter(c, t, i, letter)
           new == InsertAt(t, i + 1, char)
           Chars == {Root} \cup Typed(Letters, c)
<1>1. /\ prev \in Position /\ prev # <<>> /\ next \in Position /\ box \in Nat
      /\ ~atEnd => EndsAboveZero(Numbers(next))
      /\ ~atEnd /\ Sorted(t) => Before(Numbers(prev), Numbers(next))
  BY Neighbours DEF Place
<1>2. atEnd \in BOOLEAN /\ (atEnd => next = <<>>) /\ ~Throws(prev, next, atEnd)
  BY DEF NextTo
<1>3. char = [c |-> letter, creator |-> c, position |-> position]
  BY DEF TypedAfter
<1>4. t \in Seq(Chars) /\ Len(t) \in Nat
  BY DEF TextOf, Text
<1> HIDE DEF prev, next, box, char
<1>5. position \in Position /\ EndsAboveZero(Numbers(position))
  <2> DEFINE last == atEnd
  <2>1. /\ last \in BOOLEAN /\ (last => next = <<>>) /\ ~Throws(prev, next, last)
        /\ ~last => EndsAboveZero(Numbers(next))
    BY <1>1, <1>2
  <2> HIDE DEF last
  <2>2. /\ NewPosition(prev, next, last, box) \in Position
        /\ EndsAboveZero(Numbers(NewPosition(prev, next, last, box)))
    BY <1>1, <2>1, NewPositionEndsAboveZero
  <2> QED
    BY <2>2 DEF last
<1>6. ASSUME Sorted(t), ~Misread(prev, next)
      PROVE  /\ Before(Numbers(prev), Numbers(position))
             /\ ~atEnd => Before(Numbers(position), Numbers(next))
  <2> DEFINE last == atEnd
  <2>1. /\ last \in BOOLEAN /\ (last => next = <<>>) /\ ~Throws(prev, next, last)
        /\ ~last => EndsAboveZero(Numbers(next)) /\ Before(Numbers(prev), Numbers(next))
    BY <1>1, <1>2, <1>6
  <2> HIDE DEF last
  <2>2. /\ Before(Numbers(prev), Numbers(NewPosition(prev, next, last, box)))
        /\ ~last => Before(Numbers(NewPosition(prev, next, last, box)), Numbers(next))
    BY <1>1, <1>6, <2>1, NewPositionIsBetween
  <2> QED
    BY <2>2 DEF last
<1> HIDE DEF position
<1>7. char \in Typed(Letters, c)
  BY <1>3, <1>5 DEF Typed
<1>8. char \in Chars /\ i + 1 \in 1..(Len(t) + 1) /\ i + 1 \in 2..(Len(t) + 1)
  BY <1>4, <1>7
<1> HIDE DEF Chars
<1> DEFINE m == i + 1
<1>9. new \in Seq(Chars) /\ With(new, t, m, char) /\ m \in 2..(Len(t) + 1)
  <2>1. m \in 1..(Len(t) + 1) /\ m \in 2..(Len(t) + 1)
    BY <1>8
  <2> HIDE DEF m
  <2>2. InsertAt(t, m, char) \in Seq(Chars) /\ With(InsertAt(t, m, char), t, m, char)
    BY <1>4, <1>8, <2>1, Inserted
  <2> QED
    BY <2>1, <2>2 DEF m, new
<1> HIDE DEF new, m
<1>10. new \in TextOf(c)
  BY <1>7, <1>9, OneMoreIsText DEF TextOf, Chars
<1>11. ASSUME Sorted(t), ~Misread(prev, next) PROVE Sorted(new)
  <2>1. Place(char) = Numbers(position) /\ Place(t[i]) = Numbers(prev)
    BY <1>3 DEF Place, prev
  <2>2. Before(Place(t[i]), Place(char))
    BY <1>6, <1>11, <2>1
  <2>3. ASSUME i + 1 <= Len(t) PROVE Before(Place(char), Place(t[i + 1]))
    <3>1. ~atEnd
      BY <1>4, <2>3
    <3>2. Place(t[i + 1]) = Numbers(next)
      BY <3>1 DEF Place, next, NextTo
    <3> QED
      BY <1>6, <1>11, <2>1, <3>1, <3>2
  <2>4. m - 1 = i /\ (m <= Len(t) => Before(Place(char), Place(t[m])))
    BY <2>3 DEF m
  <2>5. Before(Place(t[m - 1]), Place(char))
    BY <2>2, <2>4
  <2> QED
    BY <1>7, <1>9, <1>11, <2>4, <2>5, RootIsRoot, OneMoreIsSorted DEF TextOf, Chars
<1> QED
  BY <1>7, <1>10, <1>11 DEF new, char, prev, next, m

-----------------------------------------------------------------------------
(* The invariant.                                                            *)

TextsShape ==
    /\ text = [c \in Client |-> text[c]]
    /\ \A c \in Client : text[c] \in TextOf(c)

BuffersShape ==
    /\ added \in [Client -> Seq(Sendable)] /\ deleted \in [Client -> Seq(Sendable)]
    /\ inbox \in [Client -> Seq(Edits)]
    /\ note \in Edits

OtherShape ==
    /\ joined \subseteq Client
    /\ up \in BOOLEAN /\ reused \in BOOLEAN /\ misread \in BOOLEAN
    /\ foreign \in BOOLEAN /\ revived \in BOOLEAN
    /\ typed \in 0..MaxTyped /\ removed \in 0..MaxRemoved

InOrder == misread \/ \A c \in Client : Sorted(text[c])

IInv == TextsShape /\ BuffersShape /\ OtherShape /\ InOrder

LEMMA InitIInv == Init => IInv
<1> SUFFICES ASSUME Init PROVE IInv
  OBVIOUS
<1>1. ASSUME NEW c \in Client PROVE <<Root>> \in TextOf(c) /\ Sorted(<<Root>>)
  <2>1. <<Root>> \in Seq({Root} \cup Typed(Letters, c)) /\ <<Root>> # <<>> /\ <<Root>>[1] = Root
    OBVIOUS
  <2>2. Len(<<Root>>) = 1 /\ 2..1 = {}
    OBVIOUS
  <2>3. <<Root>> \in TextOf(c)
    BY <2>1, <2>2 DEF TextOf, Text
  <2>4. Sorted(<<Root>>)
    BY <2>2 DEF Sorted
  <2> QED
    BY <2>3, <2>4
<1>2. text = [c \in Client |-> <<Root>>]
  BY DEF Init
<1>3. TextsShape /\ InOrder
  BY <1>1, <1>2 DEF TextsShape, InOrder
<1>4. Kept \in Seq(Sendable)
  <2>1. Kept \in Seq(WrittenChar) /\ \A i \in DOMAIN Kept : /\ Kept[i].position # <<>>
                                                            /\ Last(Kept[i].position) >= 1
    BY ClientAssumption
  <2>2. ASSUME NEW i \in DOMAIN Kept PROVE Kept[i] \in Sendable
    <3>1. Kept[i] \in WrittenChar
      BY <2>1
    <3>2. EndsAboveZero(Kept[i].position)
      BY <2>1 DEF EndsAboveZero, Last
    <3> QED
      BY <3>1, <3>2 DEF Sendable, AsWritten, WrittenChar, Letters
  <2>3. Len(Kept) \in Nat /\ DOMAIN Kept = 1..Len(Kept) /\ Kept = [i \in 1..Len(Kept) |-> Kept[i]]
    BY <2>1
  <2> QED
    BY <2>2, <2>3
<1>5. <<>> \in Seq(Sendable) /\ <<>> \in Seq(Edits)
  BY EmptySeq
<1>6. BuffersShape
  BY <1>4, <1>5 DEF BuffersShape, Init, Nothing, Edits
<1>7. OtherShape
  <2>1. typed \in 0..MaxTyped /\ removed \in 0..MaxRemoved
    <3>1. typed = 0 /\ removed = 0 /\ MaxTyped \in Nat /\ MaxRemoved \in Nat
      BY ClientAssumption DEF Init
    <3> QED
      BY <3>1
  <2>2. /\ joined \subseteq Client /\ up \in BOOLEAN /\ reused \in BOOLEAN
        /\ misread \in BOOLEAN /\ foreign \in BOOLEAN /\ revived \in BOOLEAN
    BY DEF Init
  <2> QED
    BY <2>1, <2>2 DEF OtherShape
<1> QED
  BY <1>3, <1>6, <1>7 DEF IInv

(* One client's text changes.                                                *)
LEMMA TextChanges ==
    ASSUME TextsShape, NEW c \in Client, NEW new \in TextOf(c), text' = [text EXCEPT ![c] = new]
    PROVE  /\ TextsShape'
           /\ (\A d \in Client : Sorted(text[d])) /\ Sorted(new)
                => \A d \in Client : Sorted(text'[d])
<1>1. ASSUME NEW d \in Client PROVE text'[d] = IF d = c THEN new ELSE text[d]
  BY DEF TextsShape
<1>2. \A d \in Client : text'[d] \in TextOf(d)
  BY <1>1 DEF TextsShape
<1>3. text' = [d \in Client |-> text'[d]]
  BY DEF TextsShape
<1>4. TextsShape'
  BY <1>2, <1>3 DEF TextsShape, TextOf
<1> QED
  BY <1>1, <1>4

(* What is cut out goes to the buffer of what was deleted.                   *)
LEMMA RemoveMultipleKeepsShape ==
    ASSUME IInv, NEW c \in Client, NEW i \in 1..Len(text[c]), NEW k \in Nat,
           i + k <= Len(text[c]), RemoveMultiple(c, i, k)
    PROVE  /\ deleted' \in [Client -> Seq(Sendable)]
           /\ foreign' \in BOOLEAN /\ removed' \in 0..MaxRemoved
<1> DEFINE cut == CutOut(text[c], i, k)
<1>1. cut \in Seq(Sendable)
  <2>1. c \in Nat /\ text[c] \in TextOf(c)
    BY ClientAssumption DEF IInv, TextsShape
  <2> QED
    BY <2>1, CutOutIsSendable
<1>2. /\ removed + k <= MaxRemoved /\ removed' = removed + k
      /\ deleted' = [deleted EXCEPT ![c] = @ \o cut]
      /\ foreign' = (foreign \/ NotOnlyOwn(c, cut))
  BY DEF RemoveMultiple
<1> HIDE DEF cut
<1>3. deleted \in [Client -> Seq(Sendable)]
  BY DEF IInv, BuffersShape
<1>4. deleted[c] \o cut \in Seq(Sendable)
  <2>1. deleted[c] \in Seq(Sendable)
    BY <1>3
  <2> QED
    BY <1>1, <2>1, ConcatProperties
<1>5. deleted' \in [Client -> Seq(Sendable)]
  BY <1>2, <1>3, <1>4
<1>6. removed' \in 0..MaxRemoved
  BY <1>2, ClientAssumption DEF IInv, OtherShape
<1>7. foreign' \in BOOLEAN
  BY <1>2
<1> QED
  BY <1>5, <1>6, <1>7

LEMMA TypeKeepsIInv ==
    ASSUME IInv, NEW c \in Client, NEW i \in 1..Len(text[c]), NEW k \in Nat, NEW letter \in Letter,
           Type(c, i, k, letter)
    PROVE  IInv'
<1> DEFINE t == text[c]
           rest == Cut(t, i, k)
           prev == rest[i].position
           next == NextTo(rest, i)
           atEnd == i = Len(rest)
           char == TypedAfter(c, rest, i, letter)
           new == InsertAt(rest, i + 1, char)
<1>1. /\ i + k <= Len(t) /\ typed < MaxTyped /\ typed' = typed + 1
      /\ RemoveMultiple(c, i, k)
      /\ IF Throws(prev, next, atEnd)
         THEN /\ text' = [text EXCEPT ![c] = rest]
              /\ UNCHANGED <<added, given, reused, misread>>
         ELSE /\ text' = [text EXCEPT ![c] = new]
              /\ added' = [added EXCEPT ![c] = Append(@, Written(char))]
              /\ reused' = (reused \/ \E g \in given : g.position = Numbers(char.position))
              /\ misread' = (misread \/ Misread(prev, next))
      /\ UNCHANGED <<joined, inbox, note, up, revived>>
  BY DEF Type, NextTo, TypedAfter
<1>2. c \in Nat /\ t \in TextOf(c) /\ i \in 1..Len(t) /\ letter \in Letters
  BY ClientAssumption DEF IInv, TextsShape, Letters
<1>3. /\ rest \in TextOf(c) /\ Len(rest) = Len(t) - k
      /\ Sorted(t) => Sorted(rest)
  BY <1>1, <1>2, CutKeepsText
<1>4. i \in 1..Len(rest)
  <2> DEFINE n == Len(t)
             m == Len(rest)
  <2>1. n \in Nat /\ m = n - k /\ i \in 1..n /\ i + k <= n
    BY <1>1, <1>2, <1>3 DEF TextOf, Text
  <2> HIDE DEF n, m
  <2> QED
    BY <2>1 DEF m
<1> HIDE DEF rest
<1>5. ~Throws(prev, next, atEnd) =>
        /\ char \in Typed(Letters, c) /\ new \in TextOf(c)
        /\ Sorted(rest) /\ ~Misread(prev, next) => Sorted(new)
  BY <1>2, <1>3, <1>4, TypingKeepsText
<1>6. /\ deleted' \in [Client -> Seq(Sendable)]
      /\ foreign' \in BOOLEAN /\ removed' \in 0..MaxRemoved
  BY <1>1, RemoveMultipleKeepsShape
<1>7. typed' \in 0..MaxTyped
  BY <1>1, ClientAssumption DEF IInv, OtherShape
<1>8. added \in [Client -> Seq(Sendable)] /\ inbox' \in [Client -> Seq(Edits)] /\ note' \in Edits
  BY <1>1 DEF IInv, BuffersShape
<1>9. /\ joined' \subseteq Client /\ up' \in BOOLEAN /\ revived' \in BOOLEAN
      /\ reused \in BOOLEAN /\ misread \in BOOLEAN
  BY <1>1 DEF IInv, OtherShape
<1>10. TextsShape /\ InOrder
  BY DEF IInv
<1>11. misread \/ \A d \in Client : Sorted(text[d])
  BY <1>10 DEF InOrder
<1> HIDE DEF prev, next, atEnd, char, new
<1>12. CASE Throws(prev, next, atEnd)
  <2>1. /\ text' = [text EXCEPT ![c] = rest]
        /\ added' = added /\ reused' = reused /\ misread' = misread
    BY <1>1, <1>12
  <2>2. TextsShape' /\ ((\A d \in Client : Sorted(text[d])) /\ Sorted(rest)
                           => \A d \in Client : Sorted(text'[d]))
    BY <1>3, <1>10, <2>1, TextChanges
  <2>3. InOrder'
    BY <1>3, <1>11, <2>1, <2>2 DEF InOrder
  <2>4. BuffersShape'
    BY <1>6, <1>8, <2>1 DEF BuffersShape
  <2>5. OtherShape'
    BY <1>6, <1>7, <1>9, <2>1 DEF OtherShape
  <2> QED
    BY <2>2, <2>3, <2>4, <2>5 DEF IInv
<1>13. CASE ~Throws(prev, next, atEnd)
  <2>1. /\ text' = [text EXCEPT ![c] = new]
        /\ added' = [added EXCEPT ![c] = Append(@, Written(char))]
        /\ reused' = (reused \/ \E g \in given : g.position = Numbers(char.position))
        /\ misread' = (misread \/ Misread(prev, next))
    BY <1>1, <1>13
  <2>2. TextsShape' /\ ((\A d \in Client : Sorted(text[d])) /\ Sorted(new)
                           => \A d \in Client : Sorted(text'[d]))
    BY <1>5, <1>10, <1>13, <2>1, TextChanges
  <2>3. InOrder'
    <3>1. CASE misread'
      BY <3>1 DEF InOrder
    <3>2. CASE ~misread'
      <4>1. ~misread /\ ~Misread(prev, next)
        BY <2>1, <3>2
      <4>2. Sorted(new)
        BY <1>3, <1>5, <1>11, <1>13, <4>1
      <4> QED
        BY <1>11, <2>2, <4>1, <4>2 DEF InOrder
    <3> QED
      BY <3>1, <3>2
  <2>4. added' \in [Client -> Seq(Sendable)]
    <3>1. Written(char) \in Sendable
      BY <1>2, <1>5, <1>13, WrittenIsAsWritten DEF Sendable
    <3>2. Append(added[c], Written(char)) \in Seq(Sendable)
      BY <1>8, <3>1
    <3> QED
      BY <1>8, <2>1, <3>2
  <2>5. BuffersShape'
    BY <1>6, <1>8, <2>4 DEF BuffersShape
  <2>6. reused' \in BOOLEAN /\ misread' \in BOOLEAN
    BY <2>1
  <2>7. OtherShape'
    BY <1>6, <1>7, <1>9, <2>6 DEF OtherShape
  <2> QED
    BY <2>2, <2>3, <2>5, <2>7 DEF IInv
<1> QED
  BY <1>12, <1>13

LEMMA DeleteKeepsIInv ==
    ASSUME IInv, NEW c \in Client, NEW i \in 1..Len(text[c]), NEW k \in Nat, Delete(c, i, k)
    PROVE  IInv'
<1> DEFINE rest == Cut(text[c], i, k)
<1>1. /\ i + k <= Len(text[c]) /\ RemoveMultiple(c, i, k)
      /\ text' = [text EXCEPT ![c] = Cut(@, i, k)]
      /\ UNCHANGED <<joined, added, inbox, note, up, given, reused, misread, revived, typed>>
  BY DEF Delete
<1>2. text[c] \in TextOf(c) /\ text' = [text EXCEPT ![c] = rest]
  BY <1>1 DEF IInv, TextsShape
<1>3. rest \in TextOf(c) /\ (Sorted(text[c]) => Sorted(rest))
  BY <1>1, <1>2, CutKeepsText
<1> HIDE DEF rest
<1>4. TextsShape' /\ ((\A d \in Client : Sorted(text[d])) /\ Sorted(rest)
                         => \A d \in Client : Sorted(text'[d]))
  BY <1>2, <1>3, TextChanges DEF IInv
<1>5. InOrder'
  BY <1>1, <1>3, <1>4 DEF IInv, InOrder
<1>6. /\ deleted' \in [Client -> Seq(Sendable)]
      /\ foreign' \in BOOLEAN /\ removed' \in 0..MaxRemoved
  BY <1>1, RemoveMultipleKeepsShape
<1>7. BuffersShape'
  BY <1>1, <1>6 DEF IInv, BuffersShape
<1>8. OtherShape'
  BY <1>1, <1>6 DEF IInv, OtherShape
<1> QED
  BY <1>4, <1>5, <1>7, <1>8 DEF IInv

(* The rest leaves texts alone, or is the receiver's.                        *)
LEMMA TextsUntouched ==
    ASSUME IInv, text' = text, misread' = misread
    PROVE  TextsShape' /\ InOrder'
BY DEF IInv, TextsShape, InOrder, TextOf

LEMMA SendChangesKeepsIInv ==
    ASSUME IInv, NEW c \in Client, SendChanges(c)
    PROVE  IInv'
<1> DEFINE edit == [added |-> added[c], deleted |-> deleted[c]]
<1>1. /\ added' = [added EXCEPT ![c] = <<>>] /\ deleted' = [deleted EXCEPT ![c] = <<>>]
      /\ up' \in {up, FALSE}
      /\ IF up'
         THEN /\ note' = [added |-> note.added \o edit.added,
                          deleted |-> note.deleted \o edit.deleted]
              /\ inbox' = [d \in Client |-> IF d \in joined \ {c} THEN Append(inbox[d], edit)
                                                                 ELSE inbox[d]]
         ELSE UNCHANGED <<note, inbox>>
      /\ UNCHANGED <<joined, text, given, reused, misread, foreign, revived, typed, removed>>
  BY DEF SendChanges
<1>2. /\ added \in [Client -> Seq(Sendable)] /\ deleted \in [Client -> Seq(Sendable)]
      /\ inbox \in [Client -> Seq(Edits)] /\ note \in Edits
  BY DEF IInv, BuffersShape
<1>3. edit \in Edits
  BY <1>2 DEF Edits
<1>4. added' \in [Client -> Seq(Sendable)] /\ deleted' \in [Client -> Seq(Sendable)]
  <2>1. <<>> \in Seq(Sendable)
    BY EmptySeq
  <2> QED
    BY <1>1, <1>2, <2>1
<1>5. note' \in Edits
  <2>1. /\ note.added \o edit.added \in Seq(Sendable)
        /\ note.deleted \o edit.deleted \in Seq(Sendable)
    <3>1. /\ note.added \in Seq(Sendable) /\ edit.added \in Seq(Sendable)
          /\ note.deleted \in Seq(Sendable) /\ edit.deleted \in Seq(Sendable)
      BY <1>2, <1>3 DEF Edits
    <3> HIDE DEF edit
    <3> QED
      BY <3>1, ConcatProperties
  <2> HIDE DEF edit
  <2>2. CASE up'
    <3> DEFINE a == note.added \o edit.added
               d == note.deleted \o edit.deleted
    <3>1. note' = [added |-> a, deleted |-> d]
      BY <1>1, <2>2
    <3>2. a \in Seq(Sendable) /\ d \in Seq(Sendable)
      BY <2>1
    <3> HIDE DEF a, d
    <3> QED
      BY <3>1, <3>2 DEF Edits
  <2>3. CASE ~up'
    BY <1>1, <1>2, <2>3
  <2> QED
    BY <2>2, <2>3
<1> HIDE DEF edit
<1>6. inbox' \in [Client -> Seq(Edits)]
  <2>1. \A d \in Client : Append(inbox[d], edit) \in Seq(Edits)
    BY <1>2, <1>3
  <2> QED
    BY <1>1, <1>2, <2>1
<1>7. BuffersShape'
  BY <1>4, <1>5, <1>6 DEF BuffersShape
<1>8. up' \in BOOLEAN
  BY <1>1 DEF IInv, OtherShape
<1>9. OtherShape'
  BY <1>1, <1>8 DEF IInv, OtherShape
<1> QED
  BY <1>1, <1>7, <1>9, TextsUntouched DEF IInv

LEMMA ApplyKeepsIInv ==
    ASSUME IInv, NEW c \in Client, Apply(c)
    PROVE  IInv'
<1> DEFINE edit == Head(inbox[c])
           new == applyChanges(text[c], edit, c)
<1>1. /\ inbox[c] # <<>> /\ inbox' = [inbox EXCEPT ![c] = Tail(@)]
      /\ text' = [text EXCEPT ![c] = new]
      /\ UNCHANGED <<joined, added, deleted, note, up, given, reused, misread, foreign, revived,
                     typed, removed>>
  BY DEF Apply
<1>2. inbox \in [Client -> Seq(Edits)] /\ inbox[c] \in Seq(Edits)
  BY DEF IInv, BuffersShape
<1>3. edit \in Edits /\ Tail(inbox[c]) \in Seq(Edits)
  BY <1>1, <1>2, HeadTailProperties
<1>4. edit.added \in Seq(Sendable) /\ Len(edit.deleted) \in Nat
  BY <1>3 DEF Edits
<1>5. c \in Nat /\ text[c] \in TextOf(c)
  BY ClientAssumption DEF IInv, TextsShape
<1> HIDE DEF edit
<1>6. new \in TextOf(c) /\ (Sorted(text[c]) => Sorted(new))
  BY <1>4, <1>5, RootIsRoot, applyChangesKeepsText DEF TextOf, Sendable
<1> HIDE DEF new
<1>7. TextsShape' /\ ((\A d \in Client : Sorted(text[d])) /\ Sorted(new)
                         => \A d \in Client : Sorted(text'[d]))
  BY <1>1, <1>6, TextChanges DEF IInv
<1>8. InOrder'
  BY <1>1, <1>6, <1>7 DEF IInv, InOrder
<1>9. inbox' \in [Client -> Seq(Edits)]
  BY <1>1, <1>2, <1>3
<1>10. BuffersShape'
  BY <1>1, <1>9 DEF IInv, BuffersShape
<1>11. OtherShape'
  BY <1>1 DEF IInv, OtherShape
<1> QED
  BY <1>7, <1>8, <1>10, <1>11 DEF IInv

LEMMA JoinKeepsIInv ==
    ASSUME IInv, NEW c \in Client, Join(c)
    PROVE  IInv'
<1>1. /\ joined' = joined \cup {c} /\ revived' = (revived \/ foreign)
      /\ inbox' = [inbox EXCEPT ![c] = <<[added |-> Left(note), deleted |-> <<>>]>>]
      /\ UNCHANGED <<text, added, deleted, note, up, given, reused, misread, foreign, typed, removed>>
  BY DEF Join
<1>2. inbox \in [Client -> Seq(Edits)] /\ note \in Edits
  BY DEF IInv, BuffersShape
<1>3. Left(note) \in Seq(Sendable) /\ <<>> \in Seq(Sendable)
  BY <1>2, LeftIsWritten, EmptySeq DEF Edits
<1>4. <<[added |-> Left(note), deleted |-> <<>>]>> \in Seq(Edits)
  BY <1>3 DEF Edits
<1>5. inbox' \in [Client -> Seq(Edits)]
  BY <1>1, <1>2, <1>4
<1>6. BuffersShape'
  BY <1>1, <1>5 DEF IInv, BuffersShape
<1>7. revived' \in BOOLEAN
  BY <1>1
<1>8. OtherShape'
  BY <1>1, <1>7 DEF IInv, OtherShape
<1> QED
  BY <1>1, <1>6, <1>8, TextsUntouched DEF IInv

(* Every step keeps the invariant.                                           *)
LEMMA NextKeepsIInv == IInv /\ [Next]_vars => IInv'
<1> SUFFICES ASSUME IInv, [Next]_vars PROVE IInv'
  OBVIOUS
<1>1. CASE Next
  <2>1. ASSUME NEW c \in Client, NEW i \in 1..Len(text[c]), NEW k \in 0..1, NEW letter \in Letter,
               Type(c, i, k, letter)
        PROVE  IInv'
    BY <2>1, TypeKeepsIInv
  <2>2. ASSUME NEW c \in Client, NEW i \in 1..Len(text[c]), NEW k \in 1..MaxRemoved, Delete(c, i, k)
        PROVE  IInv'
    <3>1. k \in Nat
      BY ClientAssumption
    <3> QED
      BY <2>2, <3>1, DeleteKeepsIInv
  <2>3. ASSUME NEW c \in Client, SendChanges(c) PROVE IInv'
    BY <2>3, SendChangesKeepsIInv
  <2>4. ASSUME NEW c \in Client, Apply(c) PROVE IInv'
    BY <2>4, ApplyKeepsIInv
  <2>5. ASSUME NEW c \in Client, Join(c) PROVE IInv'
    BY <2>5, JoinKeepsIInv
  <2> QED
    BY <1>1, <2>1, <2>2, <2>3, <2>4, <2>5 DEF Next
<1>2. CASE UNCHANGED vars
  BY <1>2 DEF vars, IInv, TextsShape, BuffersShape, OtherShape, InOrder, TextOf
<1> QED
  BY <1>1, <1>2

(* Whatever is typed, sent, lost with the server or received, the invariant  *)
(* holds (Notepad.java and the order in which Client.java calls it).         *)
THEOREM Inductive == Spec => []IInv
<1>1. Init => IInv
  BY InitIInv
<1>2. IInv /\ [Next]_vars => IInv'
  BY NextKeepsIInv
<1> QED
  BY <1>1, <1>2, PTL DEF Spec

(* Texts, buffers, what is on its way and the server's note hold characters  *)
(* of the kinds declared.                                                    *)
THEOREM TypeCorrect == Spec => []TypeOK
<1>1. IInv => TypeOK
  <2> SUFFICES ASSUME IInv PROVE TypeOK
    OBVIOUS
  <2>1. Sendable \subseteq WrittenChar
    BY DEF Sendable, AsWritten, WrittenChar, Letters
  <2>2. Seq(Sendable) \subseteq Seq(WrittenChar)
    BY <2>1
  <2>3. Edits \subseteq Edit
    BY <2>2 DEF Edits, Edit
  <2>4. Seq(Edits) \subseteq Seq(Edit)
    BY <2>3
  <2>5. ASSUME NEW c \in Client
        PROVE  /\ text[c][1] = Root
               /\ \A i \in 2..Len(text[c]) : Written(text[c][i]) \in WrittenChar
               /\ added[c] \in Seq(WrittenChar) /\ deleted[c] \in Seq(WrittenChar)
               /\ inbox[c] \in Seq(Edit)
    <3>1. c \in Nat /\ text[c] \in TextOf(c)
      BY ClientAssumption DEF IInv, TextsShape
    <3>2. text[c][1] = Root /\ \A i \in 2..Len(text[c]) : text[c][i] \in Typed(Letters, c)
      BY <3>1 DEF TextOf, Text
    <3>3. \A i \in 2..Len(text[c]) : Written(text[c][i]) \in WrittenChar
      BY <2>1, <3>1, <3>2, WrittenIsAsWritten DEF Sendable
    <3>4. /\ added[c] \in Seq(Sendable) /\ deleted[c] \in Seq(Sendable) /\ inbox[c] \in Seq(Edits)
      BY DEF IInv, BuffersShape
    <3> QED
      BY <2>2, <2>4, <3>2, <3>3, <3>4
  <2>6. note \in Edit
    BY <2>3 DEF IInv, BuffersShape
  <2> QED
    BY <2>5, <2>6 DEF TypeOK, IInv, OtherShape
<1> QED
  BY <1>1, Inductive, PTL

(* Every client's text stays sorted by position, with no position twice,     *)
(* whatever is typed, deleted, sent and received in whatever order, unless   *)
(* getChar has taken equal numbers for different ones.                       *)
THEOREM SortedAlways == Spec => []TextSorted
<1>1. IInv => TextSorted
  <2> SUFFICES ASSUME IInv, ~misread, NEW c \in Client, NEW i \in 1..Len(text[c]) - 1
               PROVE  ComparePositions(Numbers(text[c][i].position),
                                       Numbers(text[c][i + 1].position)) = -1
    BY DEF TextSorted
  <2>1. text[c] \in TextOf(c) /\ Sorted(text[c])
    BY DEF IInv, TextsShape, InOrder
  <2>2. Len(text[c]) \in Nat /\ \A j \in 1..Len(text[c]) : Place(text[c][j]) \in Seq(Nat)
    BY <2>1, RootIsRoot, PlacesOfText DEF TextOf
  <2>3. i \in 1..Len(text[c]) /\ i + 1 \in 1..Len(text[c]) /\ i < i + 1
    BY <2>2
  <2>4. Before(Place(text[c][i]), Place(text[c][i + 1]))
    BY <2>1, <2>3 DEF Sorted
  <2>5. Place(text[c][i]) \in Seq(Nat) /\ Place(text[c][i + 1]) \in Seq(Nat)
    BY <2>2, <2>3
  <2> QED
    BY <2>4, <2>5, ComparedByPlace DEF Place
<1> QED
  BY <1>1, Inductive, PTL

(* What is written shows what the character shows.                          *)
LEMMA WrittenShown ==
    ASSUME NEW char
    PROVE  Key(Written(char)) = Mark(char)
BY DEF Key, Written, Mark, Place

(* What is cut out is no longer shown; everything else is.                  *)
LEMMA CutShows ==
    ASSUME NEW c, NEW t \in TextOf(c), NEW k \in Nat, NEW i \in 1..Len(t), i + k <= Len(t), Sorted(t)
    PROVE  /\ Marks(Cut(t, i, k)) = Marks(t) \ Keys(CutOut(t, i, k))
           /\ Keys(CutOut(t, i, k)) \subseteq Marks(t)
<1> DEFINE Chars == {Root} \cup Typed(Letters, c)
           head == SubSeq(t, 1, i)
           tail == SubSeq(t, i + k + 1, Len(t))
           n == Len(t)
<1>1. t \in Seq(Chars)
  BY DEF TextOf, Text
<1>2. n \in Nat /\ n = Len(t) /\ i \in 1..n /\ i + k <= n
  BY <1>1
<1> HIDE DEF Chars
<1>3. /\ head \in Seq(Chars) /\ Len(head) = i
      /\ \A j \in 1..i : head[j] = t[j]
  BY <1>1, <1>2, SubSeqProperties
<1>4. /\ tail \in Seq(Chars) /\ Len(tail) = n - i - k
      /\ \A j \in 1..(n - i - k) : tail[j] = t[i + k + j]
  BY <1>1, <1>2, SubSeqProperties
<1>5. Cut(t, i, k) = head \o tail
  BY DEF Cut
<1> HIDE DEF head, tail
<1> DEFINE new == head \o tail
<1>6. /\ Len(new) = Len(head) + Len(tail)
      /\ \A j \in 1..(Len(head) + Len(tail)) :
             new[j] = IF j <= Len(head) THEN head[j] ELSE tail[j - Len(head)]
  <2>1. head \in Seq(Chars) /\ tail \in Seq(Chars)
    BY <1>3, <1>4
  <2> QED
    BY <2>1, ConcatProperties
<1> HIDE DEF new, n
<1>7. Len(new) = n - k
  BY <1>2, <1>3, <1>4, <1>6
<1>8. \A j \in 1..i : j \in 1..Len(new) /\ new[j] = t[j]
  BY <1>2, <1>3, <1>4, <1>6
<1>9. \A j \in (i + k + 1)..n : j - k \in 1..Len(new) /\ new[j - k] = t[j]
  <2> TAKE j \in (i + k + 1)..n
  <2>1. j - k - i \in 1..(n - i - k) /\ i + k + (j - k - i) = j /\ j - k \in 1..(Len(head) + Len(tail))
        /\ ~(j - k <= Len(head)) /\ j - k - Len(head) = j - k - i
    BY <1>2, <1>3, <1>4
  <2>2. new[j - k] = tail[j - k - Len(head)]
    BY <1>6, <2>1
  <2>3. tail[j - k - i] = t[i + k + (j - k - i)]
    BY <1>4, <2>1
  <2> QED
    BY <1>6, <2>1, <2>2, <2>3
<1> DEFINE cut == CutOut(t, i, k)
<1>10. Len(cut) = k /\ \A j \in 1..k : cut[j] = Written(t[i + j])
  BY DEF CutOut
<1> HIDE DEF cut
<1>11. Keys(cut) = {Mark(t[j]) : j \in (i + 1)..(i + k)}
  <2>1. ASSUME NEW j \in 1..k PROVE i + j \in (i + 1)..(i + k) /\ Key(cut[j]) = Mark(t[i + j])
    BY <1>2, <1>10, WrittenShown
  <2>2. ASSUME NEW j \in (i + 1)..(i + k) PROVE j - i \in 1..k /\ Key(cut[j - i]) = Mark(t[j])
    <3>1. j - i \in 1..k /\ i + (j - i) = j
      BY <1>2
    <3> QED
      BY <2>1, <3>1
  <2>3. Keys(cut) \subseteq {Mark(t[j]) : j \in (i + 1)..(i + k)}
    BY <1>10, <2>1 DEF Keys
  <2>4. {Mark(t[j]) : j \in (i + 1)..(i + k)} \subseteq Keys(cut)
    BY <1>10, <2>2 DEF Keys
  <2> QED
    BY <2>3, <2>4
<1>12. Keys(cut) \subseteq Marks(t)
  <2>1. \A j \in (i + 1)..(i + k) : j \in 2..Len(t)
    BY <1>2
  <2> QED
    BY <1>11, <2>1 DEF Marks
<1>13. \A j, m \in 1..n : Mark(t[j]) = Mark(t[m]) => j = m
  <2> SUFFICES ASSUME NEW j \in 1..n, NEW m \in 1..n, Mark(t[j]) = Mark(t[m]), j < m PROVE FALSE
    BY <1>2
  <2>1. Before(Place(t[j]), Place(t[m]))
    BY <1>2 DEF Sorted
  <2>2. Place(t[j]) \in Seq(Nat) /\ Place(t[m]) \in Seq(Nat)
    BY <1>2, RootIsRoot, PlacesOfText DEF TextOf
  <2>3. Place(t[j]) = Place(t[m])
    BY DEF Mark
  <2> QED
    BY <2>1, <2>2, <2>3, BeforeIsIrreflexive
<1>14. Marks(new) \subseteq Marks(t) \ Keys(cut)
  <2>1. ASSUME NEW j \in 2..Len(new) PROVE Mark(new[j]) \in Marks(t) \ Keys(cut)
    <3>1. CASE j <= i
      <4>1. new[j] = t[j] /\ j \in 2..Len(t) /\ j \in 1..n /\ j \notin (i + 1)..(i + k)
        BY <1>2, <1>8, <3>1
      <4>2. \A m \in (i + 1)..(i + k) : m \in 1..n /\ m # j
        BY <1>2, <4>1
      <4> QED
        BY <1>11, <1>13, <4>1, <4>2 DEF Marks
    <3>2. CASE j > i
      <4>1. j + k \in (i + k + 1)..n /\ j + k - k = j
        BY <1>2, <1>7, <3>2
      <4>2. new[j] = t[j + k] /\ j + k \in 2..Len(t) /\ j + k \in 1..n
        BY <1>2, <1>9, <4>1
      <4>3. \A m \in (i + 1)..(i + k) : m \in 1..n /\ m # j + k
        BY <1>2, <4>1
      <4> QED
        BY <1>11, <1>13, <4>2, <4>3 DEF Marks
    <3> QED
      BY <1>2, <3>1, <3>2
  <2> QED
    BY <2>1 DEF Marks
<1>15. Marks(t) \ Keys(cut) \subseteq Marks(new)
  <2>1. ASSUME NEW j \in 2..Len(t), Mark(t[j]) \notin Keys(cut)
        PROVE  \E m \in 2..Len(new) : Mark(t[j]) = Mark(new[m])
    <3>1. j \notin (i + 1)..(i + k)
      BY <1>11, <2>1
    <3>2. CASE j <= i
      <4>1. j \in 1..i
        BY <1>2, <3>2
      <4>2. j \in 1..Len(new) /\ new[j] = t[j]
        BY <1>8, <4>1
      <4>3. j \in 2..Len(new)
        BY <1>2, <1>7, <4>2
      <4> QED
        BY <4>2, <4>3
    <3>3. CASE j > i
      <4>1. j \in (i + k + 1)..n
        BY <1>2, <3>1, <3>3
      <4>2. j - k \in 2..Len(new) /\ new[j - k] = t[j]
        BY <1>2, <1>7, <1>9, <4>1
      <4> QED
        BY <4>2
    <3> QED
      BY <1>2, <3>2, <3>3
  <2> QED
    BY <2>1 DEF Marks
<1> QED
  BY <1>5, <1>12, <1>14, <1>15 DEF new, cut

(* What is typed is shown besides what was.                                 *)
LEMMA TypedShown ==
    ASSUME NEW c, NEW t \in TextOf(c), NEW i \in 1..Len(t), NEW char \in Typed(Letters, c)
    PROVE  Marks(InsertAt(t, i + 1, char)) = Marks(t) \cup {Mark(char)}
<1> DEFINE Chars == {Root} \cup Typed(Letters, c)
           m == i + 1
<1>1. t \in Seq(Chars) /\ char \in Chars /\ Len(t) \in Nat
  BY DEF TextOf, Text
<1>2. m \in 1..(Len(t) + 1) /\ m \in 2..(Len(t) + 1)
  BY <1>1
<1> HIDE DEF Chars, m
<1>3. With(InsertAt(t, m, char), t, m, char)
  BY <1>1, <1>2, Inserted
<1>4. Marks(InsertAt(t, m, char)) = Marks(t) \cup {Mark(char)}
  BY <1>1, <1>2, <1>3, OneMoreShown
<1> QED
  BY <1>4 DEF m

(* Only what a text shows counts.                                           *)
LEMMA NothingShown ==
    ASSUME NEW t, Len(t) = 1
    PROVE  Marks(t) = {}
<1>1. 2..Len(t) = {}
  OBVIOUS
<1> QED
  BY <1>1 DEF Marks

LEMMA KeysOfBoth ==
    ASSUME NEW W, NEW s \in Seq(W), NEW u \in Seq(W)
    PROVE  Keys(s \o u) = Keys(s) \cup Keys(u)
<1> DEFINE new == s \o u
           n == Len(s)
           m == Len(u)
<1>1. /\ n \in Nat /\ m \in Nat /\ Len(new) = n + m
      /\ \A i \in 1..(n + m) : new[i] = IF i <= n THEN s[i] ELSE u[i - n]
  BY ConcatProperties
<1> HIDE DEF new
<1>2. Keys(new) \subseteq Keys(s) \cup Keys(u)
  <2>1. ASSUME NEW i \in 1..(n + m) PROVE Key(new[i]) \in Keys(s) \cup Keys(u)
    <3>1. CASE i <= n
      <4>1. i \in 1..n /\ new[i] = s[i]
        BY <1>1, <3>1
      <4> QED
        BY <4>1 DEF Keys
    <3>2. CASE ~(i <= n)
      <4>1. i - n \in 1..m /\ new[i] = u[i - n]
        BY <1>1, <3>2
      <4> QED
        BY <4>1 DEF Keys
    <3> QED
      BY <3>1, <3>2
  <2> QED
    BY <1>1, <2>1 DEF Keys
<1>3. Keys(s) \subseteq Keys(new)
  <2>1. \A i \in 1..n : i \in 1..Len(new) /\ new[i] = s[i]
    BY <1>1
  <2> QED
    BY <2>1 DEF Keys
<1>4. Keys(u) \subseteq Keys(new)
  <2>1. \A i \in 1..m : i + n \in 1..Len(new) /\ new[i + n] = u[i]
    <3> TAKE i \in 1..m
    <3>1. i + n \in 1..(n + m) /\ ~(i + n <= n) /\ (i + n) - n = i
      BY <1>1
    <3> QED
      BY <1>1, <3>1
  <2> QED
    BY <2>1 DEF Keys
<1> QED
  BY <1>2, <1>3, <1>4 DEF new

LEMMA KeysOfNothing == Keys(<<>>) = {}
<1>1. 1..Len(<<>>) = {}
  OBVIOUS
<1> QED
  BY <1>1 DEF Keys

(* What keys tell apart.                                                    *)
LEMMA KeysAreOf ==
    ASSUME NEW s, NEW k \in Keys(s)
    PROVE  \E i \in 1..Len(s) : k = Key(s[i])
BY DEF Keys

-----------------------------------------------------------------------------
(* Who has which characters.                                                *)

Origin(w) == [position |-> w.position, creator |-> w.creator]


NoteAdded   == Keys(note.added)
NoteDeleted == Keys(note.deleted)
Known       == NoteAdded \cup UNION {Keys(added[c]) : c \in Client}

(* The texts of clients that have not joined are empty.                     *)
Absent ==
    \A c \in Client \ joined :
        Marks(text[c]) = {} /\ inbox[c] = <<>> /\ added[c] = <<>> /\ deleted[c] = <<>>

(* Every character has a position of its own, which is on record, and the   *)
(* note has it or the client that typed it has not sent it.                 *)
OnePlace == \A k, l \in Known : k.position = l.position => k = l
Recorded ==
    /\ \A i \in 1..Len(note.added) : Origin(note.added[i]) \in given
    /\ \A c \in Client : \A i \in 1..Len(added[c]) : Origin(added[c][i]) \in given
Apart ==
    /\ Distinct(note.added)
    /\ \A c \in Client : Distinct(added[c]) /\ NoteAdded \cap Keys(added[c]) = {}
    /\ \A c, d \in Client : c # d => Keys(added[c]) \cap Keys(added[d]) = {}

(* Nobody shows or deletes what neither the note has nor was typed here.    *)
Within ==
    /\ NoteDeleted \subseteq NoteAdded
    /\ \A c \in Client : /\ Marks(text[c]) \subseteq NoteAdded \cup Keys(added[c])
                         /\ Keys(deleted[c]) \subseteq NoteAdded \cup Keys(added[c])

(* What comes to a client is new to it and comes once, and what is deleted  *)
(* does not come again.                                                     *)
Coming(c) ==
    /\ \A i \in 1..Len(inbox[c]) : /\ Keys(inbox[c][i].added) \subseteq NoteAdded
                                   /\ Keys(inbox[c][i].deleted) \subseteq NoteDeleted
                                   /\ Marks(text[c]) \cap Keys(inbox[c][i].added) = {}
    /\ \A i, j \in 1..Len(inbox[c]) : i < j =>
           /\ Keys(inbox[c][i].added) \cap Keys(inbox[c][j].added) = {}
           /\ Keys(inbox[c][i].deleted) \cap Keys(inbox[c][j].added) = {}

(* A character is deleted under its creator's name.                         *)
OwnDeleted ==
    \A g \in given :
        /\ \A i \in 1..Len(note.deleted) :
               g.position = note.deleted[i].position => g.creator = note.deleted[i].creator
        /\ \A c \in Client : \A i \in 1..Len(deleted[c]) :
               g.position = deleted[c][i].position => g.creator = deleted[c][i].creator

(* What a client shows once all that comes has been applied is what is left *)
(* of the note once it has got all from the client.                         *)
ComingAdded(c)   == UNION {Keys(inbox[c][i].added) : i \in 1..Len(inbox[c])}
ComingDeleted(c) == UNION {Keys(inbox[c][i].deleted) : i \in 1..Len(inbox[c])}
Balanced(c) ==
    (Marks(text[c]) \cup ComingAdded(c)) \ ComingDeleted(c)
        = (NoteAdded \cup Keys(added[c])) \ (NoteDeleted \cup Keys(deleted[c]))

Undisturbed == up /\ ~reused /\ ~misread

Books ==
    /\ OnePlace /\ Recorded /\ Apart /\ Within
    /\ \A c \in Client : Coming(c)
    /\ ~foreign => OwnDeleted
    /\ ~revived => \A c \in joined : Balanced(c)

CInv == Absent /\ (Undisturbed => Books)

-----------------------------------------------------------------------------
LEMMA DistinctBoth ==
    ASSUME NEW W, NEW s \in Seq(W), NEW u \in Seq(W), Distinct(s), Distinct(u),
           Keys(s) \cap Keys(u) = {}
    PROVE  Distinct(s \o u)
<1> DEFINE new == s \o u
           n == Len(s)
           m == Len(u)
<1>1. /\ n \in Nat /\ m \in Nat /\ Len(new) = n + m
      /\ \A i \in 1..(n + m) : new[i] = IF i <= n THEN s[i] ELSE u[i - n]
  BY ConcatProperties
<1> HIDE DEF new
<1>2. /\ \A i \in 1..n : Key(s[i]) \in Keys(s)
      /\ \A i \in 1..m : Key(u[i]) \in Keys(u)
  BY DEF Keys
<1>3. \A i \in 1..(n + m) : \/ i \in 1..n /\ new[i] = s[i]
                            \/ i - n \in 1..m /\ new[i] = u[i - n]
  <2> TAKE i \in 1..(n + m)
  <2>1. CASE i <= n
    BY <1>1, <2>1
  <2>2. CASE ~(i <= n)
    BY <1>1, <2>2
  <2> QED
    BY <2>1, <2>2
<1>4. ASSUME NEW i \in 1..(n + m), NEW j \in 1..(n + m), Key(new[i]) = Key(new[j])
      PROVE  i = j
  <2>1. CASE i \in 1..n /\ new[i] = s[i] /\ j \in 1..n /\ new[j] = s[j]
    BY <1>4, <2>1 DEF Distinct
  <2>2. CASE i - n \in 1..m /\ new[i] = u[i - n] /\ j - n \in 1..m /\ new[j] = u[j - n]
    <3>1. i - n = j - n
      BY <1>4, <2>2 DEF Distinct
    <3> QED
      BY <1>1, <3>1
  <2>3. CASE i \in 1..n /\ new[i] = s[i] /\ j - n \in 1..m /\ new[j] = u[j - n]
    BY <1>2, <1>4, <2>3
  <2>4. CASE i - n \in 1..m /\ new[i] = u[i - n] /\ j \in 1..n /\ new[j] = s[j]
    BY <1>2, <1>4, <2>4
  <2> QED
    BY <1>3, <2>1, <2>2, <2>3, <2>4
<1> QED
  BY <1>1, <1>4 DEF Distinct, new

(* What all of two sequences have, their concatenation has.                 *)
LEMMA PlacesOfBoth ==
    ASSUME NEW W, NEW s \in Seq(W), NEW u \in Seq(W)
    PROVE  \A i \in 1..Len(s \o u) : \/ \E j \in 1..Len(s) : (s \o u)[i] = s[j]
                                     \/ \E j \in 1..Len(u) : (s \o u)[i] = u[j]
<1> DEFINE new == s \o u
           n == Len(s)
           m == Len(u)
<1>1. /\ n \in Nat /\ m \in Nat /\ Len(new) = n + m
      /\ \A i \in 1..(n + m) : new[i] = IF i <= n THEN s[i] ELSE u[i - n]
  BY ConcatProperties
<1> HIDE DEF new
<1>2. ASSUME NEW i \in 1..(n + m)
      PROVE  \/ \E j \in 1..n : new[i] = s[j]
             \/ \E j \in 1..m : new[i] = u[j]
  <2>1. CASE i <= n
    BY <1>1, <2>1
  <2>2. CASE ~(i <= n)
    <3>1. i - n \in 1..m /\ new[i] = u[i - n]
      BY <1>1, <2>2
    <3> QED
      BY <3>1
  <2> QED
    BY <2>1, <2>2
<1> QED
  BY <1>1, <1>2 DEF new

LEMMA KnownIsRecorded ==
    ASSUME Recorded, NEW k \in Known
    PROVE  \E g \in given : g.position = k.position
<1>1. CASE k \in NoteAdded
  <2>1. PICK i \in 1..Len(note.added) : k = Key(note.added[i])
    BY <1>1, KeysAreOf DEF NoteAdded
  <2>2. Origin(note.added[i]) \in given /\ Origin(note.added[i]).position = k.position
    BY <2>1 DEF Recorded, Origin, Key
  <2> QED
    BY <2>2
<1>2. CASE k \notin NoteAdded
  <2>1. PICK c \in Client : k \in Keys(added[c])
    BY <1>2 DEF Known
  <2>2. PICK i \in 1..Len(added[c]) : k = Key(added[c][i])
    BY <2>1, KeysAreOf
  <2>3. Origin(added[c][i]) \in given /\ Origin(added[c][i]).position = k.position
    BY <2>2 DEF Recorded, Origin, Key
  <2> QED
    BY <2>3
<1> QED
  BY <1>1, <1>2

LEMMA InitCInv == Init => CInv
<1> SUFFICES ASSUME Init PROVE CInv
  OBVIOUS
<1>1. \A c \in Client : /\ text[c] = <<Root>> /\ inbox[c] = <<>>
                        /\ added[c] = <<>> /\ deleted[c] = <<>>
  BY DEF Init, Nothing
<1>2. \A c \in Client : Marks(text[c]) = {}
  <2>1. Len(<<Root>>) = 1
    OBVIOUS
  <2>2. Marks(<<Root>>) = {}
    BY <2>1, NothingShown
  <2> QED
    BY <1>1, <2>2
<1>3. Absent
  BY <1>1, <1>2 DEF Absent
<1>4. note.added = Kept /\ note.deleted = <<>> /\ joined = {}
      /\ given = {[position |-> Kept[i].position, creator |-> Kept[i].creator] : i \in DOMAIN Kept}
      /\ reused = \E i, j \in DOMAIN Kept : i # j /\ Kept[i].position = Kept[j].position
  BY DEF Init
<1>5. Len(Kept) \in Nat /\ DOMAIN Kept = 1..Len(Kept)
  BY ClientAssumption
<1>6. Len(<<>>) = 0 /\ 1..0 = {}
  OBVIOUS
<1>7. Known = Keys(Kept) /\ \A c \in Client : Keys(added[c]) = {} /\ Keys(deleted[c]) = {}
  BY <1>1, <1>4, KeysOfNothing DEF Known, NoteAdded
<1>8. ASSUME Undisturbed PROVE Books
  <2>1. \A i, j \in 1..Len(Kept) : Kept[i].position = Kept[j].position => i = j
    BY <1>4, <1>5, <1>8 DEF Undisturbed
  <2>2. OnePlace
    <3>1. ASSUME NEW k \in Keys(Kept), NEW l \in Keys(Kept), k.position = l.position PROVE k = l
      <4>1. PICK i \in 1..Len(Kept) : k = Key(Kept[i])
        BY KeysAreOf
      <4>2. PICK j \in 1..Len(Kept) : l = Key(Kept[j])
        BY KeysAreOf
      <4>3. Kept[i].position = Kept[j].position
        BY <3>1, <4>1, <4>2 DEF Key
      <4> QED
        BY <2>1, <4>1, <4>2, <4>3
    <3> QED
      BY <1>7, <3>1 DEF OnePlace
  <2>3. Recorded
    <3>1. \A i \in 1..Len(Kept) : Origin(Kept[i]) \in given
      BY <1>4, <1>5 DEF Origin
    <3> QED
      BY <1>1, <1>4, <1>6, <3>1 DEF Recorded
  <2>4. Apart
    <3>1. Distinct(Kept)
      <4>1. ASSUME NEW i \in 1..Len(Kept), NEW j \in 1..Len(Kept), Key(Kept[i]) = Key(Kept[j])
            PROVE  i = j
        <5>1. Kept[i].position = Kept[j].position
          BY <4>1 DEF Key
        <5> QED
          BY <2>1, <5>1
      <4> QED
        BY <4>1 DEF Distinct
    <3>2. Distinct(<<>>)
      BY <1>6 DEF Distinct
    <3> QED
      BY <1>1, <1>4, <1>7, <3>1, <3>2 DEF Apart
  <2>5. Within
    BY <1>2, <1>4, <1>7, KeysOfNothing DEF Within, NoteDeleted
  <2>6. \A c \in Client : Coming(c)
    BY <1>1, <1>6 DEF Coming
  <2>7. OwnDeleted
    BY <1>1, <1>4, <1>6 DEF OwnDeleted
  <2>8. \A c \in joined : Balanced(c)
    BY <1>4
  <2> QED
    BY <2>2, <2>3, <2>4, <2>5, <2>6, <2>7, <2>8 DEF Books
<1> QED
  BY <1>3, <1>8 DEF CInv

LEMMA ComingIsKnown ==
    ASSUME NEW c \in Client, Coming(c)
    PROVE  /\ ComingAdded(c) \subseteq NoteAdded /\ ComingDeleted(c) \subseteq NoteDeleted
           /\ Marks(text[c]) \cap ComingAdded(c) = {}
BY DEF Coming, ComingAdded, ComingDeleted

LEMMA PlacesWhenCut ==
    ASSUME IInv, NEW c \in Client, NEW cut \in Seq(Sendable)
    PROVE  \A i \in 1..Len(deleted[c] \o cut) :
               \/ \E m \in 1..Len(deleted[c]) : (deleted[c] \o cut)[i] = deleted[c][m]
               \/ \E m \in 1..Len(cut) : (deleted[c] \o cut)[i] = cut[m]
<1> DEFINE s == deleted[c]
<1>1. s \in Seq(Sendable)
  BY DEF IInv, BuffersShape
<1> HIDE DEF s
<1>2. \A i \in 1..Len(s \o cut) : \/ \E m \in 1..Len(s) : (s \o cut)[i] = s[m]
                                  \/ \E m \in 1..Len(cut) : (s \o cut)[i] = cut[m]
  BY <1>1, PlacesOfBoth
<1> QED
  BY <1>2 DEF s

(* A step that leaves all texts and buffers but those of c alone.           *)
OnlyOwn(c) ==
    \A d \in Client : d # c => text'[d] = text[d] /\ added'[d] = added[d] /\ deleted'[d] = deleted[d]

(* A client cuts characters out and types at most one.                      *)
LEMMA EditingKeepsBooks ==
    ASSUME IInv, NEW c \in Client, NEW cut \in Seq(Sendable), NEW more \in Seq(Sendable),
           Len(more) <= 1,
           Keys(cut) \subseteq Marks(text[c]),
           Marks(text'[c]) = (Marks(text[c]) \ Keys(cut)) \cup Keys(more),
           added'[c] = added[c] \o more, deleted'[c] = deleted[c] \o cut,
           OnlyOwn(c),
           given' = given \cup {Origin(more[i]) : i \in 1..Len(more)},
           \A i \in 1..Len(more) : \A g \in given : g.position # more[i].position,
           ~foreign' => /\ ~foreign
                        /\ \A g \in given : \A j \in 1..Len(cut) :
                               g.position = cut[j].position => g.creator = cut[j].creator,
           UNCHANGED <<joined, inbox, note, up, revived>>,
           Books
    PROVE  Books'
<1> DEFINE K == Keys(more)
           C == Keys(cut)
           O(d) == Keys(added[d])
           X(d) == Keys(deleted[d])
           T(d) == Marks(text[d])
<1>1. /\ added \in [Client -> Seq(Sendable)] /\ deleted \in [Client -> Seq(Sendable)]
  BY DEF IInv, BuffersShape
<1>2. NoteAdded' = NoteAdded /\ NoteDeleted' = NoteDeleted
  BY DEF NoteAdded, NoteDeleted
<1>3. /\ \A d \in Client : d # c => added'[d] = added[d] /\ deleted'[d] = deleted[d]
      /\ added'[c] = added[c] \o more /\ deleted'[c] = deleted[c] \o cut
  BY DEF OnlyOwn
<1>4. \A j \in 1..Len(deleted[c] \o cut) :
           \/ \E m \in 1..Len(deleted[c]) : (deleted[c] \o cut)[j] = deleted[c][m]
           \/ \E m \in 1..Len(cut) : (deleted[c] \o cut)[j] = cut[m]
  BY PlacesWhenCut
<1>5. /\ Keys(added'[c]) = O(c) \cup K /\ Keys(deleted'[c]) = X(c) \cup C
      /\ \A d \in Client : d # c => Keys(added'[d]) = O(d) /\ Keys(deleted'[d]) = X(d)
  <2>1. Keys(added[c] \o more) = O(c) \cup K
    BY <1>1, KeysOfBoth
  <2>2. Keys(deleted[c] \o cut) = X(c) \cup C
    BY <1>1, KeysOfBoth
  <2> QED
    BY <1>3, <2>1, <2>2
<1>6. /\ Marks(text'[c]) = (T(c) \ C) \cup K /\ C \subseteq T(c)
      /\ \A d \in Client : d # c => Marks(text'[d]) = T(d)
  BY DEF OnlyOwn
<1>7. OnePlace /\ Recorded /\ Apart /\ Within /\ (\A d \in Client : Coming(d))
      /\ (~foreign => OwnDeleted) /\ (~revived => \A d \in joined : Balanced(d))
  BY DEF Books
<1>8. \A k \in K, l \in Known : k.position # l.position
  <2> SUFFICES ASSUME NEW k \in K, NEW l \in Known, k.position = l.position PROVE FALSE
    OBVIOUS
  <2>1. PICK i \in 1..Len(more) : k = Key(more[i])
    BY KeysAreOf
  <2>2. PICK g \in given : g.position = l.position
    BY <1>7, KnownIsRecorded
  <2>3. g.position = more[i].position
    BY <2>1, <2>2 DEF Key
  <2> QED
    BY <2>3
<1>9. K \cap Known = {}
  BY <1>8
<1>10. Known' = Known \cup K
  <2>1. \A d \in Client : Keys(added'[d]) = IF d = c THEN O(c) \cup K ELSE O(d)
    BY <1>5
  <2> HIDE DEF K, O
  <2>2. \A x : (\E d \in Client : x \in Keys(added'[d])) <=> x \in K \/ \E d \in Client : x \in O(d)
    BY <2>1
  <2>3. \A x : x \in Known <=> x \in NoteAdded \/ \E d \in Client : x \in O(d)
    BY DEF Known, O
  <2>4. \A x : x \in Known' <=> x \in NoteAdded' \/ \E d \in Client : x \in Keys(added'[d])
    BY DEF Known
  <2> QED
    BY <1>2, <2>2, <2>3, <2>4
<1>11. /\ NoteAdded \subseteq Known /\ NoteDeleted \subseteq Known
       /\ \A d \in Client : O(d) \subseteq Known /\ T(d) \subseteq Known /\ X(d) \subseteq Known
  <2>1. NoteAdded \subseteq Known /\ \A d \in Client : O(d) \subseteq Known
    BY DEF Known
  <2> QED
    BY <1>7, <2>1 DEF Within
<1>12. OnePlace'
  <2>1. \A k, l \in K : k = l
    <3>1. \A i, j \in 1..Len(more) : i = j
      OBVIOUS
    <3> QED
      BY <3>1 DEF Keys
  <2> HIDE DEF K
  <2>2. \A k, l \in Known \cup K : k.position = l.position => k = l
    <3> SUFFICES ASSUME NEW k \in Known \cup K, NEW l \in Known \cup K, k.position = l.position
                 PROVE  k = l
      OBVIOUS
    <3> QED
      BY <1>7, <1>8, <2>1 DEF OnePlace
  <2> QED
    BY <1>10, <2>2 DEF OnePlace
<1>13. Recorded'
  <2>1. \A i \in 1..Len(note'.added) : Origin(note'.added[i]) \in given'
    BY <1>7 DEF Recorded
  <2>2. ASSUME NEW d \in Client, NEW i \in 1..Len(added'[d]) PROVE Origin(added'[d][i]) \in given'
    <3>1. CASE d # c
      BY <1>3, <1>7, <3>1 DEF Recorded
    <3>2. CASE d = c
      <4>1. \A j \in 1..Len(added[c] \o more) :
                \/ \E m \in 1..Len(added[c]) : (added[c] \o more)[j] = added[c][m]
                \/ \E m \in 1..Len(more) : (added[c] \o more)[j] = more[m]
        BY <1>1, PlacesOfBoth
      <4>2. \/ \E m \in 1..Len(added[c]) : added'[d][i] = added[c][m]
            \/ \E m \in 1..Len(more) : added'[d][i] = more[m]
        BY <1>3, <3>2, <4>1
      <4> QED
        BY <1>7, <4>2 DEF Recorded
    <3> QED
      BY <3>1, <3>2
  <2> QED
    BY <2>1, <2>2 DEF Recorded
<1>14. Apart'
  <2>1. Distinct(note'.added) /\ \A d \in Client : d # c => Distinct(added'[d])
    BY <1>3, <1>7 DEF Apart
  <2>2. Distinct(added'[c])
    <3>1. Distinct(more)
      <4>1. \A i, j \in 1..Len(more) : i = j
        OBVIOUS
      <4> QED
        BY <4>1 DEF Distinct
    <3>2. Keys(added[c]) \cap Keys(more) = {}
      BY <1>9, <1>11
    <3>3. Distinct(added[c] \o more)
      BY <1>1, <1>7, <3>1, <3>2, DistinctBoth DEF Apart
    <3> QED
      BY <1>3, <3>3
  <2> HIDE DEF K, O
  <2>3. \A d \in Client : NoteAdded \cap O(d) = {}
    BY <1>7 DEF Apart, O
  <2>4. \A d, e \in Client : d # e => O(d) \cap O(e) = {}
    BY <1>7 DEF Apart, O
  <2>5. \A d \in Client : NoteAdded' \cap Keys(added'[d]) = {}
    BY <1>2, <1>5, <1>9, <1>11, <2>3
  <2>6. \A d, e \in Client : d # e => Keys(added'[d]) \cap Keys(added'[e]) = {}
    <3> TAKE d, e \in Client
    <3> HAVE d # e
    <3>1. O(d) \cap O(e) = {} /\ K \cap O(d) = {} /\ K \cap O(e) = {}
      BY <1>9, <1>11, <2>4
    <3> QED
      BY <1>5, <3>1
  <2> QED
    BY <2>1, <2>2, <2>5, <2>6 DEF Apart
<1> HIDE DEF K, C, O, X, T
<1>15. Within'
  <2>1. NoteDeleted \subseteq NoteAdded
        /\ \A d \in Client : T(d) \subseteq NoteAdded \cup O(d) /\ X(d) \subseteq NoteAdded \cup O(d)
    BY <1>7 DEF Within, T, O, X
  <2>2. ASSUME NEW d \in Client
        PROVE  /\ Marks(text'[d]) \subseteq NoteAdded \cup Keys(added'[d])
               /\ Keys(deleted'[d]) \subseteq NoteAdded \cup Keys(added'[d])
    BY <1>5, <1>6, <2>1
  <2> QED
    BY <1>2, <2>1, <2>2 DEF Within
<1>16. \A d \in Client : Coming(d)'
  <2> TAKE d \in Client
  <2>1. Coming(d)
    BY <1>7
  <2>2. CASE d # c
    <3>1. inbox' = inbox /\ Marks(text'[d]) = Marks(text[d])
      BY <1>6, <2>2 DEF T
    <3> QED
      BY <1>2, <2>1, <3>1 DEF Coming
  <2>3. CASE d = c
    <3>1. ASSUME NEW i \in 1..Len(inbox[c]) PROVE Marks(text'[c]) \cap Keys(inbox[c][i].added) = {}
      <4>1. T(c) \cap Keys(inbox[c][i].added) = {} /\ Keys(inbox[c][i].added) \subseteq NoteAdded
        BY <2>1, <2>3 DEF Coming, T
      <4> QED
        BY <1>6, <1>9, <1>11, <4>1
    <3>2. /\ \A i \in 1..Len(inbox[c]) : /\ Keys(inbox[c][i].added) \subseteq NoteAdded
                                         /\ Keys(inbox[c][i].deleted) \subseteq NoteDeleted
          /\ \A i, j \in 1..Len(inbox[c]) : i < j =>
                 /\ Keys(inbox[c][i].added) \cap Keys(inbox[c][j].added) = {}
                 /\ Keys(inbox[c][i].deleted) \cap Keys(inbox[c][j].added) = {}
      BY <2>1, <2>3 DEF Coming
    <3>3. inbox' = inbox
      OBVIOUS
    <3> QED
      BY <1>2, <2>3, <3>1, <3>2, <3>3 DEF Coming
  <2> QED
    BY <2>2, <2>3
<1>17. ~foreign' => OwnDeleted'
  <2> SUFFICES ASSUME ~foreign' PROVE OwnDeleted'
    OBVIOUS
  <2>1. /\ OwnDeleted
        /\ \A g \in given : \A j \in 1..Len(cut) :
               g.position = cut[j].position => g.creator = cut[j].creator
    BY <1>7
  <2>2. ASSUME NEW g \in given', g \notin given, NEW k \in Known PROVE g.position # k.position
    <3>1. PICK i \in 1..Len(more) : g = Origin(more[i])
      BY <2>2
    <3>2. Key(more[i]) \in K /\ Key(more[i]).position = g.position
      BY <3>1 DEF K, Keys, Key, Origin
    <3> QED
      BY <1>8, <3>2
  <2>3. ASSUME NEW g \in given', NEW i \in 1..Len(note'.deleted),
               g.position = note'.deleted[i].position
        PROVE  g.creator = note'.deleted[i].creator
    <3>1. Key(note.deleted[i]) \in Known /\ Key(note.deleted[i]).position = g.position
      <4>1. Key(note.deleted[i]) \in NoteDeleted
        BY <2>3 DEF NoteDeleted, Keys
      <4> QED
        BY <1>11, <2>3, <4>1 DEF Key
    <3>2. g \in given
      BY <2>2, <3>1
    <3> QED
      BY <2>1, <2>3, <3>2 DEF OwnDeleted
  <2>4. ASSUME NEW g \in given', NEW d \in Client, NEW i \in 1..Len(deleted'[d]),
               g.position = deleted'[d][i].position
        PROVE  g.creator = deleted'[d][i].creator
    <3>1. Key(deleted'[d][i]) \in Known /\ Key(deleted'[d][i]).position = g.position
      <4>1. Key(deleted'[d][i]) \in Keys(deleted'[d])
        BY DEF Keys
      <4>2. Keys(deleted'[d]) \subseteq Known
        BY <1>5, <1>6, <1>11
      <4> QED
        BY <2>4, <4>1, <4>2 DEF Key
    <3>2. g \in given
      BY <2>2, <3>1
    <3>3. CASE d # c
      <4>1. deleted'[d] = deleted[d]
        BY <1>3, <3>3
      <4>2. \A m \in 1..Len(deleted[d]) :
                g.position = deleted[d][m].position => g.creator = deleted[d][m].creator
        BY <2>1, <3>2 DEF OwnDeleted
      <4> QED
        BY <2>4, <4>1, <4>2
    <3>4. CASE d = c
      <4>1. \A j \in 1..Len(deleted[c] \o cut) :
                \/ \E m \in 1..Len(deleted[c]) : (deleted[c] \o cut)[j] = deleted[c][m]
                \/ \E m \in 1..Len(cut) : (deleted[c] \o cut)[j] = cut[m]
        BY <1>4
      <4>2. \/ \E m \in 1..Len(deleted[c]) : deleted'[d][i] = deleted[c][m]
            \/ \E m \in 1..Len(cut) : deleted'[d][i] = cut[m]
        BY <1>3, <3>4, <4>1
      <4>3. \A m \in 1..Len(deleted[c]) :
                g.position = deleted[c][m].position => g.creator = deleted[c][m].creator
        BY <2>1, <3>2 DEF OwnDeleted
      <4>4. \A m \in 1..Len(cut) : g.position = cut[m].position => g.creator = cut[m].creator
        BY <2>1, <3>2
      <4> QED
        BY <2>4, <4>2, <4>3, <4>4
    <3> QED
      BY <3>3, <3>4
  <2> QED
    BY <2>3, <2>4 DEF OwnDeleted
<1>18. ~revived' => \A d \in joined' : Balanced(d)'
  <2> SUFFICES ASSUME ~revived', NEW d \in joined' PROVE Balanced(d)'
    OBVIOUS
  <2>1. d \in joined /\ d \in Client /\ Balanced(d) /\ ComingAdded(d)' = ComingAdded(d)
        /\ ComingDeleted(d)' = ComingDeleted(d)
    BY <1>7 DEF IInv, OtherShape, ComingAdded, ComingDeleted
  <2>2. CASE d # c
    BY <1>2, <1>5, <1>6, <2>1, <2>2 DEF Balanced, O, X, T
  <2>3. CASE d = c
    <3> DEFINE P == ComingAdded(c)
               Q == ComingDeleted(c)
               A == NoteAdded
               D == NoteDeleted
    <3>1. /\ P \subseteq A /\ Q \subseteq D /\ T(c) \cap P = {}
      BY <1>7, ComingIsKnown DEF T
    <3>2. (T(c) \cup P) \ Q = (A \cup O(c)) \ (D \cup X(c))
      BY <2>1, <2>3 DEF Balanced, T, O, X
    <3>3. C \subseteq T(c) /\ K \cap Known = {} /\ A \subseteq Known /\ D \subseteq Known
          /\ O(c) \subseteq Known /\ X(c) \subseteq Known /\ T(c) \subseteq Known
      BY <1>6, <1>9, <1>11
    <3> HIDE DEF P, Q, A, D
    <3>4. (((T(c) \ C) \cup K) \cup P) \ Q = (A \cup (O(c) \cup K)) \ (D \cup (X(c) \cup C))
      BY <3>1, <3>2, <3>3
    <3> QED
      BY <1>2, <1>5, <1>6, <2>1, <2>3, <3>4 DEF Balanced, P, Q, A, D
  <2> QED
    BY <2>2, <2>3
<1> QED
  BY <1>12, <1>13, <1>14, <1>15, <1>16, <1>17, <1>18 DEF Books

(* What one client does changes nothing of those that have not joined.      *)
LEMMA OthersStayAbsent ==
    ASSUME Absent, NEW c \in Client, c \in joined', joined \subseteq joined',
           \A d \in Client : d \notin joined' => /\ text'[d] = text[d] /\ inbox'[d] = inbox[d]
                                                 /\ added'[d] = added[d] /\ deleted'[d] = deleted[d]
    PROVE  Absent'
<1>1. ASSUME NEW d \in Client, d \notin joined'
      PROVE  Marks(text'[d]) = {} /\ inbox'[d] = <<>> /\ added'[d] = <<>> /\ deleted'[d] = <<>>
  BY <1>1 DEF Absent
<1> QED
  BY <1>1 DEF Absent

(* What is cut out while nobody deletes a character of another.             *)
LEMMA CutOutIsOwn ==
    ASSUME IInv, NEW c \in Client, NEW i \in 1..Len(text[c]), NEW k \in Nat,
           i + k <= Len(text[c]), RemoveMultiple(c, i, k), ~foreign'
    PROVE  /\ ~foreign
           /\ \A g \in given : \A j \in 1..Len(CutOut(text[c], i, k)) :
                  g.position = CutOut(text[c], i, k)[j].position
                      => g.creator = CutOut(text[c], i, k)[j].creator
<1> DEFINE t == text[c]
           cut == CutOut(t, i, k)
<1>1. ~foreign /\ ~NotOnlyOwn(c, cut)
  BY DEF RemoveMultiple
<1>2. /\ Len(t) \in Nat /\ \A j \in 2..Len(t) : t[j] \in Typed(Letters, c)
  <2>1. t \in TextOf(c)
    BY DEF IInv, TextsShape
  <2> HIDE DEF t
  <2> QED
    BY <2>1 DEF TextOf, Text
<1>3. Len(cut) = k /\ DOMAIN cut = 1..k /\ \A j \in 1..k : cut[j] = Written(t[i + j])
  BY DEF CutOut
<1> HIDE DEF cut, t
<1>4. ASSUME NEW j \in 1..k PROVE cut[j].creator = c
  <2>1. i + j \in 2..Len(t)
    BY <1>2 DEF t
  <2>2. t[i + j].creator = c
    BY <1>2, <2>1 DEF Typed
  <2> QED
    BY <1>3, <2>2 DEF Written
<1>5. ASSUME NEW g \in given, NEW j \in 1..k, g.position = cut[j].position
      PROVE  g.creator = c
  <2>1. Typist(cut[j]) = {c}
    BY <1>1, <1>3 DEF NotOnlyOwn
  <2>2. g.creator \in Typist(cut[j])
    BY <1>5 DEF Typist
  <2> QED
    BY <2>1, <2>2
<1> QED
  BY <1>1, <1>3, <1>4, <1>5 DEF cut, t

LEMMA DeleteKeepsCInv ==
    ASSUME IInv, CInv, NEW c \in Client, NEW i \in 1..Len(text[c]), NEW k \in Nat, Delete(c, i, k)
    PROVE  CInv'
<1> DEFINE t == text[c]
           rest == Cut(t, i, k)
           cut == CutOut(t, i, k)
<1>1. /\ c \in joined /\ i + k <= Len(t) /\ RemoveMultiple(c, i, k)
      /\ text' = [text EXCEPT ![c] = rest]
      /\ UNCHANGED <<joined, added, inbox, note, up, given, reused, misread, revived, typed>>
  BY DEF Delete, IInv, TextsShape
<1>2. c \in Nat /\ t \in TextOf(c) /\ added \in [Client -> Seq(Sendable)]
      /\ deleted \in [Client -> Seq(Sendable)]
  BY ClientAssumption DEF IInv, TextsShape, BuffersShape
<1>3. cut \in Seq(Sendable)
  BY <1>1, <1>2, CutOutIsSendable
<1>4. deleted' = [deleted EXCEPT ![c] = @ \o cut]
  BY <1>1 DEF RemoveMultiple
<1>5. ~foreign' => /\ ~foreign
                   /\ \A g \in given : \A j \in 1..Len(cut) :
                          g.position = cut[j].position => g.creator = cut[j].creator
  BY <1>1, CutOutIsOwn
<1>6. Sorted(t) => Marks(rest) = Marks(t) \ Keys(cut) /\ Keys(cut) \subseteq Marks(t)
  BY <1>1, <1>2, CutShows
<1> HIDE DEF rest, cut
<1>7. OnlyOwn(c)
  BY <1>1, <1>2, <1>4 DEF IInv, TextsShape, OnlyOwn
<1>8. text'[c] = rest /\ deleted'[c] = deleted[c] \o cut /\ added'[c] = added[c]
  BY <1>1, <1>2, <1>4 DEF IInv, TextsShape
<1>9. Absent'
  BY <1>1, <1>7, OthersStayAbsent DEF CInv, OnlyOwn
<1>10. ASSUME Undisturbed' PROVE Books'
  <2>1. Undisturbed
    BY <1>1, <1>10 DEF Undisturbed
  <2>2. Books /\ Sorted(t)
    BY <2>1 DEF CInv, IInv, InOrder, Undisturbed
  <2> DEFINE more == <<>>
  <2>3. /\ more \in Seq(Sendable) /\ Len(more) = 0 /\ Len(more) <= 1 /\ 1..0 = {}
        /\ added[c] \o more = added[c]
    BY <1>2
  <2>4. Keys(more) = {}
    BY KeysOfNothing
  <2> HIDE DEF more
  <2>5. Marks(text'[c]) = (Marks(text[c]) \ Keys(cut)) \cup Keys(more)
    BY <1>6, <1>8, <2>2, <2>4
  <2>6. given' = given \cup {Origin(more[j]) : j \in 1..Len(more)}
    BY <1>1, <2>3
  <2>7. \A j \in 1..Len(more) : \A g \in given : g.position # more[j].position
    BY <2>3
  <2>8. added'[c] = added[c] \o more /\ Keys(cut) \subseteq Marks(text[c])
    BY <1>6, <1>8, <2>2, <2>3
  <2>9. UNCHANGED <<joined, inbox, note, up, revived>>
    BY <1>1
  <2> QED
    BY <1>3, <1>5, <1>7, <1>8, <2>2, <2>3, <2>5, <2>6, <2>7, <2>8, <2>9, EditingKeepsBooks
<1> QED
  BY <1>9, <1>10 DEF CInv

LEMMA TypeKeepsCInv ==
    ASSUME IInv, CInv, NEW c \in Client, NEW i \in 1..Len(text[c]), NEW k \in Nat,
           NEW letter \in Letter, Type(c, i, k, letter)
    PROVE  CInv'
<1> DEFINE t == text[c]
           rest == Cut(t, i, k)
           cut == CutOut(t, i, k)
           prev == rest[i].position
           next == NextTo(rest, i)
           atEnd == i = Len(rest)
           char == TypedAfter(c, rest, i, letter)
           new == InsertAt(rest, i + 1, char)
           throws == Throws(prev, next, atEnd)
<1>1. /\ c \in joined /\ i + k <= Len(t) /\ RemoveMultiple(c, i, k)
      /\ IF throws
         THEN /\ text' = [text EXCEPT ![c] = rest]
              /\ UNCHANGED <<added, given, reused, misread>>
         ELSE /\ text' = [text EXCEPT ![c] = new]
              /\ added' = [added EXCEPT ![c] = Append(@, Written(char))]
              /\ given' = given \cup {[position |-> Numbers(char.position), creator |-> c]}
              /\ reused' = (reused \/ \E g \in given : g.position = Numbers(char.position))
              /\ misread' = (misread \/ Misread(prev, next))
      /\ UNCHANGED <<joined, inbox, note, up, revived>>
  BY DEF Type, NextTo, TypedAfter
<1>2. /\ c \in Nat /\ t \in TextOf(c) /\ letter \in Letters
      /\ added \in [Client -> Seq(Sendable)] /\ deleted \in [Client -> Seq(Sendable)]
  BY ClientAssumption DEF IInv, TextsShape, BuffersShape, Letters
<1>3. cut \in Seq(Sendable)
  BY <1>1, <1>2, CutOutIsSendable
<1>4. deleted' = [deleted EXCEPT ![c] = @ \o cut]
  BY <1>1 DEF RemoveMultiple
<1>5. ~foreign' => /\ ~foreign
                   /\ \A g \in given : \A j \in 1..Len(cut) :
                          g.position = cut[j].position => g.creator = cut[j].creator
  BY <1>1, CutOutIsOwn
<1>6. Sorted(t) => Marks(rest) = Marks(t) \ Keys(cut) /\ Keys(cut) \subseteq Marks(t)
  BY <1>1, <1>2, CutShows
<1>7. rest \in TextOf(c) /\ i \in 1..Len(rest)
  <2>1. rest \in TextOf(c) /\ Len(rest) = Len(t) - k /\ (Sorted(t) => Sorted(rest))
    <3>1. t \in TextOf(c) /\ i \in 1..Len(t) /\ i + k <= Len(t)
      BY <1>1, <1>2
    <3> HIDE DEF t
    <3> QED
      BY <3>1, CutKeepsText
  <2> DEFINE n == Len(t)
             m == Len(rest)
  <2>2. n \in Nat /\ m = n - k /\ i \in 1..n /\ i + k <= n
    BY <1>1, <1>2, <2>1 DEF TextOf, Text
  <2> HIDE DEF n, m
  <2>3. i \in 1..m
    BY <2>2
  <2> QED
    BY <2>1, <2>3 DEF m
<1> HIDE DEF rest, cut
<1>8. ~throws => /\ char \in Typed(Letters, c)
                 /\ Marks(new) = Marks(rest) \cup {Mark(char)}
  <2> SUFFICES ASSUME ~throws PROVE char \in Typed(Letters, c)
                                    /\ Marks(new) = Marks(rest) \cup {Mark(char)}
    OBVIOUS
  <2>1. char \in Typed(Letters, c)
    BY <1>2, <1>7, TypingKeepsText
  <2> QED
    BY <1>7, <2>1, TypedShown
<1>9. char.creator = c
  BY DEF TypedAfter
<1> DEFINE more == IF throws THEN <<>> ELSE <<Written(char)>>
<1> HIDE DEF prev, next, atEnd, char, new, throws
<1>10. /\ more \in Seq(Sendable) /\ Len(more) <= 1
       /\ Len(more) = IF throws THEN 0 ELSE 1
       /\ ~throws => more[1] = Written(char)
  <2>1. ~throws => Written(char) \in Sendable
    BY <1>2, <1>8, WrittenIsAsWritten DEF Sendable
  <2> QED
    BY <2>1
<1>11. Keys(more) = IF throws THEN {} ELSE {Mark(char)}
  <2>1. CASE throws
    BY <2>1, KeysOfNothing
  <2>2. CASE ~throws
    <3>1. 1..Len(more) = {1} /\ Key(more[1]) = Mark(char)
      BY <1>10, <2>2, WrittenShown
    <3> QED
      BY <2>2, <3>1 DEF Keys
  <2> QED
    BY <2>1, <2>2
<1>12. added'[c] = added[c] \o more /\ \A d \in Client : d # c => added'[d] = added[d]
  <2>1. added[c] \in Seq(Sendable)
    BY <1>2
  <2>2. CASE throws
    <3>1. added[c] \o <<>> = added[c]
      BY <2>1
    <3> QED
      BY <1>1, <2>2, <3>1
  <2>3. CASE ~throws
    <3>1. Append(added[c], Written(char)) = added[c] \o <<Written(char)>>
      BY <1>10, <2>1, <2>3
    <3> QED
      BY <1>1, <1>2, <2>3, <3>1
  <2> QED
    BY <2>2, <2>3
<1>13. given' = given \cup {Origin(more[j]) : j \in 1..Len(more)}
  <2>1. CASE throws
    <3>1. 1..Len(more) = {}
      BY <1>10, <2>1
    <3> QED
      BY <1>1, <2>1, <3>1
  <2>2. CASE ~throws
    <3>1. 1..Len(more) = {1}
      BY <1>10, <2>2
    <3>2. Origin(more[1]) = [position |-> Numbers(char.position), creator |-> c]
      BY <1>9, <1>10, <2>2 DEF Origin, Written
    <3> QED
      BY <1>1, <2>2, <3>1, <3>2
  <2> QED
    BY <2>1, <2>2
<1> HIDE DEF more
<1>14. OnlyOwn(c)
  BY <1>1, <1>2, <1>4, <1>12 DEF IInv, TextsShape, OnlyOwn
<1>15. deleted'[c] = deleted[c] \o cut
  BY <1>2, <1>4
<1>16. Absent'
  BY <1>1, <1>14, OthersStayAbsent DEF CInv, OnlyOwn
<1>17. ASSUME Undisturbed' PROVE Books'
  <2>1. Undisturbed /\ (~throws => \A g \in given : g.position # Numbers(char.position))
    BY <1>1, <1>17 DEF Undisturbed
  <2>2. Books /\ Sorted(t)
    BY <2>1 DEF CInv, IInv, InOrder, Undisturbed
  <2>3. \A j \in 1..Len(more) : \A g \in given : g.position # more[j].position
    <3> SUFFICES ASSUME NEW j \in 1..Len(more), NEW g \in given PROVE g.position # more[j].position
      OBVIOUS
    <3>1. ~throws /\ j = 1
      BY <1>10
    <3>2. more[1].position = Numbers(char.position)
      BY <1>10, <3>1 DEF Written
    <3> QED
      BY <2>1, <3>1, <3>2
  <2>4. Marks(text'[c]) = (Marks(text[c]) \ Keys(cut)) \cup Keys(more)
    <3>1. text'[c] = IF throws THEN rest ELSE new
      BY <1>1 DEF IInv, TextsShape
    <3> QED
      BY <1>6, <1>8, <1>11, <2>2, <3>1
  <2>5. Keys(cut) \subseteq Marks(text[c])
    BY <1>6, <2>2
  <2>6. UNCHANGED <<joined, inbox, note, up, revived>>
    BY <1>1
  <2> QED
    BY <1>3, <1>5, <1>10, <1>12, <1>13, <1>14, <1>15, <2>2, <2>3, <2>4, <2>5, <2>6,
       EditingKeepsBooks
<1> QED
  BY <1>16, <1>17 DEF CInv

-----------------------------------------------------------------------------
(* Sending: what the note and the others get of it.                         *)

LEMMA KeysOfWritten ==
    ASSUME IInv
    PROVE  /\ added \in [Client -> Seq(Sendable)] /\ deleted \in [Client -> Seq(Sendable)]
           /\ inbox \in [Client -> Seq(Edits)]
           /\ note.added \in Seq(Sendable) /\ note.deleted \in Seq(Sendable)
BY DEF IInv, BuffersShape, Edits

LEMMA PlacesWhenSent ==
    ASSUME IInv, NEW c \in Client
    PROVE  /\ \A i \in 1..Len(note.added \o added[c]) :
                  \/ \E m \in 1..Len(note.added) : (note.added \o added[c])[i] = note.added[m]
                  \/ \E m \in 1..Len(added[c]) : (note.added \o added[c])[i] = added[c][m]
           /\ \A i \in 1..Len(note.deleted \o deleted[c]) :
                  \/ \E m \in 1..Len(note.deleted) : (note.deleted \o deleted[c])[i] = note.deleted[m]
                  \/ \E m \in 1..Len(deleted[c]) : (note.deleted \o deleted[c])[i] = deleted[c][m]
<1>1. /\ note.added \in Seq(Sendable) /\ added[c] \in Seq(Sendable)
      /\ note.deleted \in Seq(Sendable) /\ deleted[c] \in Seq(Sendable)
  BY KeysOfWritten
<1> DEFINE a == note.added
           b == added[c]
           d == note.deleted
           e == deleted[c]
<1>2. a \in Seq(Sendable) /\ b \in Seq(Sendable) /\ d \in Seq(Sendable) /\ e \in Seq(Sendable)
  BY <1>1
<1> HIDE DEF a, b, d, e
<1>3. \A i \in 1..Len(a \o b) : \/ \E m \in 1..Len(a) : (a \o b)[i] = a[m]
                                \/ \E m \in 1..Len(b) : (a \o b)[i] = b[m]
  BY <1>2, PlacesOfBoth
<1>4. \A i \in 1..Len(d \o e) : \/ \E m \in 1..Len(d) : (d \o e)[i] = d[m]
                                \/ \E m \in 1..Len(e) : (d \o e)[i] = e[m]
  BY <1>2, PlacesOfBoth
<1> QED
  BY <1>3, <1>4 DEF a, b, d, e

(* What is appended to an inbox comes last.                                 *)
LEMMA AppendedComes ==
    ASSUME NEW s \in Seq(Edits), NEW edit
    PROVE  LET new == Append(s, edit) IN
           /\ Len(s) \in Nat /\ Len(new) = Len(s) + 1 /\ new[Len(s) + 1] = edit
           /\ \A i \in 1..Len(s) : new[i] = s[i]
           /\ \A i : i \in 1..Len(new) <=> i \in 1..Len(s) \/ i = Len(s) + 1
<1> DEFINE n == Len(s)
           new == Append(s, edit)
<1>1. n \in Nat /\ Len(new) = n + 1 /\ new[n + 1] = edit /\ \A i \in 1..n : new[i] = s[i]
  OBVIOUS
<1> HIDE DEF n, new
<1>2. \A i : i \in 1..(n + 1) <=> i \in 1..n \/ i = n + 1
  BY <1>1
<1> QED
  BY <1>1, <1>2 DEF n, new

LEMMA SendingKeepsBooks ==
    ASSUME IInv, Books, NEW c \in Client,
           NEW edit, edit = [added |-> added[c], deleted |-> deleted[c]],
           OnlyOwn(c), text'[c] = text[c], added'[c] = <<>>, deleted'[c] = <<>>,
           note' = [added |-> note.added \o edit.added, deleted |-> note.deleted \o edit.deleted],
           inbox' = [d \in Client |-> IF d \in joined \ {c} THEN Append(inbox[d], edit) ELSE inbox[d]],
           UNCHANGED <<joined, given, foreign, revived>>
    PROVE  Books'
<1> DEFINE A == NoteAdded
           D == NoteDeleted
           O(d) == Keys(added[d])
           X(d) == Keys(deleted[d])
           T(d) == Marks(text[d])
<1>1. /\ edit.added = added[c] /\ edit.deleted = deleted[c]
      /\ note'.added = note.added \o added[c] /\ note'.deleted = note.deleted \o deleted[c]
  OBVIOUS
<1>2. /\ \A d \in Client : d # c => text'[d] = text[d] /\ added'[d] = added[d] /\ deleted'[d] = deleted[d]
      /\ text'[c] = text[c] /\ added'[c] = <<>> /\ deleted'[c] = <<>>
      /\ joined' = joined /\ given' = given /\ foreign' = foreign /\ revived' = revived
  BY DEF OnlyOwn
<1>3. \A d \in Client : inbox'[d] = IF d \in joined \ {c} THEN Append(inbox[d], edit) ELSE inbox[d]
  OBVIOUS
<1>4. /\ added[c] \in Seq(Sendable) /\ deleted[c] \in Seq(Sendable)
      /\ note.added \in Seq(Sendable) /\ note.deleted \in Seq(Sendable)
      /\ \A d \in Client : inbox[d] \in Seq(Edits)
  BY KeysOfWritten
<1>5. /\ \A i \in 1..Len(note'.added) :
             \/ \E m \in 1..Len(note.added) : note'.added[i] = note.added[m]
             \/ \E m \in 1..Len(added[c]) : note'.added[i] = added[c][m]
      /\ \A i \in 1..Len(note'.deleted) :
             \/ \E m \in 1..Len(note.deleted) : note'.deleted[i] = note.deleted[m]
             \/ \E m \in 1..Len(deleted[c]) : note'.deleted[i] = deleted[c][m]
  BY <1>1, PlacesWhenSent
<1>6. /\ OnePlace /\ Recorded /\ Apart /\ Within /\ (\A d \in Client : Coming(d))
      /\ (~foreign => OwnDeleted) /\ (~revived => \A d \in joined : Balanced(d))
  BY DEF Books
<1>7. NoteAdded' = A \cup O(c) /\ NoteDeleted' = D \cup X(c)
  <2>1. Keys(note.added \o added[c]) = A \cup O(c)
    BY <1>4, KeysOfBoth DEF NoteAdded
  <2>2. Keys(note.deleted \o deleted[c]) = D \cup X(c)
    BY <1>4, KeysOfBoth DEF NoteDeleted
  <2> QED
    BY <1>1, <2>1, <2>2 DEF NoteAdded, NoteDeleted
<1>8. /\ Keys(added'[c]) = {} /\ Keys(deleted'[c]) = {}
      /\ \A d \in Client : d # c => Keys(added'[d]) = O(d) /\ Keys(deleted'[d]) = X(d)
      /\ \A d \in Client : Marks(text'[d]) = T(d)
  BY <1>2, KeysOfNothing
<1>9. /\ \A d \in Client : A \cap O(d) = {}
      /\ \A d, e \in Client : d # e => O(d) \cap O(e) = {}
      /\ D \subseteq A
      /\ \A d \in Client : T(d) \subseteq A \cup O(d) /\ X(d) \subseteq A \cup O(d)
  BY <1>6 DEF Apart, Within
<1>10. Known' = Known
  <2>1. \A x : x \in Known <=> x \in A \/ \E d \in Client : x \in O(d)
    BY DEF Known
  <2>2. \A x : x \in Known' <=> x \in NoteAdded' \/ \E d \in Client : x \in Keys(added'[d])
    BY DEF Known
  <2> HIDE DEF A, D, O, X, T
  <2>3. \A x : x \in Known <=> x \in Known'
    BY <1>7, <1>8, <2>1, <2>2
  <2> QED
    BY <2>3
<1>11. OnePlace'
  BY <1>6, <1>10 DEF OnePlace
<1>12. Recorded'
  <2>1. ASSUME NEW i \in 1..Len(note'.added) PROVE Origin(note'.added[i]) \in given
    BY <1>5, <1>6 DEF Recorded
  <2>2. ASSUME NEW d \in Client, NEW i \in 1..Len(added'[d]) PROVE Origin(added'[d][i]) \in given
    <3>1. d # c
      <4>1. 1..Len(<<>>) = {}
        OBVIOUS
      <4> QED
        BY <1>2, <4>1
    <3> QED
      BY <1>2, <1>6, <3>1 DEF Recorded
  <2> QED
    BY <1>2, <2>1, <2>2 DEF Recorded
<1>13. Apart'
  <2>1. Distinct(note'.added)
    <3>1. Distinct(note.added) /\ Distinct(added[c]) /\ Keys(note.added) \cap Keys(added[c]) = {}
      BY <1>6 DEF Apart, NoteAdded
    <3>2. Distinct(note.added \o added[c])
      BY <1>4, <3>1, DistinctBoth
    <3> QED
      BY <1>1, <3>2
  <2>2. ASSUME NEW d \in Client PROVE Distinct(added'[d]) /\ NoteAdded' \cap Keys(added'[d]) = {}
    <3>1. CASE d = c
      <4>1. 1..Len(<<>>) = {}
        OBVIOUS
      <4>2. Distinct(<<>>)
        BY <4>1 DEF Distinct
      <4> QED
        BY <1>2, <1>8, <3>1, <4>2
    <3>2. CASE d # c
      <4>1. Distinct(added'[d])
        BY <1>2, <1>6, <3>2 DEF Apart
      <4>2. Keys(added'[d]) = O(d) /\ A \cap O(d) = {} /\ O(c) \cap O(d) = {}
        BY <1>8, <1>9, <3>2
      <4> HIDE DEF A, O
      <4> QED
        BY <1>7, <4>1, <4>2
    <3> QED
      BY <3>1, <3>2
  <2>3. \A d, e \in Client : d # e => Keys(added'[d]) \cap Keys(added'[e]) = {}
    <3> HIDE DEF O, X, T
    <3> QED
      BY <1>8, <1>9
  <2> QED
    BY <2>1, <2>2, <2>3 DEF Apart
<1>14. OwnDeleted => OwnDeleted'
  <2> SUFFICES ASSUME OwnDeleted, NEW g \in given PROVE
         /\ \A i \in 1..Len(note'.deleted) :
                g.position = note'.deleted[i].position => g.creator = note'.deleted[i].creator
         /\ \A d \in Client : \A i \in 1..Len(deleted'[d]) :
                g.position = deleted'[d][i].position => g.creator = deleted'[d][i].creator
    BY <1>2 DEF OwnDeleted
  <2>1. /\ \A i \in 1..Len(note.deleted) :
               g.position = note.deleted[i].position => g.creator = note.deleted[i].creator
        /\ \A d \in Client : \A i \in 1..Len(deleted[d]) :
               g.position = deleted[d][i].position => g.creator = deleted[d][i].creator
    BY DEF OwnDeleted
  <2>2. 1..Len(<<>>) = {}
    OBVIOUS
  <2>3. ASSUME NEW d \in Client, NEW i \in 1..Len(deleted'[d]),
               g.position = deleted'[d][i].position
        PROVE  g.creator = deleted'[d][i].creator
    BY <1>2, <2>1, <2>2, <2>3
  <2>4. ASSUME NEW i \in 1..Len(note'.deleted), g.position = note'.deleted[i].position
        PROVE  g.creator = note'.deleted[i].creator
    <3>1. CASE \E m \in 1..Len(note.deleted) : note'.deleted[i] = note.deleted[m]
      BY <2>1, <2>4, <3>1
    <3>2. CASE \E m \in 1..Len(deleted[c]) : note'.deleted[i] = deleted[c][m]
      BY <2>1, <2>4, <3>2
    <3> QED
      BY <1>5, <3>1, <3>2
  <2> QED
    BY <2>3, <2>4
<1> HIDE DEF A, D, O, X, T
<1>15. Within'
  <2>1. NoteDeleted' \subseteq NoteAdded'
    BY <1>7, <1>9
  <2>2. ASSUME NEW d \in Client
        PROVE  /\ Marks(text'[d]) \subseteq NoteAdded' \cup Keys(added'[d])
               /\ Keys(deleted'[d]) \subseteq NoteAdded' \cup Keys(added'[d])
    BY <1>7, <1>8, <1>9
  <2> QED
    BY <2>1, <2>2 DEF Within
<1>16. Keys(edit.added) = O(c) /\ Keys(edit.deleted) = X(c)
  BY <1>1 DEF O, X
<1>17. ASSUME NEW d \in Client, d \in joined \ {c}
       PROVE  /\ Len(inbox[d]) \in Nat /\ inbox'[d][Len(inbox[d]) + 1] = edit
              /\ \A i \in 1..Len(inbox[d]) : inbox'[d][i] = inbox[d][i]
              /\ \A i : i \in 1..Len(inbox'[d]) <=> i \in 1..Len(inbox[d]) \/ i = Len(inbox[d]) + 1
  <2>1. inbox'[d] = Append(inbox[d], edit) /\ inbox[d] \in Seq(Edits)
    BY <1>3, <1>4, <1>17
  <2> QED
    BY <2>1, AppendedComes
<1>18. \A d \in Client : Coming(d)'
  <2> TAKE d \in Client
  <2> DEFINE P(i) == Keys(inbox[d][i].added)
             Q(i) == Keys(inbox[d][i].deleted)
             n == Len(inbox[d])
  <2>1. /\ \A i \in 1..n : P(i) \subseteq A /\ Q(i) \subseteq D /\ T(d) \cap P(i) = {}
        /\ \A i, j \in 1..n : i < j => P(i) \cap P(j) = {} /\ Q(i) \cap P(j) = {}
    BY <1>6 DEF Coming, A, D, T
  <2>2. CASE d \notin joined \ {c}
    <3>1. inbox'[d] = inbox[d]
      BY <1>3, <2>2
    <3>2. \A i \in 1..n : /\ Keys(inbox'[d][i].added) \subseteq NoteAdded'
                          /\ Keys(inbox'[d][i].deleted) \subseteq NoteDeleted'
                          /\ Marks(text'[d]) \cap Keys(inbox'[d][i].added) = {}
      <4> TAKE i \in 1..n
      <4>1. P(i) \subseteq A /\ Q(i) \subseteq D /\ T(d) \cap P(i) = {}
        BY <2>1
      <4>2. Keys(inbox'[d][i].added) = P(i) /\ Keys(inbox'[d][i].deleted) = Q(i)
        BY <3>1
      <4> HIDE DEF P, Q
      <4> QED
        BY <1>7, <1>8, <4>1, <4>2
    <3>3. \A i, j \in 1..n : i < j => /\ Keys(inbox'[d][i].added) \cap Keys(inbox'[d][j].added) = {}
                                      /\ Keys(inbox'[d][i].deleted) \cap Keys(inbox'[d][j].added) = {}
      BY <2>1, <3>1
    <3>4. Len(inbox'[d]) = n
      BY <3>1
    <3> HIDE DEF n
    <3>5. \A i \in 1..Len(inbox'[d]) : /\ Keys(inbox'[d][i].added) \subseteq NoteAdded'
                                       /\ Keys(inbox'[d][i].deleted) \subseteq NoteDeleted'
                                       /\ Marks(text'[d]) \cap Keys(inbox'[d][i].added) = {}
      BY <3>2, <3>4
    <3>6. \A i, j \in 1..Len(inbox'[d]) : i < j =>
              /\ Keys(inbox'[d][i].added) \cap Keys(inbox'[d][j].added) = {}
              /\ Keys(inbox'[d][i].deleted) \cap Keys(inbox'[d][j].added) = {}
      <4> SUFFICES ASSUME NEW i \in 1..Len(inbox'[d]), NEW j \in 1..Len(inbox'[d]), i < j
                   PROVE  /\ Keys(inbox'[d][i].added) \cap Keys(inbox'[d][j].added) = {}
                          /\ Keys(inbox'[d][i].deleted) \cap Keys(inbox'[d][j].added) = {}
        OBVIOUS
      <4>1. i \in 1..n /\ j \in 1..n
        BY <3>4
      <4> QED
        BY <3>3, <4>1
    <3> QED
      BY <3>5, <3>6 DEF Coming
  <2>3. CASE d \in joined \ {c}
    <3>1. /\ n \in Nat /\ inbox'[d][n + 1] = edit /\ \A i \in 1..n : inbox'[d][i] = inbox[d][i]
          /\ \A i : i \in 1..Len(inbox'[d]) <=> i \in 1..n \/ i = n + 1
      BY <1>17, <2>3
    <3>2. T(d) \cap O(c) = {} /\ D \cap O(c) = {} /\ A \cap O(c) = {}
      BY <1>9, <2>3
    <3> DEFINE R(i) == Keys(inbox'[d][i].added)
               S(i) == Keys(inbox'[d][i].deleted)
    <3>3. /\ \A i \in 1..n : R(i) = P(i) /\ S(i) = Q(i)
          /\ R(n + 1) = O(c) /\ S(n + 1) = X(c)
      BY <1>16, <3>1
    <3> HIDE DEF P, Q, R, S, n
    <3>4. ASSUME NEW i \in 1..Len(inbox'[d])
          PROVE  R(i) \subseteq NoteAdded' /\ S(i) \subseteq NoteDeleted' /\ Marks(text'[d]) \cap R(i) = {}
      <4>1. CASE i \in 1..n
        BY <1>7, <1>8, <2>1, <3>3, <4>1
      <4>2. CASE i = n + 1
        BY <1>7, <1>8, <3>2, <3>3, <4>2
      <4> QED
        BY <3>1, <4>1, <4>2
    <3>5. ASSUME NEW i \in 1..Len(inbox'[d]), NEW j \in 1..Len(inbox'[d]), i < j
          PROVE  R(i) \cap R(j) = {} /\ S(i) \cap R(j) = {}
      <4>1. i \in 1..n
        <5>1. /\ i \in 1..n \/ i = n + 1
              /\ j \in 1..n \/ j = n + 1
          BY <3>1
        <5> QED
          BY <3>1, <3>5, <5>1
      <4>2. CASE j \in 1..n
        BY <2>1, <3>3, <3>5, <4>1, <4>2
      <4>3. CASE j = n + 1
        <5>1. P(i) \subseteq A /\ Q(i) \subseteq D
          BY <2>1, <4>1
        <5> QED
          BY <3>2, <3>3, <4>1, <4>3, <5>1
      <4> QED
        BY <3>1, <4>2, <4>3
    <3> QED
      BY <3>4, <3>5 DEF Coming, R, S
  <2> QED
    BY <2>2, <2>3
<1>19. ASSUME ~revived', NEW d \in joined' PROVE Balanced(d)'
  <2>1. d \in joined /\ d \in Client /\ Balanced(d)
    BY <1>2, <1>6, <1>19 DEF IInv, OtherShape
  <2> DEFINE P == ComingAdded(d)
             Q == ComingDeleted(d)
  <2>2. (T(d) \cup P) \ Q = (A \cup O(d)) \ (D \cup X(d))
    BY <2>1 DEF Balanced, T, A, O, D, X
  <2>3. P \subseteq A /\ Q \subseteq D
    BY <1>6, <2>1, ComingIsKnown DEF A, D
  <2>4. CASE d = c
    <3>1. ComingAdded(d)' = P /\ ComingDeleted(d)' = Q
      <4>1. inbox'[d] = inbox[d]
        BY <1>3, <2>4
      <4>2. /\ ComingAdded(d)' = UNION {Keys(inbox'[d][i].added) : i \in 1..Len(inbox'[d])}
            /\ ComingDeleted(d)' = UNION {Keys(inbox'[d][i].deleted) : i \in 1..Len(inbox'[d])}
        BY DEF ComingAdded, ComingDeleted
      <4>3. /\ P = UNION {Keys(inbox[d][i].added) : i \in 1..Len(inbox[d])}
            /\ Q = UNION {Keys(inbox[d][i].deleted) : i \in 1..Len(inbox[d])}
        BY DEF ComingAdded, ComingDeleted
      <4> HIDE DEF P, Q
      <4> QED
        BY <4>1, <4>2, <4>3
    <3> HIDE DEF P, Q
    <3>2. (T(d) \cup P) \ Q = ((A \cup O(c)) \cup {}) \ ((D \cup X(c)) \cup {})
      BY <2>2, <2>4
    <3> QED
      BY <1>7, <1>8, <2>4, <3>1, <3>2 DEF Balanced
  <2>5. CASE d # c
    <3>1. ComingAdded(d)' = P \cup O(c) /\ ComingDeleted(d)' = Q \cup X(c)
      <4> DEFINE n == Len(inbox[d])
      <4>1. /\ n \in Nat /\ inbox'[d][n + 1] = edit /\ \A i \in 1..n : inbox'[d][i] = inbox[d][i]
            /\ \A i : i \in 1..Len(inbox'[d]) <=> i \in 1..n \/ i = n + 1
        BY <1>17, <2>1, <2>5
      <4>2. \A x : x \in P <=> \E i \in 1..n : x \in Keys(inbox[d][i].added)
        BY DEF ComingAdded
      <4>3. \A x : x \in Q <=> \E i \in 1..n : x \in Keys(inbox[d][i].deleted)
        BY DEF ComingDeleted
      <4>4. \A x : x \in ComingAdded(d)' <=> \E i \in 1..Len(inbox'[d]) : x \in Keys(inbox'[d][i].added)
        BY DEF ComingAdded
      <4>5. \A x : x \in ComingDeleted(d)' <=> \E i \in 1..Len(inbox'[d]) : x \in Keys(inbox'[d][i].deleted)
        BY DEF ComingDeleted
      <4> HIDE DEF P, Q, n
      <4>6. \A x : x \in ComingAdded(d)' <=> x \in P \/ x \in O(c)
        <5> TAKE x
        <5>1. ASSUME NEW i \in 1..n PROVE i \in 1..Len(inbox'[d]) /\ inbox'[d][i].added = inbox[d][i].added
          BY <4>1
        <5>2. n + 1 \in 1..Len(inbox'[d]) /\ Keys(inbox'[d][n + 1].added) = O(c)
          BY <1>16, <4>1
        <5>3. ASSUME NEW i \in 1..Len(inbox'[d]) PROVE i \in 1..n \/ i = n + 1
          BY <4>1
        <5>4. (\E i \in 1..Len(inbox'[d]) : x \in Keys(inbox'[d][i].added))
                  <=> (\E i \in 1..n : x \in Keys(inbox[d][i].added)) \/ x \in O(c)
          BY <5>1, <5>2, <5>3
        <5> QED
          BY <4>2, <4>4, <5>4
      <4>7. \A x : x \in ComingDeleted(d)' <=> x \in Q \/ x \in X(c)
        <5> TAKE x
        <5>1. ASSUME NEW i \in 1..n PROVE i \in 1..Len(inbox'[d]) /\ inbox'[d][i].deleted = inbox[d][i].deleted
          BY <4>1
        <5>2. n + 1 \in 1..Len(inbox'[d]) /\ Keys(inbox'[d][n + 1].deleted) = X(c)
          BY <1>16, <4>1
        <5>3. ASSUME NEW i \in 1..Len(inbox'[d]) PROVE i \in 1..n \/ i = n + 1
          BY <4>1
        <5>4. (\E i \in 1..Len(inbox'[d]) : x \in Keys(inbox'[d][i].deleted))
                  <=> (\E i \in 1..n : x \in Keys(inbox[d][i].deleted)) \/ x \in X(c)
          BY <5>1, <5>2, <5>3
        <5> QED
          BY <4>3, <4>5, <5>4
      <4> QED
        BY <4>6, <4>7
    <3> HIDE DEF P, Q
    <3>2. O(c) \cap A = {} /\ O(c) \cap O(d) = {} /\ D \subseteq A /\ X(d) \subseteq A \cup O(d)
      BY <1>9, <2>1, <2>5
    <3>3. (T(d) \cup (P \cup O(c))) \ (Q \cup X(c)) = ((A \cup O(c)) \cup O(d)) \ ((D \cup X(c)) \cup X(d))
      BY <2>2, <2>3, <3>2
    <3> QED
      BY <1>7, <1>8, <2>1, <2>5, <3>1, <3>3 DEF Balanced
  <2> QED
    BY <2>4, <2>5
<1> QED
  BY <1>2, <1>6, <1>11, <1>12, <1>13, <1>14, <1>15, <1>18, <1>19 DEF Books

LEMMA SendChangesKeepsCInv ==
    ASSUME IInv, CInv, NEW c \in Client, SendChanges(c)
    PROVE  CInv'
<1> DEFINE edit == [added |-> added[c], deleted |-> deleted[c]]
<1>1. /\ c \in joined
      /\ added' = [added EXCEPT ![c] = <<>>] /\ deleted' = [deleted EXCEPT ![c] = <<>>]
      /\ up' \in {up, FALSE}
      /\ IF up'
         THEN /\ note' = [added |-> note.added \o edit.added,
                          deleted |-> note.deleted \o edit.deleted]
              /\ inbox' = [d \in Client |-> IF d \in joined \ {c} THEN Append(inbox[d], edit)
                                                                 ELSE inbox[d]]
         ELSE UNCHANGED <<note, inbox>>
      /\ UNCHANGED <<joined, text, given, reused, misread, foreign, revived>>
  BY DEF SendChanges
<1> HIDE DEF edit
<1>2. OnlyOwn(c) /\ added'[c] = <<>> /\ deleted'[c] = <<>> /\ text'[c] = text[c]
  BY <1>1, KeysOfWritten DEF OnlyOwn
<1>3. Absent'
  <2>1. \A d \in Client : d \notin joined => inbox'[d] = inbox[d]
    BY <1>1
  <2> QED
    BY <1>1, <1>2, <2>1, OthersStayAbsent DEF CInv, OnlyOwn
<1>4. ASSUME Undisturbed' PROVE Books'
  <2>1. up' /\ Undisturbed
    BY <1>1, <1>4 DEF Undisturbed, IInv, OtherShape
  <2>2. Books
    BY <2>1 DEF CInv
  <2>3. /\ note' = [added |-> note.added \o edit.added, deleted |-> note.deleted \o edit.deleted]
        /\ inbox' = [d \in Client |-> IF d \in joined \ {c} THEN Append(inbox[d], edit) ELSE inbox[d]]
    BY <1>1, <2>1
  <2>4. UNCHANGED <<joined, given, foreign, revived>>
    BY <1>1
  <2>5. edit = [added |-> added[c], deleted |-> deleted[c]]
    BY DEF edit
  <2> QED
    BY <1>2, <2>2, <2>3, <2>4, <2>5, SendingKeepsBooks
<1> QED
  BY <1>3, <1>4 DEF CInv

-----------------------------------------------------------------------------
(* Receiving.                                                               *)

LEMMA TakenFromInbox ==
    ASSUME NEW s \in Seq(Edits), s # <<>>
    PROVE  /\ Len(s) \in Nat /\ Len(s) >= 1 /\ Len(Tail(s)) = Len(s) - 1
           /\ Head(s) = s[1]
           /\ \A i \in 1..Len(Tail(s)) : i + 1 \in 2..Len(s) /\ Tail(s)[i] = s[i + 1]
<1> DEFINE n == Len(s)
           t == Tail(s)
<1>1. n \in Nat /\ n >= 1 /\ Len(t) = n - 1 /\ \A i \in 1..(n - 1) : t[i] = s[i + 1]
  BY HeadTailProperties
<1> HIDE DEF n, t
<1>2. \A i \in 1..Len(t) : i + 1 \in 2..n /\ t[i] = s[i + 1]
  BY <1>1
<1> QED
  BY <1>1, <1>2 DEF n, t

LEMMA ReceivingKeepsBooks ==
    ASSUME IInv, Books, NEW c \in Client, c \in joined,
           NEW edit, NEW rest, OnlyOwn(c), added' = added, deleted' = deleted,
           edit = inbox[c][1], 1 \in 1..Len(inbox[c]),
           \A i \in 1..Len(rest) : i + 1 \in 2..Len(inbox[c]) /\ rest[i] = inbox[c][i + 1],
           Len(rest) = Len(inbox[c]) - 1,
           inbox' = [inbox EXCEPT ![c] = rest],
           Marks(text'[c]) = (Marks(text[c]) \cup Keys(edit.added)) \ Keys(edit.deleted),
           UNCHANGED <<joined, note, given, foreign, revived>>
    PROVE  Books'
<1> DEFINE A == NoteAdded
           D == NoteDeleted
           O(d) == Keys(added[d])
           X(d) == Keys(deleted[d])
           T(d) == Marks(text[d])
           P(i) == Keys(inbox[c][i].added)
           Q(i) == Keys(inbox[c][i].deleted)
           n == Len(inbox[c])
<1>1. /\ \A d \in Client : d # c => text'[d] = text[d] /\ inbox'[d] = inbox[d]
      /\ inbox'[c] = rest /\ n \in Nat /\ Len(rest) = n - 1 /\ Len(rest) \in Nat
  <2>1. n \in Nat /\ 1 \in 1..n
    BY KeysOfWritten
  <2> QED
    BY <2>1, KeysOfWritten DEF OnlyOwn
<1>2. /\ OnePlace /\ Recorded /\ Apart /\ Within /\ (\A d \in Client : Coming(d))
      /\ (~foreign => OwnDeleted) /\ (~revived => \A d \in joined : Balanced(d))
  BY DEF Books
<1>3. NoteAdded' = A /\ NoteDeleted' = D /\ Known' = Known
  BY DEF NoteAdded, NoteDeleted, Known
<1>4. OnePlace' /\ Recorded' /\ Apart' /\ (OwnDeleted => OwnDeleted')
  <2>1. OnePlace'
    BY <1>2, <1>3 DEF OnePlace
  <2>2. Recorded'
    BY <1>2 DEF Recorded
  <2>3. Apart'
    BY <1>2, <1>3 DEF Apart
  <2>4. OwnDeleted => OwnDeleted'
    BY DEF OwnDeleted
  <2> QED
    BY <2>1, <2>2, <2>3, <2>4
<1>5. /\ \A i \in 1..n : P(i) \subseteq A /\ Q(i) \subseteq D /\ T(c) \cap P(i) = {}
      /\ \A i, j \in 1..n : i < j => P(i) \cap P(j) = {} /\ Q(i) \cap P(j) = {}
  <2>1. Coming(c)
    BY <1>2
  <2> QED
    BY <2>1 DEF Coming
<1>6. D \subseteq A /\ \A d \in Client : T(d) \subseteq A \cup O(d) /\ X(d) \subseteq A \cup O(d)
  BY <1>2 DEF Within
<1>7. Marks(text'[c]) = (T(c) \cup P(1)) \ Q(1)
  OBVIOUS
<1>8. Within'
  <2>1. ASSUME NEW d \in Client PROVE Marks(text'[d]) \subseteq A \cup O(d)
    <3>1. CASE d # c
      BY <1>1, <1>6, <3>1
    <3>2. CASE d = c
      <4>1. P(1) \subseteq A /\ T(c) \subseteq A \cup O(c)
        BY <1>5, <1>6
      <4> HIDE DEF A, O, P, Q, T
      <4> QED
        BY <1>7, <3>2, <4>1
    <3> QED
      BY <3>1, <3>2
  <2> QED
    BY <1>3, <1>6, <2>1 DEF Within
<1>9. \A i \in 1..Len(rest) : /\ i + 1 \in 1..n /\ 1 < i + 1
                              /\ Keys(rest[i].added) = P(i + 1) /\ Keys(rest[i].deleted) = Q(i + 1)
  BY <1>1
<1>10. \A d \in Client : Coming(d)'
  <2> TAKE d \in Client
  <2>1. CASE d # c
    <3>1. text'[d] = text[d] /\ inbox'[d] = inbox[d] /\ Coming(d)
      BY <1>1, <1>2, <2>1
    <3> QED
      BY <1>3, <3>1 DEF Coming
  <2>2. CASE d = c
    <3> HIDE DEF A, D, O, X, T, P, Q, n
    <3>1. ASSUME NEW i \in 1..Len(rest)
          PROVE  /\ Keys(rest[i].added) \subseteq A /\ Keys(rest[i].deleted) \subseteq D
                 /\ Marks(text'[c]) \cap Keys(rest[i].added) = {}
      <4>1. /\ P(i + 1) \subseteq A /\ Q(i + 1) \subseteq D /\ T(c) \cap P(i + 1) = {}
            /\ P(1) \cap P(i + 1) = {}
        <5>1. i + 1 \in 1..n /\ 1 \in 1..n /\ 1 < i + 1
          BY <1>9 DEF n
        <5> QED
          BY <1>5, <5>1
      <4> QED
        BY <1>7, <1>9, <4>1
    <3>2. ASSUME NEW i \in 1..Len(rest), NEW j \in 1..Len(rest), i < j
          PROVE  /\ Keys(rest[i].added) \cap Keys(rest[j].added) = {}
                 /\ Keys(rest[i].deleted) \cap Keys(rest[j].added) = {}
      <4>1. i + 1 \in 1..n /\ j + 1 \in 1..n /\ i + 1 < j + 1
        <5>1. i + 1 < j + 1
          BY <1>1, <3>2
        <5> QED
          BY <1>9, <5>1
      <4>2. P(i + 1) \cap P(j + 1) = {} /\ Q(i + 1) \cap P(j + 1) = {}
        BY <1>5, <4>1
      <4> QED
        BY <1>9, <4>2
    <3>3. inbox'[d] = rest
      BY <1>1, <2>2
    <3> QED
      BY <1>3, <2>2, <3>1, <3>2, <3>3 DEF Coming, A, D
  <2> QED
    BY <2>1, <2>2
<1>11. ASSUME ~revived', NEW d \in joined' PROVE Balanced(d)'
  <2>1. d \in joined /\ d \in Client /\ Balanced(d)
    BY <1>2, <1>11 DEF IInv, OtherShape
  <2>2. CASE d # c
    <3>1. ComingAdded(d)' = ComingAdded(d) /\ ComingDeleted(d)' = ComingDeleted(d)
      <4>1. inbox'[d] = inbox[d]
        BY <1>1, <2>1, <2>2
      <4>2. /\ ComingAdded(d)' = UNION {Keys(inbox'[d][i].added) : i \in 1..Len(inbox'[d])}
            /\ ComingDeleted(d)' = UNION {Keys(inbox'[d][i].deleted) : i \in 1..Len(inbox'[d])}
        BY DEF ComingAdded, ComingDeleted
      <4> QED
        BY <4>1, <4>2 DEF ComingAdded, ComingDeleted
    <3>2. text'[d] = text[d]
      BY <1>1, <2>1, <2>2
    <3> QED
      BY <1>3, <2>1, <3>1, <3>2 DEF Balanced
  <2>3. CASE d = c
    <3> DEFINE R == ComingAdded(c)'
               S == ComingDeleted(c)'
    <3>1. /\ \A x : x \in ComingAdded(c) <=> \E i \in 1..n : x \in P(i)
          /\ \A x : x \in ComingDeleted(c) <=> \E i \in 1..n : x \in Q(i)
      BY DEF ComingAdded, ComingDeleted
    <3>2. /\ \A x : x \in R <=> \E i \in 1..Len(rest) : x \in Keys(rest[i].added)
          /\ \A x : x \in S <=> \E i \in 1..Len(rest) : x \in Keys(rest[i].deleted)
      BY <1>1 DEF ComingAdded, ComingDeleted
    <3>3. \A i \in 1..n : i = 1 \/ (i - 1 \in 1..Len(rest) /\ (i - 1) + 1 = i)
      BY <1>1
    <3> HIDE DEF A, D, O, X, T, P, Q, n, R, S
    <3>4. \A x : x \in R <=> \E i \in 1..Len(rest) : x \in P(i + 1)
      <4>1. \A i \in 1..Len(rest) : Keys(rest[i].added) = P(i + 1)
        BY <1>9
      <4>2. ASSUME NEW x, x \in R PROVE \E i \in 1..Len(rest) : x \in P(i + 1)
        <5>1. PICK i \in 1..Len(rest) : x \in Keys(rest[i].added)
          BY <3>2, <4>2
        <5> QED
          BY <4>1, <5>1
      <4>3. ASSUME NEW x, NEW i \in 1..Len(rest), x \in P(i + 1) PROVE x \in R
        <5>1. x \in Keys(rest[i].added)
          BY <4>1, <4>3
        <5> QED
          BY <3>2, <5>1
      <4> QED
        BY <4>2, <4>3
    <3>5. \A x : x \in S <=> \E i \in 1..Len(rest) : x \in Q(i + 1)
      <4>1. \A i \in 1..Len(rest) : Keys(rest[i].deleted) = Q(i + 1)
        BY <1>9
      <4>2. ASSUME NEW x, x \in S PROVE \E i \in 1..Len(rest) : x \in Q(i + 1)
        <5>1. PICK i \in 1..Len(rest) : x \in Keys(rest[i].deleted)
          BY <3>2, <4>2
        <5> QED
          BY <4>1, <5>1
      <4>3. ASSUME NEW x, NEW i \in 1..Len(rest), x \in Q(i + 1) PROVE x \in S
        <5>1. x \in Keys(rest[i].deleted)
          BY <4>1, <4>3
        <5> QED
          BY <3>2, <5>1
      <4> QED
        BY <4>2, <4>3
    <3>6. 1 \in 1..n
      BY DEF n
    <3>7. ComingAdded(c) = P(1) \cup R
      <4>1. ASSUME NEW x, x \in ComingAdded(c) PROVE x \in P(1) \cup R
        <5>1. PICK i \in 1..n : x \in P(i)
          BY <3>1, <4>1
        <5> QED
          BY <3>3, <3>4, <5>1
      <4>2. ASSUME NEW x \in P(1) \cup R PROVE x \in ComingAdded(c)
        <5>1. CASE x \in R
          <6>1. PICK i \in 1..Len(rest) : x \in P(i + 1)
            BY <3>4, <5>1
          <6> QED
            BY <1>9, <3>1, <6>1
        <5> QED
          BY <3>1, <3>6, <5>1
      <4> QED
        BY <4>1, <4>2
    <3>8. ComingDeleted(c) = Q(1) \cup S
      <4>1. ASSUME NEW x, x \in ComingDeleted(c) PROVE x \in Q(1) \cup S
        <5>1. PICK i \in 1..n : x \in Q(i)
          BY <3>1, <4>1
        <5> QED
          BY <3>3, <3>5, <5>1
      <4>2. ASSUME NEW x \in Q(1) \cup S PROVE x \in ComingDeleted(c)
        <5>1. CASE x \in S
          <6>1. PICK i \in 1..Len(rest) : x \in Q(i + 1)
            BY <3>5, <5>1
          <6> QED
            BY <1>9, <3>1, <6>1
        <5> QED
          BY <3>1, <3>6, <5>1
      <4> QED
        BY <4>1, <4>2
    <3>9. Q(1) \cap R = {}
      <4> SUFFICES ASSUME NEW x, x \in Q(1), x \in R PROVE FALSE
        OBVIOUS
      <4>1. PICK i \in 1..Len(rest) : x \in P(i + 1)
        BY <3>4
      <4>2. Q(1) \cap P(i + 1) = {}
        BY <1>5, <1>9, <3>6
      <4> QED
        BY <4>1, <4>2
    <3>10. (T(c) \cup (P(1) \cup R)) \ (Q(1) \cup S) = (A \cup O(c)) \ (D \cup X(c))
      BY <2>1, <2>3, <3>7, <3>8 DEF Balanced, T, A, O, D, X
    <3>11. (((T(c) \cup P(1)) \ Q(1)) \cup R) \ S = (A \cup O(c)) \ (D \cup X(c))
      BY <3>9, <3>10
    <3> QED
      BY <1>3, <1>7, <2>3, <3>11 DEF Balanced, R, S, A, O, D, X
  <2> QED
    BY <2>2, <2>3
<1> QED
  BY <1>2, <1>4, <1>8, <1>10, <1>11 DEF Books

LEMMA ApplyKeepsCInv ==
    ASSUME IInv, CInv, NEW c \in Client, Apply(c)
    PROVE  CInv'
<1> DEFINE edit == Head(inbox[c])
           rest == Tail(inbox[c])
           new == applyChanges(text[c], edit, c)
<1>1. /\ inbox[c] # <<>> /\ inbox' = [inbox EXCEPT ![c] = rest]
      /\ text' = [text EXCEPT ![c] = new]
      /\ UNCHANGED <<joined, added, deleted, note, up, given, reused, misread, foreign, revived>>
  BY DEF Apply
<1>2. inbox[c] \in Seq(Edits) /\ inbox \in [Client -> Seq(Edits)]
  BY KeysOfWritten
<1>3. edit \in Edits
  BY <1>1, <1>2, HeadTailProperties
<1>4. c \in Nat /\ text[c] \in TextOf(c)
  BY ClientAssumption DEF IInv, TextsShape
<1>5. /\ Len(inbox[c]) \in Nat /\ Len(inbox[c]) >= 1 /\ Len(rest) = Len(inbox[c]) - 1
      /\ edit = inbox[c][1]
      /\ \A i \in 1..Len(rest) : i + 1 \in 2..Len(inbox[c]) /\ rest[i] = inbox[c][i + 1]
  BY <1>1, <1>2, TakenFromInbox
<1> HIDE DEF edit, rest
<1>6. edit.added \in Seq(AsWritten(Letters)) /\ edit.deleted \in Seq(AsWritten(Letters))
  BY <1>3 DEF Edits, Sendable
<1>7. 1 \in 1..Len(inbox[c])
  BY <1>5
<1>8. c \in joined
  BY <1>1 DEF CInv, Absent
<1>9. OnlyOwn(c) /\ text'[c] = new
  BY <1>1 DEF OnlyOwn, IInv, TextsShape
<1>10. Absent'
  <2>1. \A d \in Client : d # c => inbox'[d] = inbox[d]
    BY <1>1, <1>2
  <2> QED
    BY <1>1, <1>8, <1>9, <2>1, OthersStayAbsent DEF CInv, OnlyOwn
<1>11. ASSUME Undisturbed' PROVE Books'
  <2>1. Undisturbed
    BY <1>1, <1>11 DEF Undisturbed
  <2>2. Books /\ Sorted(text[c])
    BY <2>1 DEF CInv, IInv, InOrder, Undisturbed
  <2>3. OnePlace /\ Within /\ Coming(c)
    BY <2>2 DEF Books
  <2>4. Marks(text[c]) \cup Keys(edit.added) \subseteq Known
    <3>1. Keys(edit.added) \subseteq NoteAdded /\ Marks(text[c]) \subseteq NoteAdded \cup Keys(added[c])
      BY <1>5, <1>7, <2>3 DEF Coming, Within
    <3> QED
      BY <3>1 DEF Known
  <2>5. \A m \in Marks(text[c]) \cup Keys(edit.added), k \in Keys(edit.added) :
            m.position = k.position => m = k
    BY <2>3, <2>4 DEF OnePlace
  <2>6. Marks(new) = (Marks(text[c]) \cup Keys(edit.added)) \ Keys(edit.deleted)
    BY <1>4, <1>6, <2>2, <2>5, RootIsRoot, applyChangesShows DEF TextOf
  <2>7. UNCHANGED <<joined, note, given, foreign, revived>> /\ added' = added /\ deleted' = deleted
    BY <1>1
  <2>8. Marks(text'[c]) = (Marks(text[c]) \cup Keys(edit.added)) \ Keys(edit.deleted)
    BY <1>9, <2>6
  <2> QED
    BY <1>1, <1>5, <1>7, <1>8, <1>9, <2>2, <2>7, <2>8, ReceivingKeepsBooks
<1> QED
  BY <1>10, <1>11 DEF CInv

-----------------------------------------------------------------------------
(* Joining: what is left of the note is what it has and nobody deleted.     *)

LEMMA KeysOfLeft ==
    ASSUME IInv
    PROVE  /\ Keys(Left(note)) \subseteq NoteAdded
           /\ Recorded /\ OwnDeleted => Keys(Left(note)) = NoteAdded \ NoteDeleted
<1>1. note.added \in Seq(Sendable) /\ note.deleted \in Seq(Sendable)
  BY KeysOfWritten
<1>2. Left(note) \in Seq(Sendable)
  BY LeftIsWritten DEF IInv, BuffersShape, Edits
<1>3. ToSet(Left(note)) = ToSet(note.added) \ ToSet(note.deleted)
  BY <1>1, LeftHas
<1>4. \A s \in Seq(Sendable) : /\ ToSet(s) = {s[i] : i \in 1..Len(s)}
                               /\ Keys(s) = {Key(w) : w \in ToSet(s)}
  BY DEF ToSet, Keys
<1>5. Keys(Left(note)) \subseteq NoteAdded
  BY <1>1, <1>2, <1>3, <1>4 DEF NoteAdded
<1>6. ASSUME Recorded, OwnDeleted,
             NEW w \in ToSet(note.added), NEW v \in ToSet(note.deleted), Key(w) = Key(v)
      PROVE  w = v
  <2>1. PICK i \in 1..Len(note.added) : w = note.added[i]
    BY <1>1, <1>4
  <2>2. PICK j \in 1..Len(note.deleted) : v = note.deleted[j]
    BY <1>1, <1>4
  <2>3. Origin(w) \in given
    BY <1>6, <2>1 DEF Recorded
  <2>4. w.c = v.c /\ w.position = v.position
    BY <1>6 DEF Key
  <2>5. w.creator = v.creator
    <3>1. Origin(w).position = note.deleted[j].position /\ Origin(w).creator = w.creator
      BY <2>2, <2>4 DEF Origin
    <3> QED
      BY <1>6, <2>2, <2>3, <3>1 DEF OwnDeleted
  <2>6. w \in Sendable /\ v \in Sendable
    BY <1>1, <2>1, <2>2
  <2> QED
    BY <2>4, <2>5, <2>6 DEF Sendable, AsWritten
<1>7. ASSUME Recorded, OwnDeleted PROVE Keys(Left(note)) = NoteAdded \ NoteDeleted
  <2>1. ASSUME NEW k \in Keys(Left(note)) PROVE k \notin NoteDeleted
    <3>1. PICK w \in ToSet(note.added) : k = Key(w) /\ w \notin ToSet(note.deleted)
      BY <1>2, <1>3, <1>4
    <3>2. \A v \in ToSet(note.deleted) : Key(v) # k
      BY <1>6, <1>7, <3>1
    <3> QED
      BY <1>1, <1>4, <3>2 DEF NoteDeleted
  <2>2. ASSUME NEW k \in NoteAdded, k \notin NoteDeleted PROVE k \in Keys(Left(note))
    <3>1. PICK w \in ToSet(note.added) : k = Key(w)
      BY <1>1, <1>4 DEF NoteAdded
    <3>2. w \notin ToSet(note.deleted)
      BY <1>1, <1>4, <2>2, <3>1 DEF NoteDeleted
    <3> QED
      BY <1>2, <1>3, <1>4, <3>1, <3>2
  <2> QED
    BY <1>5, <2>1, <2>2
<1> QED
  BY <1>5, <1>7

LEMMA JoinKeepsCInv ==
    ASSUME IInv, CInv, NEW c \in Client, Join(c)
    PROVE  CInv'
<1> DEFINE first == [added |-> Left(note), deleted |-> <<>>]
<1>1. /\ up /\ c \notin joined /\ joined' = joined \cup {c}
      /\ inbox' = [inbox EXCEPT ![c] = <<first>>] /\ revived' = (revived \/ foreign)
      /\ UNCHANGED <<text, added, deleted, note, up, given, reused, misread, foreign>>
  BY DEF Join
<1>2. first.added = Left(note) /\ first.deleted = <<>> /\ inbox \in [Client -> Seq(Edits)]
  BY KeysOfWritten
<1> HIDE DEF first
<1>3. inbox'[c] = <<first>> /\ \A d \in Client : d # c => inbox'[d] = inbox[d]
  BY <1>1, <1>2
<1>4. 1..Len(<<first>>) = {1} /\ <<first>>[1] = first
  OBVIOUS
<1>5. /\ Marks(text[c]) = {} /\ Keys(added[c]) = {} /\ Keys(deleted[c]) = {}
  BY <1>1, KeysOfNothing DEF CInv, Absent
<1>6. Absent'
  BY <1>1, <1>3, OthersStayAbsent DEF CInv
<1>7. ASSUME Undisturbed' PROVE Books'
  <2>1. Books
    BY <1>1, <1>7 DEF Undisturbed, CInv
  <2>2. /\ OnePlace /\ Recorded /\ Apart /\ Within /\ (\A d \in Client : Coming(d))
        /\ (~foreign => OwnDeleted) /\ (~revived => \A d \in joined : Balanced(d))
    BY <2>1 DEF Books
  <2>3. NoteAdded' = NoteAdded /\ NoteDeleted' = NoteDeleted /\ Known' = Known
    BY <1>1 DEF NoteAdded, NoteDeleted, Known
  <2>4. OnePlace' /\ Recorded' /\ Apart' /\ Within' /\ (OwnDeleted => OwnDeleted')
    <3>1. OnePlace'
      BY <2>2, <2>3 DEF OnePlace
    <3>2. Recorded'
      BY <1>1, <2>2 DEF Recorded
    <3>3. Apart'
      BY <1>1, <2>2, <2>3 DEF Apart
    <3>4. Within'
      BY <1>1, <2>2, <2>3 DEF Within
    <3>5. OwnDeleted => OwnDeleted'
      BY <1>1 DEF OwnDeleted
    <3> QED
      BY <3>1, <3>2, <3>3, <3>4, <3>5
  <2>5. ASSUME NEW d \in Client PROVE Coming(d)'
    <3>1. CASE d # c
      <4>1. inbox'[d] = inbox[d] /\ text'[d] = text[d] /\ Coming(d)
        BY <1>1, <1>3, <2>2, <3>1
      <4> QED
        BY <2>3, <4>1 DEF Coming
    <3>2. CASE d = c
      <4>1. \A i \in 1..Len(inbox'[c]) : i = 1 /\ inbox'[c][i] = first
        BY <1>3, <1>4
      <4>2. /\ Keys(first.added) \subseteq NoteAdded /\ Keys(first.deleted) = {}
            /\ Marks(text'[c]) = {}
        BY <1>1, <1>2, <1>5, KeysOfLeft, KeysOfNothing
      <4>3. \A i, j \in 1..Len(inbox'[c]) : ~(i < j)
        BY <4>1
      <4> QED
        BY <2>3, <3>2, <4>1, <4>2, <4>3 DEF Coming
    <3> QED
      BY <3>1, <3>2
  <2>6. ASSUME ~revived', NEW d \in joined' PROVE Balanced(d)'
    <3>1. ~revived /\ ~foreign /\ OwnDeleted /\ d \in Client
      BY <1>1, <2>2, <2>6 DEF IInv, OtherShape
    <3>2. CASE d # c
      <4>1. d \in joined /\ Balanced(d)
        BY <1>1, <2>2, <2>6, <3>1, <3>2
      <4>2. ComingAdded(d)' = ComingAdded(d) /\ ComingDeleted(d)' = ComingDeleted(d)
        <5>1. inbox'[d] = inbox[d]
          BY <1>3, <3>1, <3>2
        <5>2. /\ ComingAdded(d)' = UNION {Keys(inbox'[d][i].added) : i \in 1..Len(inbox'[d])}
              /\ ComingDeleted(d)' = UNION {Keys(inbox'[d][i].deleted) : i \in 1..Len(inbox'[d])}
          BY DEF ComingAdded, ComingDeleted
        <5> QED
          BY <5>1, <5>2 DEF ComingAdded, ComingDeleted
      <4> QED
        BY <1>1, <2>3, <4>1, <4>2 DEF Balanced
    <3>3. CASE d = c
      <4>1. ComingAdded(c)' = Keys(first.added) /\ ComingDeleted(c)' = Keys(first.deleted)
        <5>1. /\ ComingAdded(c)' = UNION {Keys(inbox'[c][i].added) : i \in 1..Len(inbox'[c])}
              /\ ComingDeleted(c)' = UNION {Keys(inbox'[c][i].deleted) : i \in 1..Len(inbox'[c])}
          BY DEF ComingAdded, ComingDeleted
        <5>2. 1..Len(inbox'[c]) = {1} /\ inbox'[c][1] = first
          BY <1>3, <1>4
        <5> QED
          BY <5>1, <5>2
      <4>2. Keys(first.added) = NoteAdded \ NoteDeleted /\ Keys(first.deleted) = {}
        BY <1>2, <2>2, <3>1, KeysOfLeft, KeysOfNothing
      <4>3. ({} \cup (NoteAdded \ NoteDeleted)) \ {} = (NoteAdded \cup {}) \ (NoteDeleted \cup {})
        OBVIOUS
      <4> QED
        BY <1>1, <1>5, <2>3, <3>3, <4>1, <4>2, <4>3 DEF Balanced
    <3> QED
      BY <3>2, <3>3
  <2> QED
    BY <1>1, <2>2, <2>4, <2>5, <2>6 DEF Books
<1> QED
  BY <1>6, <1>7 DEF CInv

(* Every step keeps the books.                                              *)
LEMMA NextKeepsCInv == IInv /\ CInv /\ [Next]_vars => CInv'
<1> SUFFICES ASSUME IInv, CInv, [Next]_vars PROVE CInv'
  OBVIOUS
<1>1. CASE Next
  <2>1. ASSUME NEW c \in Client, NEW i \in 1..Len(text[c]), NEW k \in 0..1, NEW letter \in Letter,
               Type(c, i, k, letter)
        PROVE  CInv'
    BY <2>1, TypeKeepsCInv
  <2>2. ASSUME NEW c \in Client, NEW i \in 1..Len(text[c]), NEW k \in 1..MaxRemoved, Delete(c, i, k)
        PROVE  CInv'
    <3>1. k \in Nat
      BY ClientAssumption
    <3> QED
      BY <2>2, <3>1, DeleteKeepsCInv
  <2>3. ASSUME NEW c \in Client, SendChanges(c) PROVE CInv'
    BY <2>3, SendChangesKeepsCInv
  <2>4. ASSUME NEW c \in Client, Apply(c) PROVE CInv'
    BY <2>4, ApplyKeepsCInv
  <2>5. ASSUME NEW c \in Client, Join(c) PROVE CInv'
    BY <2>5, JoinKeepsCInv
  <2> QED
    BY <1>1, <2>1, <2>2, <2>3, <2>4, <2>5 DEF Next
<1>2. CASE UNCHANGED vars
  <2>1. /\ joined' = joined /\ text' = text /\ added' = added /\ deleted' = deleted
        /\ inbox' = inbox /\ note' = note /\ up' = up /\ given' = given /\ reused' = reused
        /\ misread' = misread /\ foreign' = foreign /\ revived' = revived
    BY <1>2 DEF vars
  <2>2. Absent' /\ (Undisturbed' => Undisturbed)
    BY <2>1 DEF CInv, Absent, Undisturbed
  <2>3. NoteAdded' = NoteAdded /\ NoteDeleted' = NoteDeleted /\ Known' = Known
    BY <2>1 DEF NoteAdded, NoteDeleted, Known
  <2>4. ASSUME Books PROVE Books'
    <3>1. OnePlace' /\ Recorded' /\ Apart' /\ Within'
      BY <2>1, <2>3, <2>4 DEF Books, OnePlace, Recorded, Apart, Within
    <3>2. \A c \in Client : Coming(c)'
      BY <2>1, <2>3, <2>4 DEF Books, Coming
    <3>3. ~foreign' => OwnDeleted'
      BY <2>1, <2>4 DEF Books, OwnDeleted
    <3>4. ~revived' => \A c \in joined' : Balanced(c)'
      BY <2>1, <2>3, <2>4 DEF Books, Balanced, ComingAdded, ComingDeleted
    <3> QED
      BY <3>1, <3>2, <3>3, <3>4 DEF Books
  <2> QED
    BY <2>2, <2>4 DEF CInv
<1> QED
  BY <1>1, <1>2

(* Once nothing is under way, a client shows what is left of the note.      *)
LEMMA QuietShows ==
    ASSUME IInv, CInv, Quiet, ~reused, ~misread, ~revived, NEW c \in joined
    PROVE  /\ c \in Client /\ text[c] \in TextOf(c) /\ Sorted(text[c])
           /\ Marks(text[c]) = NoteAdded \ NoteDeleted
<1>1. Undisturbed /\ inbox[c] = <<>> /\ added[c] = <<>> /\ deleted[c] = <<>>
  BY DEF Quiet, Undisturbed
<1>2. c \in Client /\ Balanced(c)
  BY <1>1 DEF CInv, Books, IInv, OtherShape
<1>3. 1..Len(<<>>) = {}
  OBVIOUS
<1>4. ComingAdded(c) = {} /\ ComingDeleted(c) = {}
  BY <1>1, <1>3 DEF ComingAdded, ComingDeleted
<1>5. (Marks(text[c]) \cup {}) \ {} = (NoteAdded \cup {}) \ (NoteDeleted \cup {})
  BY <1>1, <1>2, <1>4, KeysOfNothing DEF Balanced
<1>6. Marks(text[c]) = NoteAdded \ NoteDeleted
  BY <1>5
<1> QED
  BY <1>2, <1>6 DEF IInv, TextsShape, InOrder

(* When nothing is under way all clients have the same text, in the same    *)
(* order, whatever was typed, deleted, sent and received before, unless a   *)
(* position was given twice or misread, or a client joined after somebody   *)
(* deleted what another had typed (Notepad.java, Client.java).              *)
THEOREM Converge == Spec => []Converges
<1>1. Init => CInv
  BY InitCInv
<1>2. IInv /\ CInv /\ [Next]_vars => CInv'
  BY NextKeepsCInv
<1>3. IInv /\ CInv => Converges
  <2> SUFFICES ASSUME IInv, CInv, Quiet, ~reused, ~misread, ~revived,
                      NEW c \in joined, NEW d \in joined
               PROVE  Shown(text[c]) = Shown(text[d])
    BY DEF Converges
  <2> DEFINE t == text[c]
             u == text[d]
  <2>1. t \in TextOf(c) /\ u \in TextOf(d) /\ Sorted(t) /\ Sorted(u) /\ Marks(t) = Marks(u)
    BY QuietShows
  <2> HIDE DEF t, u
  <2>2. Len(t) = Len(u) /\ \A i \in 1..Len(t) : Mark(t[i]) = Mark(u[i])
    BY <2>1, RootIsRoot, SameMarksSameText DEF TextOf
  <2>3. DOMAIN t = 1..Len(t) /\ DOMAIN u = 1..Len(u)
    BY <2>1 DEF TextOf, Text
  <2>4. /\ Shown(t) = [i \in 1..Len(t) |-> Mark(t[i])]
        /\ Shown(u) = [i \in 1..Len(u) |-> Mark(u[i])]
    BY <2>3 DEF Shown, Mark, Place
  <2>5. Shown(t) = Shown(u)
    BY <2>2, <2>4
  <2> QED
    BY <2>5 DEF t, u
<1>4. Spec => [](IInv /\ CInv)
  BY <1>1, <1>2, Inductive, PTL DEF Spec
<1> QED
  BY <1>3, <1>4, PTL

(* Who joins after a deletion under the wrong name joins after the first.   *)
Once == revived => foreign

LEMMA OnceAlways == Spec => []Once
<1>1. Init => Once
  BY DEF Init, Once
<1>2. Once /\ [Next]_vars => Once'
  <2> SUFFICES ASSUME Once, [Next]_vars PROVE Once'
    OBVIOUS
  <2>1. ASSUME NEW c \in Client, NEW i \in 1..Len(text[c]), NEW k \in 0..1, NEW letter \in Letter,
               Type(c, i, k, letter)
        PROVE  Once'
    BY <2>1 DEF Type, RemoveMultiple, Once
  <2>2. ASSUME NEW c \in Client, NEW i \in 1..Len(text[c]), NEW k \in 1..MaxRemoved, Delete(c, i, k)
        PROVE  Once'
    BY <2>2 DEF Delete, RemoveMultiple, Once
  <2>3. ASSUME NEW c \in Client, SendChanges(c) PROVE Once'
    BY <2>3 DEF SendChanges, Once
  <2>4. ASSUME NEW c \in Client, Apply(c) PROVE Once'
    BY <2>4 DEF Apply, Once
  <2>5. ASSUME NEW c \in Client, Join(c) PROVE Once'
    BY <2>5 DEF Join, Once
  <2>6. CASE UNCHANGED vars
    BY <2>6 DEF vars, Once
  <2> QED
    BY <2>1, <2>2, <2>3, <2>4, <2>5, <2>6 DEF Next
<1> QED
  BY <1>1, <1>2, PTL DEF Spec

(* What the server would save is what every client shows when nothing is    *)
(* under way, unless a position was given twice or misread, or somebody     *)
(* deleted what another had typed (Note.cpp's toString and Notepad.java).   *)
THEOREM SavesTheText == Spec => []NoteIsText
<1>1. IInv /\ CInv /\ Once => NoteIsText
  <2> SUFFICES ASSUME IInv, CInv, Once, Quiet, ~reused, ~misread, ~foreign, NEW c \in joined
               PROVE  toString(note) = [i \in 1..Len(text[c]) - 1 |-> text[c][i + 1].c]
    BY DEF NoteIsText
  <2>1. Undisturbed /\ ~revived
    BY DEF Quiet, Undisturbed, Once
  <2>2. Recorded /\ OwnDeleted /\ Distinct(note.added)
    BY <2>1 DEF CInv, Books, Apart
  <2>3. /\ text[c] \in TextOf(c) /\ Sorted(text[c])
        /\ Marks(text[c]) = Keys(Left(note))
    BY <2>1, <2>2, QuietShows, KeysOfLeft
  <2>4. note.added \in Seq(AsWritten(Letters))
    BY KeysOfWritten DEF Sendable
  <2> QED
    BY <2>2, <2>3, <2>4, RootIsRoot, toStringIsText DEF TextOf
<1>2. Spec => []CInv
  BY InitCInv, NextKeepsCInv, Inductive, PTL DEF Spec
<1> QED
  BY <1>1, <1>2, Inductive, OnceAlways, PTL
=============================================================================
