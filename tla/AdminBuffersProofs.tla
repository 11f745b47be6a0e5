------------------------- MODULE AdminBuffersProofs -------------------------
(***************************************************************************)
(* For any base, alphabet and set of messages.                             *)
(*                                                                         *)
(* Loops.  decode, NumberOf, Reader and FlattenSeq run over a sequence.    *)
(* LoopRuns says that such a loop has a value after each pass, LoopKeeps   *)
(* that what each pass keeps holds at the end; both take the least pass at *)
(* which it does not.  From them: what is read from a header is what was   *)
(* written, decode undoes encode, and a reader of whole frames, wherever   *)
(* it stops, is where the frame it is in left it (ReadPiece).              *)
(*                                                                         *)
(* Receiving.  Between the messages that the server has posted and those   *)
(* that have arrived there are whole ones, pending; what the buffer has of *)
(* the first, and the bytes on their way, are the text of them all         *)
(* (InStep).  A piece that recv() cuts moves a text from one side to the   *)
(* other, and completes a header or a body at its length.                  *)
(*                                                                         *)
(* Sending.  The queue holds the messages put last, keep-alives between    *)
(* them (Waiting); the server, reading all that was sent, has those before *)
(* the queue and the part of the first that get_message speaks of          *)
(* (UnderWay, ServerHas).                                                  *)
(***************************************************************************)
EXTENDS AdminBuffers, SequenceTheorems, WellFoundedInduction, TLAPS

-----------------------------------------------------------------------------
(* Induction on what a loop has done, from the least place where it is wrong. *)

(* A set of naturals that is not empty has a least element.                  *)
LEMMA LeastNumber ==
    ASSUME NEW S \in SUBSET Nat, S # {}
    PROVE  \E m \in S : \A n \in S : m <= n
<1> DEFINE R == OpToRel(<, Nat)
<1>1. IsWellFoundedOn(R, Nat)
  BY NatLessThanWellFounded
<1>2. PICK m \in S : \A n \in S : <<n, m>> \notin R
  <2> HIDE DEF R
  <2> QED
    BY <1>1, WFMin
<1>3. \A n \in S : ~(n < m)
  BY <1>2 DEF OpToRel
<1> QED
  BY <1>3

(* What holds before a loop and is kept by each pass holds after it.  Good   *)
(* has the numbers of passes after which it holds.                           *)
LEMMA LoopKeeps ==
    ASSUME NEW n \in Nat, NEW Good, 0 \in Good,
           \A i \in 1..n : i - 1 \in Good => i \in Good
    PROVE  n \in Good
<1> DEFINE Wrong == {i \in 0..n : i \notin Good}
<1> SUFFICES ASSUME n \notin Good PROVE FALSE
  OBVIOUS
<1>1. Wrong \in SUBSET Nat /\ Wrong # {}
  OBVIOUS
<1>2. PICK m \in Wrong : \A i \in Wrong : m <= i
  BY <1>1, LeastNumber
<1>3. m \in 1..n
  OBVIOUS
<1>4. m - 1 \in 0..n /\ m - 1 \notin Wrong
  BY <1>2, <1>3
<1> QED
  BY <1>3, <1>4

(* A loop whose passes stay in a set of values has values after each pass.   *)
Runs(T, n, b, F) ==
    \E g \in [0..n -> T] : g[0] = b /\ \A i \in 1..n : g[i] = F[i][g[i - 1]]

LEMMA LoopRuns ==
    ASSUME NEW T, NEW n \in Nat, NEW b \in T, NEW F \in [1..n -> [T -> T]]
    PROVE  Runs(T, n, b, F)
<1> DEFINE Run(m) == Runs(T, m, b, F)
           Stuck == {m \in 0..n : ~Run(m)}
<1> SUFFICES ASSUME ~Run(n) PROVE FALSE
  OBVIOUS
<1>1. Stuck \in SUBSET Nat /\ Stuck # {}
  <2>1. n \in 0..n
    OBVIOUS
  <2> QED
    BY <2>1
<1>2. PICK m \in Stuck : \A i \in Stuck : m <= i
  <2> HIDE DEF Stuck
  <2> QED
    BY <1>1, LeastNumber
<1>3. Run(0)
  <2> DEFINE g == [i \in 0..0 |-> b]
  <2>1. g \in [0..0 -> T] /\ g[0] = b /\ 1..0 = {}
    OBVIOUS
  <2> QED
    BY <2>1 DEF Runs
<1>4. m \in 0..n /\ ~Run(m)
  OBVIOUS
<1>5. m # 0
  BY <1>3, <1>4
<1>6. m - 1 \in 0..n /\ m \in 1..n /\ m - 1 \notin Stuck
  BY <1>2, <1>4, <1>5
<1>7. Run(m - 1)
  BY <1>6
<1>8. PICK g \in [0..(m - 1) -> T] :
        g[0] = b /\ \A i \in 1..(m - 1) : g[i] = F[i][g[i - 1]]
  BY <1>7 DEF Runs
<1> DEFINE h == [i \in 0..m |-> IF i = m THEN F[m][g[m - 1]] ELSE g[i]]
<1>9. g[m - 1] \in T
  BY <1>6
<1>10. F[m][g[m - 1]] \in T
  BY <1>6, <1>9
<1>11. \A i \in 0..m : i # m => i \in 0..(m - 1)
  BY <1>6
<1>12. h \in [0..m -> T]
  BY <1>10, <1>11
<1>13. h[0] = b
  BY <1>5, <1>6, <1>8
<1>14. \A i \in 1..m : h[i] = F[i][h[i - 1]]
  <2> TAKE i \in 1..m
  <2>1. h[i - 1] = g[i - 1]
    BY <1>6
  <2>2. i \in 0..m
    BY <1>6
  <2>3. CASE i = m
    BY <2>1, <2>2, <2>3
  <2>4. CASE i # m
    <3>1. i \in 1..(m - 1)
      BY <1>6, <2>4
    <3>2. g[i] = F[i][g[i - 1]]
      BY <1>8, <3>1
    <3> QED
      BY <2>1, <2>2, <2>4, <3>2
  <2> QED
    BY <2>3, <2>4
<1> HIDE DEF h
<1> QED
  BY <1>4, <1>12, <1>13, <1>14 DEF Runs

-----------------------------------------------------------------------------
(* Sequences, and the bytes that texts are sent as.                          *)

Associates(s, t, u) == (s \o t) \o u = s \o (t \o u)

LEMMA ConcatAssociates ==
    ASSUME NEW S, NEW s \in Seq(S), NEW t \in Seq(S), NEW u \in Seq(S)
    PROVE  Associates(s, t, u)
BY ConcatAssociative DEF Associates

LEMMA CutOut ==
    ASSUME NEW S, NEW s \in Seq(S), NEW m \in 1..(Len(s) + 1), NEW n \in (m - 1)..Len(s)
    PROVE  /\ SubSeq(s, m, n) \in Seq(S) /\ Len(SubSeq(s, m, n)) = n - m + 1
           /\ \A i \in 1..(n - m + 1) : SubSeq(s, m, n)[i] = s[m + i - 1]
<1>1. Len(s) \in Nat /\ \A i \in m..n : s[i] \in S
  <2>1. \A i \in m..n : i \in 1..Len(s)
    OBVIOUS
  <2> QED
    BY <2>1
<1>2. m \in Int /\ n \in Int /\ n - m + 1 >= 0
  BY <1>1
<1> QED
  BY <1>1, <1>2, SubSeqProperties

(* Two sequences cut at the same place have the same parts.                  *)
LEMMA SameParts ==
    ASSUME NEW S, NEW a \in Seq(S), NEW b \in Seq(S), NEW c \in Seq(S), NEW d \in Seq(S),
           a \o b = c \o d, Len(a) = Len(c)
    PROVE  a = c /\ b = d
<1>1. /\ Len(a) + Len(b) = Len(c) + Len(d)
      /\ Len(a) \in Nat /\ Len(b) \in Nat /\ Len(c) \in Nat /\ Len(d) \in Nat
  <2>1. Len(a \o b) = Len(a) + Len(b) /\ Len(c \o d) = Len(c) + Len(d)
    BY ConcatProperties
  <2> QED
    BY <2>1
<1>2. a = c
  <2>1. ASSUME NEW i \in 1..Len(a) PROVE a[i] = c[i]
    <3>1. (a \o b)[i] = a[i] /\ (c \o d)[i] = c[i]
      BY <1>1
    <3> QED
      BY <3>1
  <2> QED
    BY <2>1, SeqEqual
<1>3. b = d
  <2>1. ASSUME NEW i \in 1..Len(b) PROVE b[i] = d[i]
    <3> DEFINE k == i + Len(a)
    <3>1. /\ k \in 1..(Len(a) + Len(b)) /\ ~(k <= Len(a)) /\ k - Len(a) = i
          /\ k \in 1..(Len(c) + Len(d)) /\ ~(k <= Len(c)) /\ k - Len(c) = i
      BY <1>1
    <3> HIDE DEF k
    <3>2. (a \o b)[k] = b[k - Len(a)]
      BY <3>1, ConcatProperties
    <3>3. (c \o d)[k] = d[k - Len(c)]
      BY <3>1, ConcatProperties
    <3> QED
      BY <3>1, <3>2, <3>3
  <2> QED
    BY <1>1, <2>1, SeqEqual
<1> QED
  BY <1>2, <1>3

LEMMA FlattenRuns ==
    ASSUME NEW S, NEW seqs \in Seq(Seq(S))
    PROVE  \E flat \in [0..Len(seqs) -> Seq(S)] :
               /\ FlattenSeq(seqs) = flat[Len(seqs)]
               /\ flat[0] = <<>>
               /\ \A i \in 1..Len(seqs) : flat[i] = flat[i - 1] \o seqs[i]
<1> DEFINE T == Seq(S)
           n == Len(seqs)
           F == [i \in 1..n |-> [x \in T |-> x \o seqs[i]]]
           flatten == CHOOSE flatten : flatten = [i \in 1..n |->
                          IF i = 1 THEN seqs[i] ELSE flatten[i - 1] \o seqs[i]]
<1>1. n \in Nat /\ <<>> \in T /\ \A i \in 1..n : seqs[i] \in T
  BY EmptySeq
<1>2. \A i \in 1..n, x \in T : x \o seqs[i] \in T
  BY <1>1
<1> HIDE DEF n, T
<1>3. F \in [1..n -> [T -> T]] /\ \A i \in 1..n, x \in T : F[i][x] = x \o seqs[i]
  BY <1>2
<1> HIDE DEF F
<1>4. PICK g \in [0..n -> T] : g[0] = <<>> /\ \A i \in 1..n : g[i] = F[i][g[i - 1]]
  <2>1. Runs(T, n, <<>>, F)
    BY <1>1, <1>3, LoopRuns
  <2> QED
    BY <2>1 DEF Runs
<1>5. \A i \in 1..n : g[i] = g[i - 1] \o seqs[i] /\ g[i] \in T
  <2> TAKE i \in 1..n
  <2>1. i - 1 \in 0..n /\ i \in 0..n
    BY <1>1
  <2> QED
    BY <1>3, <1>4, <2>1
<1>6. CASE n = 0
  <2>1. FlattenSeq(seqs) = <<>>
    <3>1. seqs = <<>>
      BY <1>6 DEF n
    <3> QED
      BY <3>1, <1>6 DEF FlattenSeq, n
  <2> QED
    BY <1>4, <1>5, <1>6, <2>1 DEF n, T
<1>7. CASE n # 0
  <2>1. FlattenSeq(seqs) = flatten[n]
    BY <1>7 DEF FlattenSeq, n
  <2> DEFINE h == [i \in 1..n |-> g[i]]
  <2>2. 1 \in 1..n /\ g[1] = seqs[1]
    <3>1. 1 \in 1..n
      BY <1>1, <1>7
    <3>2. g[1] = g[0] \o seqs[1]
      <4>1. g[1] = g[1 - 1] \o seqs[1]
        BY <1>5, <3>1
      <4> QED
        BY <4>1
    <3>3. g[1] = <<>> \o seqs[1] /\ seqs[1] \in Seq(S)
      BY <1>1, <1>4, <3>1, <3>2 DEF T
    <3> QED
      BY <3>1, <3>3, ConcatEmptySeq
  <2>3. h = [i \in 1..n |-> IF i = 1 THEN seqs[i] ELSE h[i - 1] \o seqs[i]]
    <3>1. ASSUME NEW i \in 1..n, i # 1 PROVE h[i] = h[i - 1] \o seqs[i]
      <4>1. i - 1 \in 1..n
        BY <1>1, <3>1
      <4> QED
        BY <1>5, <3>1, <4>1
    <3> QED
      BY <2>2, <3>1
  <2> HIDE DEF h
  <2>4. flatten = [i \in 1..n |-> IF i = 1 THEN seqs[i] ELSE flatten[i - 1] \o seqs[i]]
    BY <2>3
  <2> HIDE DEF flatten
  <2> DEFINE Good == {0} \cup {i \in 1..n : flatten[i] = g[i]}
  <2>5. ASSUME NEW i \in 1..n, i - 1 \in Good PROVE i \in Good
    <3>1. CASE i = 1
      BY <2>2, <2>4, <3>1
    <3>2. CASE i # 1
      <4>1. i - 1 \in 1..n /\ flatten[i - 1] = g[i - 1]
        BY <1>1, <2>5, <3>2
      <4>2. flatten[i] = flatten[i - 1] \o seqs[i]
        BY <2>4, <3>2
      <4> QED
        BY <1>5, <4>1, <4>2
    <3> QED
      BY <3>1, <3>2
  <2>6. n \in Good
    <3>1. 0 \in Good
      OBVIOUS
    <3> HIDE DEF Good
    <3> QED
      BY <1>1, <2>5, <3>1, LoopKeeps
  <2>7. flatten[n] = g[n]
    BY <1>1, <1>7, <2>6
  <2> QED
    BY <1>4, <1>5, <2>1, <2>7 DEF n, T
<1> QED
  BY <1>6, <1>7

LEMMA FlattenIsSeq ==
    ASSUME NEW S, NEW seqs \in Seq(Seq(S))
    PROVE  FlattenSeq(seqs) \in Seq(S)
<1>1. PICK flat \in [0..Len(seqs) -> Seq(S)] : FlattenSeq(seqs) = flat[Len(seqs)]
  BY FlattenRuns
<1>2. Len(seqs) \in Nat
  OBVIOUS
<1> QED
  BY <1>1, <1>2

(* Flattening goes on at the end ...                                         *)
LEMMA FlattenAppend ==
    ASSUME NEW S, NEW seqs \in Seq(Seq(S)), NEW s \in Seq(S)
    PROVE  FlattenSeq(Append(seqs, s)) = FlattenSeq(seqs) \o s
<1> DEFINE n == Len(seqs)
           more == Append(seqs, s)
<1>1. /\ n \in Nat /\ more \in Seq(Seq(S)) /\ Len(more) = n + 1
      /\ \A i \in 1..n : more[i] = seqs[i]
      /\ more[n + 1] = s
  BY AppendProperties
<1>2. PICK f \in [0..n -> Seq(S)] :
          /\ FlattenSeq(seqs) = f[n] /\ f[0] = <<>>
          /\ \A i \in 1..n : f[i] = f[i - 1] \o seqs[i]
  BY FlattenRuns
<1>3. PICK g \in [0..(n + 1) -> Seq(S)] :
          /\ FlattenSeq(more) = g[n + 1] /\ g[0] = <<>>
          /\ \A i \in 1..(n + 1) : g[i] = g[i - 1] \o more[i]
  <2> HIDE DEF more
  <2>1. more \in Seq(Seq(S))
    BY <1>1
  <2>2. \E g \in [0..Len(more) -> Seq(S)] :
          /\ FlattenSeq(more) = g[Len(more)] /\ g[0] = <<>>
          /\ \A i \in 1..Len(more) : g[i] = g[i - 1] \o more[i]
    BY ONLY <2>1, FlattenRuns
  <2> QED
    BY <1>1, <2>2
<1> DEFINE Good == {i \in 0..n : f[i] = g[i]}
<1>4. 0 \in Good
  BY <1>1, <1>2, <1>3
<1> HIDE DEF more, n
<1>5. ASSUME NEW i \in 1..n, i - 1 \in Good PROVE i \in Good
  <2>1. i \in 0..n /\ i \in 1..(n + 1)
    BY <1>1
  <2> QED
    BY <1>1, <1>2, <1>3, <1>5, <2>1
<1>6. n \in Good
  <2> HIDE DEF Good
  <2> QED
    BY <1>1, <1>4, <1>5, LoopKeeps
<1>7. n + 1 \in 1..(n + 1) /\ (n + 1) - 1 = n
  BY <1>1
<1>8. g[n + 1] = g[n] \o s
  BY <1>1, <1>3, <1>7
<1> QED
  BY <1>2, <1>3, <1>6, <1>8 DEF more

(* ... and at the beginning.                                                 *)
LEMMA FlattenHead ==
    ASSUME NEW S, NEW seqs \in Seq(Seq(S)), seqs # <<>>
    PROVE  FlattenSeq(seqs) = Head(seqs) \o FlattenSeq(Tail(seqs))
<1>0. \A s, t, u \in Seq(S) : (s \o t) \o u = s \o (t \o u)
  <2>1. \A s, t, u \in Seq(S) : Associates(s, t, u)
    BY ONLY ConcatAssociates, Zenon
  <2> QED
    BY ONLY <2>1 DEF Associates
<1> DEFINE n == Len(Tail(seqs))
           rest == Tail(seqs)
<1>1. /\ n \in Nat /\ rest \in Seq(Seq(S)) /\ Len(seqs) = n + 1
      /\ \A i \in 1..n : rest[i] = seqs[i + 1] /\ rest[i] \in Seq(S)
      /\ seqs[1] = Head(seqs) /\ Head(seqs) \in Seq(S)
  OBVIOUS
<1>2. PICK f \in [0..n -> Seq(S)] :
          /\ FlattenSeq(rest) = f[n] /\ f[0] = <<>>
          /\ \A i \in 1..n : f[i] = f[i - 1] \o rest[i]
  <2> HIDE DEF rest
  <2>1. n = Len(rest)
    BY DEF n, rest
  <2> HIDE DEF n
  <2>2. \E f \in [0..Len(rest) -> Seq(S)] :
          /\ FlattenSeq(rest) = f[Len(rest)] /\ f[0] = <<>>
          /\ \A i \in 1..Len(rest) : f[i] = f[i - 1] \o rest[i]
    <3>1. rest \in Seq(Seq(S))
      BY <1>1
    <3> QED
      BY ONLY <3>1, FlattenRuns
  <2> QED
    BY <2>1, <2>2
<1> HIDE DEF n, rest
<1>3. PICK g \in [0..(n + 1) -> Seq(S)] :
          /\ FlattenSeq(seqs) = g[n + 1] /\ g[0] = <<>>
          /\ \A i \in 1..(n + 1) : g[i] = g[i - 1] \o seqs[i]
  <2>1. \E g \in [0..Len(seqs) -> Seq(S)] :
          /\ FlattenSeq(seqs) = g[Len(seqs)] /\ g[0] = <<>>
          /\ \A i \in 1..Len(seqs) : g[i] = g[i - 1] \o seqs[i]
    BY FlattenRuns
  <2> QED
    BY <1>1, <2>1
<1> DEFINE Good == {i \in 0..n : g[i + 1] = Head(seqs) \o f[i]}
<1>4. 0 \in Good
  <2>1. 1 \in 1..(n + 1) /\ 0 \in 0..n
    BY <1>1
  <2>2. g[1] = g[0] \o seqs[1]
    <3>1. g[1] = g[1 - 1] \o seqs[1]
      BY <1>3, <2>1
    <3> QED
      BY <3>1
  <2>3. g[1] = Head(seqs) /\ Head(seqs) \o f[0] = Head(seqs)
    BY <1>1, <1>2, <1>3, <2>2, ConcatEmptySeq
  <2> QED
    BY <2>1, <2>3
<1>5. ASSUME NEW i \in 1..n, i - 1 \in Good PROVE i \in Good
  <2>1. i \in 0..n /\ i + 1 \in 1..(n + 1) /\ i - 1 \in 0..n /\ i = (i - 1) + 1
    BY <1>1
  <2>2. g[i] = Head(seqs) \o f[i - 1]
    BY <1>5, <2>1
  <2>3. g[i + 1] = g[i] \o rest[i]
    <3>1. g[i + 1] = g[(i + 1) - 1] \o seqs[i + 1]
      BY <1>3, <2>1
    <3>2. (i + 1) - 1 = i /\ seqs[i + 1] = rest[i]
      BY <1>1, <2>1
    <3> QED
      BY <3>1, <3>2
  <2>4. (Head(seqs) \o f[i - 1]) \o rest[i] = Head(seqs) \o (f[i - 1] \o rest[i])
    <3>1. f[i - 1] \in Seq(S) /\ rest[i] \in Seq(S)
      BY <1>1, <2>1
    <3> QED
      BY <1>0, <1>1, <3>1
  <2> QED
    BY <1>2, <2>1, <2>2, <2>3, <2>4
<1>6. n \in Good
  <2> HIDE DEF Good
  <2> QED
    BY <1>1, <1>4, <1>5, LoopKeeps
<1> QED
  BY <1>2, <1>3, <1>6 DEF rest

-----------------------------------------------------------------------------
(* The numbers in a header.                                                  *)

LEMMA Divided ==
    ASSUME NEW k \in Int, NEW b \in Int, b > 0
    PROVE  k = b * (k \div b) + (k % b)
OBVIOUS

LEMMA Division ==
    ASSUME NEW k \in Nat, NEW b \in Nat \ {0}
    PROVE  k \div b \in Nat /\ k % b \in 0..(b - 1) /\ k = b * (k \div b) + (k % b)
<1>1. k \div b \in Int /\ k % b \in 0..(b - 1)
  OBVIOUS
<1>2. k = b * (k \div b) + (k % b)
  BY Divided
<1>3. k \div b >= 0
  BY <1>1, <1>2
<1> QED
  BY <1>1, <1>2, <1>3

(* A number is divided in one way.                                           *)
LEMMA OneDivision ==
    ASSUME NEW b \in Nat \ {0}, NEW q \in Nat, NEW r \in Nat, r < b,
           NEW p \in Nat, NEW s \in Nat, s < b, b * q + r = b * p + s
    PROVE  q = p /\ r = s
<1>1. CASE q < p
  <2>1. p = q + (p - q) /\ p - q \in Nat /\ p - q >= 1
    BY <1>1
  <2>2. b * p = b * q + b * (p - q)
    BY <2>1
  <2>3. b * (p - q) >= b
    BY <2>1
  <2> QED
    BY <2>2, <2>3
<1>2. CASE p < q
  <2>1. q = p + (q - p) /\ q - p \in Nat /\ q - p >= 1
    BY <1>2
  <2>2. b * q = b * p + b * (q - p)
    BY <2>1
  <2>3. b * (q - p) >= b
    BY <2>1
  <2> QED
    BY <2>2, <2>3
<1> QED
  BY <1>1, <1>2

LEMMA HundredIs == Hundred \in Nat \ {0} /\ Hundred > Base
<1>1. Base \in Nat /\ Base >= 2
  BY LetterAssumption
<1>2. Base * Base >= 2 * Base
  BY <1>1
<1>3. Base * Base \in Nat
  BY <1>1
<1> QED
  BY <1>1, <1>2, <1>3 DEF Hundred

LEMMA TwoLowest ==
    ASSUME NEW k \in Nat
    PROVE  Base * ((k \div Base) % Base) + (k % Base) = k % Hundred
<1> DEFINE q == k \div Base
           r == k % Base
           h == q \div Base
           t == q % Base
<1>1. Base \in Nat \ {0} /\ Hundred \in Nat \ {0}
  BY LetterAssumption, HundredIs
<1>2. q \in Nat /\ r \in 0..(Base - 1) /\ k = Base * q + r
  BY <1>1, Division
<1>3. h \in Nat /\ t \in 0..(Base - 1) /\ q = Base * h + t
  <2> HIDE DEF q
  <2> QED
    BY <1>1, <1>2, Division
<1>4. k \div Hundred \in Nat /\ k % Hundred \in 0..(Hundred - 1)
      /\ k = Hundred * (k \div Hundred) + (k % Hundred)
  BY <1>1, Division
<1> HIDE DEF q, r, h, t
<1>5. Base * t + r \in Nat /\ Base * t + r < Hundred
  <2>1. Base * t + Base <= Base * Base
    <3>1. t + 1 <= Base /\ t + 1 \in Nat
      BY <1>1, <1>3
    <3>2. Base * (t + 1) <= Base * Base
      BY <1>1, <3>1
    <3> QED
      BY <1>1, <1>3, <3>2
  <2>2. Base * t \in Nat
    BY <1>1, <1>3
  <2> QED
    BY <1>1, <1>2, <2>1, <2>2 DEF Hundred
<1>6. k = Hundred * h + (Base * t + r)
  <2>1. Base * (Base * h + t) = (Base * Base) * h + Base * t
    BY <1>1, <1>3
  <2> QED
    BY <1>1, <1>2, <1>3, <2>1 DEF Hundred
<1>7. Base * t + r = k % Hundred
  <2> DEFINE s == k % Hundred
             p == k \div Hundred
             u == Base * t + r
  <2>1. /\ Hundred \in Nat \ {0} /\ h \in Nat /\ u \in Nat /\ u < Hundred /\ p \in Nat
        /\ s \in Nat /\ s < Hundred /\ Hundred * h + u = Hundred * p + s
    <3>1. u \in Nat /\ u < Hundred
      BY <1>5
    <3>2. p \in Nat /\ s \in 0..(Hundred - 1) /\ k = Hundred * p + s
      BY <1>4
    <3>3. k = Hundred * h + u
      BY <1>6
    <3> HIDE DEF s, p, u
    <3> QED
      BY <1>1, <1>3, <3>1, <3>2, <3>3
  <2> HIDE DEF s, p, u
  <2>2. u = s
    BY ONLY <2>1, OneDivision
  <2> QED
    BY <2>2 DEF s, u
<1> QED
  BY <1>7, Zenon DEF q, r, t

LEMMA TwoDigitsAreDigits ==
    ASSUME NEW k \in Nat
    PROVE  /\ TwoDigits(k) \in Seq(Digit) /\ Len(TwoDigits(k)) = 2
           /\ TwoDigits(k)[1] = (k \div Base) % Base /\ TwoDigits(k)[2] = k % Base
<1>1. Base \in Nat \ {0}
  BY LetterAssumption
<1>2. k \div Base \in Nat
  BY <1>1, Division
<1>3. (k \div Base) % Base \in Digit /\ k % Base \in Digit
  BY <1>1, <1>2, Division DEF Digit
<1> DEFINE d == (k \div Base) % Base
           e == k % Base
<1>4. TwoDigits(k) = <<d, e>>
  BY DEF TwoDigits
<1> HIDE DEF d, e
<1> QED
  BY <1>3, <1>4 DEF d, e

LEMMA NumberRuns ==
    ASSUME NEW digits \in Seq(Nat)
    PROVE  \E value \in [0..Len(digits) -> Nat] :
               /\ NumberOf(digits) = value[Len(digits)]
               /\ value[0] = 0
               /\ \A i \in 1..Len(digits) : value[i] = Base * value[i - 1] + digits[i]
<1> DEFINE n == Len(digits)
           Step(i, x) == Base * x + digits[i]
           F == [i \in 1..n |-> [x \in Nat |-> Step(i, x)]]
           value == CHOOSE value : value = [i \in 0..n |->
                        IF i = 0 THEN 0 ELSE Base * value[i - 1] + digits[i]]
<1>1. NumberOf(digits) = value[n]
  BY DEF NumberOf
<1>2. n \in Nat /\ \A i \in 1..n, x \in Nat : Step(i, x) \in Nat
  BY LetterAssumption
<1> HIDE DEF Step, n
<1>3. F \in [1..n -> [Nat -> Nat]] /\ \A i \in 1..n, x \in Nat : F[i][x] = Step(i, x)
  BY <1>2
<1> HIDE DEF F
<1>4. PICK g \in [0..n -> Nat] : g[0] = 0 /\ \A i \in 1..n : g[i] = F[i][g[i - 1]]
  <2>1. Runs(Nat, n, 0, F)
    BY <1>2, <1>3, LoopRuns
  <2> QED
    BY <2>1 DEF Runs
<1>5. ASSUME NEW i \in 1..n PROVE g[i] = Step(i, g[i - 1])
  <2>1. i - 1 \in 0..n
    BY <1>2
  <2> QED
    BY <1>3, <1>4, <2>1
<1>6. g = [i \in 0..n |-> IF i = 0 THEN 0 ELSE Step(i, g[i - 1])]
  <2>1. \A i \in 0..n : i # 0 => i \in 1..n
    BY <1>2
  <2> QED
    BY <1>4, <1>5, <2>1
<1>7. value = [i \in 0..n |-> IF i = 0 THEN 0 ELSE Step(i, value[i - 1])]
  BY <1>6 DEF Step
<1> HIDE DEF value
<1> DEFINE Good == {i \in 0..n : value[i] = g[i]}
<1>8. 0 \in Good
  BY <1>2, <1>4, <1>7
<1>9. ASSUME NEW i \in 1..n, i - 1 \in Good PROVE i \in Good
  <2>1. i \in 0..n /\ i # 0
    BY <1>2
  <2> QED
    BY <1>5, <1>7, <1>9, <2>1
<1>10. n \in Good
  <2> HIDE DEF Good
  <2> QED
    BY <1>2, <1>8, <1>9, LoopKeeps
<1>11. g \in [0..n -> Nat] /\ g[0] = 0 /\ NumberOf(digits) = g[n]
  BY <1>1, <1>4, <1>10
<1> QED
  BY <1>5, <1>11 DEF Step, n

LEMMA NumberIsNat ==
    ASSUME NEW digits \in Seq(Nat)
    PROVE  NumberOf(digits) \in Nat
<1>1. PICK value \in [0..Len(digits) -> Nat] : NumberOf(digits) = value[Len(digits)]
  BY NumberRuns
<1>2. Len(digits) \in Nat
  OBVIOUS
<1> QED
  BY <1>1, <1>2

LEMMA NumberOfTwo ==
    ASSUME NEW digits \in Seq(Nat), Len(digits) = 2
    PROVE  NumberOf(digits) = Base * digits[1] + digits[2]
<1>1. PICK value \in [0..2 -> Nat] :
          /\ NumberOf(digits) = value[2] /\ value[0] = 0
          /\ \A i \in 1..2 : value[i] = Base * value[i - 1] + digits[i]
  BY NumberRuns
<1>2. /\ value[1] = Base * value[0] + digits[1]
      /\ value[2] = Base * value[1] + digits[2]
  <2>1. /\ value[1] = Base * value[1 - 1] + digits[1]
        /\ value[2] = Base * value[2 - 1] + digits[2]
    BY <1>1
  <2> QED
    BY <2>1
<1>3. Base \in Nat /\ digits[1] \in Nat
  BY LetterAssumption
<1>4. value[1] = digits[1]
  BY <1>1, <1>2, <1>3
<1> QED
  BY <1>1, <1>2, <1>4

LEMMA Distribute ==
    ASSUME NEW b \in Nat, NEW v \in Nat, NEW d \in Nat
    PROVE  b * (b * v + d) = (b * b) * v + b * d
<1>1. b * (b * v + d) = b * (b * v) + b * d
  OBVIOUS
<1>2. b * (b * v) = (b * b) * v
  OBVIOUS
<1> QED
  BY <1>1, <1>2

LEMMA NumberOfFour ==
    ASSUME NEW digits \in Seq(Nat), Len(digits) = 4
    PROVE  NumberOf(digits)
               = Hundred * (Base * digits[1] + digits[2]) + (Base * digits[3] + digits[4])
<1>1. PICK value \in [0..4 -> Nat] :
          /\ NumberOf(digits) = value[4] /\ value[0] = 0
          /\ \A i \in 1..4 : value[i] = Base * value[i - 1] + digits[i]
  BY NumberRuns
<1>2. /\ value[1] = Base * value[0] + digits[1]
      /\ value[2] = Base * value[1] + digits[2]
      /\ value[3] = Base * value[2] + digits[3]
      /\ value[4] = Base * value[3] + digits[4]
  <2>1. /\ value[1] = Base * value[1 - 1] + digits[1]
        /\ value[2] = Base * value[2 - 1] + digits[2]
        /\ value[3] = Base * value[3 - 1] + digits[3]
        /\ value[4] = Base * value[4 - 1] + digits[4]
    BY <1>1
  <2> QED
    BY <2>1
<1>3. Base \in Nat /\ \A i \in 1..4 : digits[i] \in Nat
  <2>1. \A i \in 1..Len(digits) : digits[i] \in Nat
    BY ElementOfSeq
  <2> QED
    BY <2>1, LetterAssumption
<1>4. value[2] = Base * digits[1] + digits[2] /\ value[2] \in Nat
  BY <1>1, <1>2, <1>3
<1>5. Base * (Base * value[2] + digits[3]) = (Base * Base) * value[2] + Base * digits[3]
  <2>1. digits[3] \in Nat
    BY <1>3
  <2> QED
    BY ONLY <1>3, <1>4, <2>1, Distribute
<1>6. value[4] = (Base * Base) * value[2] + (Base * digits[3] + digits[4])
  <2>1. Base * digits[3] \in Nat /\ (Base * Base) * value[2] \in Nat /\ digits[4] \in Nat
    <3>1. Base \in Nat /\ digits[3] \in Nat /\ digits[4] \in Nat /\ value[2] \in Nat
      BY <1>3, <1>4
    <3>2. \A j, k \in Nat : j * k \in Nat
      OBVIOUS
    <3> QED
      BY ONLY <3>1, <3>2
  <2>2. value[4] = Base * (Base * value[2] + digits[3]) + digits[4]
    BY <1>2
  <2>3. \A j, k, l \in Nat : (j + k) + l = j + (k + l)
    OBVIOUS
  <2> QED
    BY ONLY <1>5, <2>1, <2>2, <2>3
<1> QED
  BY <1>1, <1>4, <1>6 DEF Hundred

LEMMA HeaderIs ==
    ASSUME NEW type \in Nat, NEW length \in Nat
    PROVE  /\ Header(type, length) \in Seq(Digit) /\ Len(Header(type, length)) = HEADER_LENGTH
           /\ SubSeq(Header(type, length), 1, 2) = TwoDigits(type)
           /\ SubSeq(Header(type, length), 5, HEADER_LENGTH) = TwoDigits(length)
           /\ SubSeq(Header(type, length), 3, HEADER_LENGTH)
                  = TwoDigits(length \div Hundred) \o TwoDigits(length)
<1> DEFINE a == TwoDigits(type)
           b == TwoDigits(length \div Hundred)
           c == TwoDigits(length)
<1>1. length \div Hundred \in Nat
  BY HundredIs, Division
<1>2. /\ a \in Seq(Digit) /\ Len(a) = 2
      /\ b \in Seq(Digit) /\ Len(b) = 2
      /\ c \in Seq(Digit) /\ Len(c) = 2
  BY <1>1, TwoDigitsAreDigits
<1>3. Header(type, length) = a \o b \o c
  BY DEF Header
<1> HIDE DEF a, b, c
<1> DEFINE ab == a \o b
           bc == b \o c
           h  == ab \o c
<1>4. /\ ab \in Seq(Digit) /\ Len(ab) = 4
      /\ \A i \in 1..4 : ab[i] = IF i <= 2 THEN a[i] ELSE b[i - 2]
  <2>1. a \in Seq(Digit) /\ b \in Seq(Digit) /\ Len(a) = 2 /\ Len(b) = 2
    BY <1>2
  <2>2. ab \in Seq(Digit) /\ Len(ab) = Len(a) + Len(b)
    BY <2>1, ConcatProperties
  <2>3. \A i \in 1..(Len(a) + Len(b)) :
            ab[i] = IF i <= Len(a) THEN a[i] ELSE b[i - Len(a)]
    BY <2>1, ConcatProperties
  <2> HIDE DEF ab
  <2> QED
    BY <2>1, <2>2, <2>3
<1>5. /\ bc \in Seq(Digit) /\ Len(bc) = 4
      /\ \A i \in 1..4 : bc[i] = IF i <= 2 THEN b[i] ELSE c[i - 2]
  <2>1. b \in Seq(Digit) /\ c \in Seq(Digit) /\ Len(b) = 2 /\ Len(c) = 2
    BY <1>2
  <2>2. bc \in Seq(Digit) /\ Len(bc) = Len(b) + Len(c)
    BY <2>1, ConcatProperties
  <2>3. \A i \in 1..(Len(b) + Len(c)) :
            bc[i] = IF i <= Len(b) THEN b[i] ELSE c[i - Len(b)]
    BY <2>1, ConcatProperties
  <2> HIDE DEF bc
  <2> QED
    BY <2>1, <2>2, <2>3
<1> HIDE DEF ab, bc
<1>6. /\ h \in Seq(Digit) /\ Len(h) = 6
      /\ \A i \in 1..6 : h[i] = IF i <= 4 THEN ab[i] ELSE c[i - 4]
  <2>1. ab \in Seq(Digit) /\ c \in Seq(Digit) /\ Len(ab) = 4 /\ Len(c) = 2
    BY <1>2, <1>4
  <2>2. h \in Seq(Digit) /\ Len(h) = Len(ab) + Len(c)
    BY <2>1, ConcatProperties
  <2>3. \A i \in 1..(Len(ab) + Len(c)) :
            h[i] = IF i <= Len(ab) THEN ab[i] ELSE c[i - Len(ab)]
    BY <2>1, ConcatProperties
  <2> HIDE DEF h
  <2> QED
    BY <2>1, <2>2, <2>3
<1> HIDE DEF h
<1>7. SubSeq(h, 1, 2) = a
  <2>1. /\ SubSeq(h, 1, 2) \in Seq(Digit) /\ Len(SubSeq(h, 1, 2)) = 2
        /\ \A i \in 1..2 : SubSeq(h, 1, 2)[i] = h[i]
    BY <1>6, CutOut
  <2>2. \A i \in 1..2 : h[i] = a[i]
    BY <1>4, <1>6
  <2> QED
    BY <1>2, <2>1, <2>2, SeqEqual
<1>8. SubSeq(h, 5, 6) = c
  <2>1. /\ SubSeq(h, 5, 6) \in Seq(Digit) /\ Len(SubSeq(h, 5, 6)) = 2
        /\ \A i \in 1..2 : SubSeq(h, 5, 6)[i] = h[i + 4]
    BY <1>6, CutOut
  <2>2. \A i \in 1..2 : h[i + 4] = c[i]
    BY <1>6
  <2> QED
    BY <1>2, <2>1, <2>2, SeqEqual
<1>9. SubSeq(h, 3, 6) = bc
  <2>1. /\ SubSeq(h, 3, 6) \in Seq(Digit) /\ Len(SubSeq(h, 3, 6)) = 4
        /\ \A i \in 1..4 : SubSeq(h, 3, 6)[i] = h[i + 2]
    <3>1. /\ SubSeq(h, 3, 6) \in Seq(Digit) /\ Len(SubSeq(h, 3, 6)) = 6 - 3 + 1
          /\ \A i \in 1..(6 - 3 + 1) : SubSeq(h, 3, 6)[i] = h[3 + i - 1]
      <4>1. 3 \in 1..(Len(h) + 1) /\ 6 \in (3 - 1)..Len(h) /\ h \in Seq(Digit)
        BY <1>6
      <4> QED
        BY ONLY <4>1, CutOut
    <3>2. 6 - 3 + 1 = 4 /\ \A i \in 1..4 : 3 + i - 1 = i + 2
      OBVIOUS
    <3> QED
      BY ONLY <3>1, <3>2
  <2>2. \A i \in 1..4 : h[i + 2] = bc[i]
    <3>1. \A i \in 1..2 : h[i + 2] = b[i]
      BY <1>4, <1>6
    <3>2. \A i \in 3..4 : h[i + 2] = c[i - 2]
      BY <1>6
    <3> QED
      BY <1>5, <3>1, <3>2
  <2> QED
    BY <1>5, <2>1, <2>2, SeqEqual
<1> QED
  BY <1>3, <1>6, <1>7, <1>8, <1>9 DEF HEADER_LENGTH, a, b, c, ab, bc, h

(* What is read back from a header is what was written.                      *)
LEMMA HeaderReadBack ==
    ASSUME NEW type \in Nat, type < Hundred, NEW length \in Nat
    PROVE  LET header == Header(type, length) IN
           /\ TypeRead(header) = type
           /\ length < Hundred => LengthRead(header) = length
           /\ length < Hundred * Hundred => msg_len(header) = length
<1>1. Base \in Nat /\ Hundred \in Nat \ {0} /\ Digit \subseteq Nat
  BY LetterAssumption, HundredIs DEF Digit
<1>2. length \div Hundred \in Nat /\ length = Hundred * (length \div Hundred) + (length % Hundred)
  BY <1>1, Division
<1>3. ASSUME NEW k \in Nat
      PROVE  /\ TwoDigits(k) \in Seq(Nat) /\ Len(TwoDigits(k)) = 2
             /\ Base * TwoDigits(k)[1] + TwoDigits(k)[2] = k % Hundred
             /\ NumberOf(TwoDigits(k)) = k % Hundred
  <2>1. /\ TwoDigits(k) \in Seq(Nat) /\ Len(TwoDigits(k)) = 2
        /\ TwoDigits(k)[1] = (k \div Base) % Base /\ TwoDigits(k)[2] = k % Base
    <3>1. TwoDigits(k) \in Seq(Digit)
      BY TwoDigitsAreDigits
    <3>2. TwoDigits(k) \in Seq(Nat)
      BY <1>1, <3>1, SeqMonotonic
    <3> QED
      BY <3>2, TwoDigitsAreDigits
  <2> QED
    BY <2>1, NumberOfTwo, TwoLowest
<1>4. ASSUME NEW k \in Nat, k < Hundred PROVE k % Hundred = k
  <2>1. k \div Hundred \in Nat /\ k % Hundred \in 0..(Hundred - 1)
        /\ k = Hundred * (k \div Hundred) + (k % Hundred)
    BY <1>1, Division
  <2>2. Hundred * 0 + k = k
    BY <1>1
  <2> DEFINE s == k % Hundred
             p == k \div Hundred
  <2>3. s \in Nat /\ s < Hundred /\ p \in Nat /\ Hundred * 0 + k = Hundred * p + s
    <3>1. s \in 0..(Hundred - 1) /\ p \in Nat /\ k = Hundred * p + s
      BY <2>1
    <3> HIDE DEF s, p
    <3> QED
      BY <1>1, <2>2, <3>1
  <2> HIDE DEF s, p
  <2>4. k = s
    BY ONLY <1>1, <1>4, <2>3, OneDivision
  <2> QED
    BY <2>4 DEF s
<1>5. TypeRead(Header(type, length)) = type
  BY <1>3, <1>4, HeaderIs DEF TypeRead
<1>6. ASSUME length < Hundred PROVE LengthRead(Header(type, length)) = length
  BY <1>3, <1>4, <1>6, HeaderIs DEF LengthRead
<1>7. ASSUME length < Hundred * Hundred PROVE msg_len(Header(type, length)) = length
  <2> DEFINE b == TwoDigits(length \div Hundred)
             c == TwoDigits(length)
             d == b \o c
  <2>1. msg_len(Header(type, length)) = NumberOf(d)
    BY HeaderIs DEF msg_len
  <2>2. /\ b \in Seq(Nat) /\ Len(b) = 2 /\ Base * b[1] + b[2] = (length \div Hundred) % Hundred
        /\ c \in Seq(Nat) /\ Len(c) = 2 /\ Base * c[1] + c[2] = length % Hundred
    BY <1>2, <1>3
  <2>3. length \div Hundred < Hundred
    <3> DEFINE q == length \div Hundred
               r == length % Hundred
    <3>1. r \in Nat /\ q \in Nat /\ length = Hundred * q + r
      BY <1>1, <1>2, Division
    <3> HIDE DEF q, r
    <3>2. ASSUME q >= Hundred PROVE FALSE
      <4>1. Hundred * q >= Hundred * Hundred
        BY <1>1, <3>1, <3>2
      <4>2. Hundred * q \in Nat /\ Hundred * Hundred \in Nat
        BY <1>1, <3>1
      <4> QED
        BY <1>7, <3>1, <4>1, <4>2
    <3>3. q < Hundred
      BY <1>1, <3>1, <3>2
    <3> QED
      BY <3>3 DEF q
  <2>4. Base * b[1] + b[2] = length \div Hundred
    BY <1>2, <1>4, <2>2, <2>3
  <2> HIDE DEF b, c
  <2>5. d \in Seq(Nat) /\ Len(d) = 4 /\ d[1] = b[1] /\ d[2] = b[2] /\ d[3] = c[1] /\ d[4] = c[2]
    <3>1. /\ d \in Seq(Nat) /\ Len(d) = 4
          /\ \A i \in 1..4 : d[i] = IF i <= 2 THEN b[i] ELSE c[i - 2]
      <4>1. b \in Seq(Nat) /\ c \in Seq(Nat) /\ Len(b) = 2 /\ Len(c) = 2
        BY <2>2
      <4>2. d \in Seq(Nat) /\ Len(d) = Len(b) + Len(c)
        BY <4>1, ConcatProperties
      <4>3. \A i \in 1..(Len(b) + Len(c)) :
                d[i] = IF i <= Len(b) THEN b[i] ELSE c[i - Len(b)]
        BY <4>1, ConcatProperties
      <4> HIDE DEF d
      <4> QED
        BY <4>1, <4>2, <4>3
    <3> HIDE DEF d
    <3> QED
      BY <3>1
  <2> HIDE DEF d
  <2>6. NumberOf(d) = Hundred * (Base * b[1] + b[2]) + (Base * c[1] + c[2])
    BY <2>5, NumberOfFour
  <2> QED
    BY <1>2, <2>1, <2>2, <2>4, <2>6
<1> QED
  BY <1>5, <1>6, <1>7

-----------------------------------------------------------------------------
(* Texts and bytes.                                                          *)

(* The bytes of a text none of whose characters takes more than one.         *)
Narrow(text) == [i \in 1..Len(text) |-> <<text[i], 1>>]
AllNarrow(text) == \A i \in 1..Len(text) : Width(text[i]) = 1

LEMMA CharactersAndBytes ==
    /\ Digit \subseteq Character /\ Character \subseteq Nat
    /\ \A c \in Digit : Width(c) = 1
    /\ \A c \in Character : Width(c) \in {1, 2} /\ \A k \in 1..Width(c) : <<c, k>> \in Byte
<1>1. Digit \subseteq Character /\ Character \subseteq Nat
  BY LetterAssumption DEF Digit, Character
<1>2. ASSUME NEW c \in Digit PROVE Width(c) = 1
  BY LetterAssumption DEF Digit, Width
<1>3. ASSUME NEW c \in Character PROVE Width(c) \in {1, 2} /\ \A k \in 1..Width(c) : <<c, k>> \in Byte
  <2>1. Width(c) \in {1, 2}
    BY DEF Width
  <2>2. ASSUME NEW k \in 1..Width(c) PROVE <<c, k>> \in Byte
    <3>1. k \in {1, 2}
      BY <2>1
    <3> QED
      BY <3>1 DEF Byte
  <2> QED
    BY <2>1, <2>2
<1> QED
  BY <1>1, <1>2, <1>3

LEMMA NarrowIsBytes ==
    ASSUME NEW text \in Seq(Character)
    PROVE  Narrow(text) \in Seq(Byte) /\ Len(Narrow(text)) = Len(text)
<1>1. Len(text) \in Nat /\ \A i \in 1..Len(text) : <<text[i], 1>> \in Byte
  <2>1. \A i \in 1..Len(text) : text[i] \in Character
    OBVIOUS
  <2> QED
    BY <2>1 DEF Byte
<1> DEFINE n == Narrow(text)
<1>2. n \in [1..Len(text) -> Byte]
  BY <1>1 DEF Narrow
<1>3. DOMAIN n = 1..Len(text)
  BY DEF Narrow
<1> HIDE DEF n
<1>4. n \in Seq(Byte)
  BY <1>1, <1>2
<1>5. Len(n) = Len(text)
  BY <1>1, <1>3, <1>4, LenProperties
<1> QED
  BY <1>4, <1>5 DEF n

LEMMA NarrowOfParts ==
    ASSUME NEW s \in Seq(Character), NEW t \in Seq(Character)
    PROVE  Narrow(s \o t) = Narrow(s) \o Narrow(t)
<1> DEFINE both == s \o t
           p == Narrow(both)
           q == Narrow(s)
           r == Narrow(t)
<1>1. /\ both \in Seq(Character) /\ Len(both) = Len(s) + Len(t)
      /\ Len(s) \in Nat /\ Len(t) \in Nat
  BY ConcatProperties
<1>2. \A i \in 1..(Len(s) + Len(t)) : both[i] = IF i <= Len(s) THEN s[i] ELSE t[i - Len(s)]
  BY ConcatProperties
<1> HIDE DEF both
<1>3. /\ p \in Seq(Byte) /\ Len(p) = Len(s) + Len(t)
      /\ q \in Seq(Byte) /\ Len(q) = Len(s)
      /\ r \in Seq(Byte) /\ Len(r) = Len(t)
  BY <1>1, NarrowIsBytes
<1>4. /\ \A i \in 1..Len(both) : p[i] = <<both[i], 1>>
      /\ \A i \in 1..Len(s) : q[i] = <<s[i], 1>>
      /\ \A i \in 1..Len(t) : r[i] = <<t[i], 1>>
  BY DEF Narrow
<1> HIDE DEF p, q, r
<1>5. /\ q \o r \in Seq(Byte) /\ Len(q \o r) = Len(q) + Len(r)
      /\ \A i \in 1..(Len(q) + Len(r)) : (q \o r)[i] = IF i <= Len(q) THEN q[i] ELSE r[i - Len(q)]
  <2>1. q \in Seq(Byte) /\ r \in Seq(Byte)
    BY <1>3
  <2>2. q \o r \in Seq(Byte) /\ Len(q \o r) = Len(q) + Len(r)
    BY ONLY <2>1, ConcatProperties
  <2>3. \A i \in 1..(Len(q) + Len(r)) : (q \o r)[i] = IF i <= Len(q) THEN q[i] ELSE r[i - Len(q)]
    BY ONLY <2>1, ConcatProperties
  <2> QED
    BY <2>2, <2>3
<1>6. ASSUME NEW i \in 1..(Len(s) + Len(t)) PROVE p[i] = (q \o r)[i]
  <2>1. p[i] = <<both[i], 1>>
    BY <1>1, <1>4
  <2>2. CASE i <= Len(s)
    <3>1. i \in 1..Len(s)
      BY <1>1, <2>2
    <3>2. p[i] = <<s[i], 1>> /\ (q \o r)[i] = q[i]
      BY <1>2, <1>3, <1>5, <2>1, <2>2
    <3> QED
      BY <1>4, <3>1, <3>2
  <2>3. CASE i > Len(s)
    <3>1. i - Len(s) \in 1..Len(t) /\ ~(i <= Len(s))
      BY <1>1, <2>3
    <3>2. p[i] = <<t[i - Len(s)], 1>> /\ (q \o r)[i] = r[i - Len(s)]
      BY <1>2, <1>3, <1>5, <2>1, <3>1
    <3> QED
      BY <1>4, <3>1, <3>2
  <2>4. i <= Len(s) \/ i > Len(s)
    BY <1>1
  <2> QED
    BY <2>2, <2>3, <2>4
<1>7. p = q \o r
  <2> HIDE DEF p
  <2>1. Len(p) = Len(q \o r)
    BY <1>3, <1>5
  <2> QED
    BY <1>3, <1>5, <1>6, <2>1, SeqEqual
<1> QED
  BY <1>7 DEF p, q, r, both

LEMMA BytesOfCharacters ==
    ASSUME NEW text \in Seq(Character)
    PROVE  /\ DOMAIN text = 1..Len(text)
           /\ [i \in DOMAIN text |-> [k \in 1..Width(text[i]) |-> <<text[i], k>>]] \in Seq(Seq(Byte))
           /\ Len([i \in DOMAIN text |-> [k \in 1..Width(text[i]) |-> <<text[i], k>>]]) = Len(text)
<1>1. Len(text) \in Nat /\ DOMAIN text = 1..Len(text)
  BY LenProperties
<1>2. ASSUME NEW i \in 1..Len(text)
      PROVE  [k \in 1..Width(text[i]) |-> <<text[i], k>>] \in Seq(Byte)
  <2>1. text[i] \in Character
    OBVIOUS
  <2>2. Width(text[i]) \in Nat /\ \A k \in 1..Width(text[i]) : <<text[i], k>> \in Byte
    <3>1. Width(text[i]) \in {1, 2}
      BY <2>1, CharactersAndBytes
    <3>2. \A k \in 1..Width(text[i]) : <<text[i], k>> \in Byte
      BY <2>1, CharactersAndBytes
    <3> QED
      BY <3>1, <3>2
  <2>3. [k \in 1..Width(text[i]) |-> <<text[i], k>>] \in [1..Width(text[i]) -> Byte]
    BY <2>2
  <2> QED
    BY <2>2, <2>3
<1> DEFINE seqs == [i \in DOMAIN text |-> [k \in 1..Width(text[i]) |-> <<text[i], k>>]]
<1>3. seqs \in [1..Len(text) -> Seq(Byte)]
  BY <1>1, <1>2
<1> HIDE DEF seqs
<1>4. seqs \in Seq(Seq(Byte))
  BY <1>1, <1>3
<1>5. Len(seqs) = Len(text)
  BY <1>1, <1>3, <1>4, LenProperties
<1> QED
  BY <1>1, <1>4, <1>5 DEF seqs

LEMMA EncodeIsBytes ==
    ASSUME NEW text \in Seq(Character)
    PROVE  encode(text) \in Seq(Byte)
BY BytesOfCharacters, FlattenIsSeq DEF encode

LEMMA EncodeNarrow ==
    ASSUME NEW text \in Seq(Character), AllNarrow(text)
    PROVE  encode(text) = Narrow(text)
<1> DEFINE n == Len(text)
           seqs == [i \in DOMAIN text |-> [k \in 1..Width(text[i]) |-> <<text[i], k>>]]
<1>1. n \in Nat /\ seqs \in Seq(Seq(Byte)) /\ Len(seqs) = n
  <2>1. n \in Nat
    BY LenProperties
  <2>2. seqs \in Seq(Seq(Byte)) /\ Len(seqs) = n
    BY BytesOfCharacters, Zenon
  <2> QED
    BY <2>1, <2>2
<1>2. ASSUME NEW i \in 1..n
      PROVE  seqs[i] \in Seq(Byte) /\ Len(seqs[i]) = 1 /\ seqs[i][1] = <<text[i], 1>>
  <2>1. seqs[i] = [k \in 1..1 |-> <<text[i], k>>]
    BY BytesOfCharacters DEF AllNarrow
  <2> HIDE DEF seqs, n
  <2>2. seqs[i] \in Seq(Byte)
    BY <1>1, ElementOfSeq
  <2>3. DOMAIN seqs[i] = 1..1 /\ seqs[i][1] = <<text[i], 1>>
    BY <2>1
  <2>4. Len(seqs[i]) = 1
    <3>1. DOMAIN seqs[i] = 1..Len(seqs[i]) /\ Len(seqs[i]) \in Nat
      BY <2>2, LenProperties
    <3>2. 1 \in 1..Len(seqs[i]) /\ \A j \in 1..Len(seqs[i]) : j \in 1..1
      <4>1. 1 \in DOMAIN seqs[i] /\ \A j \in DOMAIN seqs[i] : j \in 1..1
        BY <2>3
      <4> QED
        BY <3>1, <4>1
    <3>3. Len(seqs[i]) >= 1 /\ Len(seqs[i]) \in 1..Len(seqs[i])
      BY <3>1, <3>2
    <3>4. Len(seqs[i]) \in 1..1
      BY <3>2, <3>3
    <3> QED
      BY <3>4
  <2> QED
    BY <2>2, <2>3, <2>4
<1>3. encode(text) = FlattenSeq(seqs)
  BY DEF encode
<1> HIDE DEF seqs, n
<1>4. PICK flat \in [0..n -> Seq(Byte)] :
          /\ FlattenSeq(seqs) = flat[n] /\ flat[0] = <<>>
          /\ \A i \in 1..n : flat[i] = flat[i - 1] \o seqs[i]
  <2>1. \E flat \in [0..Len(seqs) -> Seq(Byte)] :
            /\ FlattenSeq(seqs) = flat[Len(seqs)] /\ flat[0] = <<>>
            /\ \A i \in 1..Len(seqs) : flat[i] = flat[i - 1] \o seqs[i]
    BY <1>1, FlattenRuns
  <2> QED
    BY <1>1, <2>1
<1> DEFINE Good == {i \in 0..n : /\ Len(flat[i]) = i
                                 /\ \A j \in 1..i : flat[i][j] = <<text[j], 1>>}
<1>5. 0 \in Good
  BY <1>1, <1>4
<1>6. ASSUME NEW i \in 1..n, i - 1 \in Good PROVE i \in Good
  <2>1. i \in 0..n /\ i - 1 \in 0..n /\ i \in Nat
    BY <1>1
  <2>2. flat[i] = flat[i - 1] \o seqs[i] /\ flat[i - 1] \in Seq(Byte) /\ seqs[i] \in Seq(Byte)
    BY <1>2, <1>4, <2>1
  <2>3. Len(flat[i - 1]) = i - 1 /\ Len(seqs[i]) = 1
        /\ \A j \in 1..(i - 1) : flat[i - 1][j] = <<text[j], 1>>
    BY <1>2, <1>6
  <2>4. /\ Len(flat[i]) = Len(flat[i - 1]) + Len(seqs[i])
        /\ \A j \in 1..(Len(flat[i - 1]) + Len(seqs[i])) :
               flat[i][j] = IF j <= Len(flat[i - 1]) THEN flat[i - 1][j]
                            ELSE seqs[i][j - Len(flat[i - 1])]
    <3> DEFINE p == flat[i - 1]
               q == seqs[i]
    <3>1. p \in Seq(Byte) /\ q \in Seq(Byte) /\ flat[i] = p \o q
      BY <2>2
    <3> HIDE DEF p, q
    <3>2. Len(p \o q) = Len(p) + Len(q)
      BY ONLY <3>1, ConcatProperties
    <3>3. \A j \in 1..(Len(p) + Len(q)) : (p \o q)[j] = IF j <= Len(p) THEN p[j] ELSE q[j - Len(p)]
      BY ONLY <3>1, ConcatProperties
    <3> QED
      BY <3>1, <3>2, <3>3 DEF p, q
  <2>5. Len(flat[i]) = i
    BY <2>1, <2>3, <2>4
  <2>6. ASSUME NEW j \in 1..i PROVE flat[i][j] = <<text[j], 1>>
    <3>1. CASE j = i
      <4>1. flat[i][i] = seqs[i][1]
        BY <2>1, <2>3, <2>4
      <4> QED
        BY <1>2, <3>1, <4>1
    <3>2. CASE j # i
      <4>1. j \in 1..(i - 1)
        BY <2>1, <3>2
      <4> QED
        BY <2>1, <2>3, <2>4, <4>1
    <3> QED
      BY <3>1, <3>2
  <2> QED
    BY <2>1, <2>5, <2>6
<1>7. n \in Good
  <2> HIDE DEF Good
  <2> QED
    BY <1>1, <1>5, <1>6, LoopKeeps
<1>8. flat[n] \in Seq(Byte) /\ Len(flat[n]) = n /\ \A j \in 1..n : flat[n][j] = <<text[j], 1>>
  BY <1>1, <1>4, <1>7
<1>9. /\ Narrow(text) \in Seq(Byte) /\ Len(Narrow(text)) = n
      /\ \A j \in 1..n : Narrow(text)[j] = <<text[j], 1>>
  BY NarrowIsBytes DEF Narrow, n
<1>10. flat[n] = Narrow(text)
  <2> DEFINE p == flat[n]
             q == Narrow(text)
  <2>1. /\ p \in Seq(Byte) /\ Len(p) = n /\ \A j \in 1..n : p[j] = <<text[j], 1>>
        /\ q \in Seq(Byte) /\ Len(q) = n /\ \A j \in 1..n : q[j] = <<text[j], 1>>
    BY <1>8, <1>9
  <2> HIDE DEF p, q
  <2>2. Len(p) = Len(q) /\ \A j \in 1..Len(p) : p[j] = q[j]
    BY <2>1
  <2>3. p = q
    BY ONLY <2>1, <2>2, SeqEqual
  <2> QED
    BY <2>3 DEF p, q
<1> QED
  BY <1>3, <1>4, <1>10

LEMMA DecodeRuns ==
    ASSUME NEW bytes \in Seq(Byte)
    PROVE  \E text \in [0..Len(bytes) -> Seq(Character)] :
               /\ decode(bytes) = text[Len(bytes)]
               /\ text[0] = <<>>
               /\ \A i \in 1..Len(bytes) :
                      text[i] = IF bytes[i][2] = 1 THEN Append(text[i - 1], bytes[i][1])
                                ELSE text[i - 1]
<1> DEFINE T == Seq(Character)
           n == Len(bytes)
           Step(i, x) == IF bytes[i][2] = 1 THEN Append(x, bytes[i][1]) ELSE x
           F == [i \in 1..n |-> [x \in T |-> Step(i, x)]]
           text == CHOOSE text : text = [i \in 0..n |->
                       IF i = 0 THEN <<>>
                       ELSE IF bytes[i][2] = 1 THEN Append(text[i - 1], bytes[i][1])
                       ELSE text[i - 1]]
<1>1. decode(bytes) = text[n]
  BY DEF decode
<1>2. n \in Nat /\ <<>> \in T /\ \A i \in 1..n, x \in T : Step(i, x) \in T
  <2>1. n \in Nat /\ \A i \in 1..n : bytes[i][1] \in Character
    <3>1. \A i \in 1..n : bytes[i] \in Byte
      OBVIOUS
    <3> QED
      BY <3>1 DEF Byte
  <2>2. <<>> \in T
    BY EmptySeq
  <2>3. ASSUME NEW i \in 1..n, NEW x \in T PROVE Append(x, bytes[i][1]) \in T
    BY <2>1
  <2> QED
    BY <2>1, <2>2, <2>3
<1> HIDE DEF T, Step, n
<1>3. F \in [1..n -> [T -> T]] /\ \A i \in 1..n, x \in T : F[i][x] = Step(i, x)
  BY <1>2
<1> HIDE DEF F
<1>4. PICK g \in [0..n -> T] : g[0] = <<>> /\ \A i \in 1..n : g[i] = F[i][g[i - 1]]
  <2>1. Runs(T, n, <<>>, F)
    BY <1>2, <1>3, LoopRuns
  <2> QED
    BY <2>1 DEF Runs
<1>5. ASSUME NEW i \in 1..n PROVE g[i] = Step(i, g[i - 1])
  <2>1. i - 1 \in 0..n
    BY <1>2
  <2> QED
    BY <1>3, <1>4, <2>1
<1>6. g = [i \in 0..n |-> IF i = 0 THEN <<>> ELSE Step(i, g[i - 1])]
  <2>1. \A i \in 0..n : i # 0 => i \in 1..n
    BY <1>2
  <2> QED
    BY <1>4, <1>5, <2>1
<1>7. text = [i \in 0..n |-> IF i = 0 THEN <<>> ELSE Step(i, text[i - 1])]
  BY <1>6 DEF Step
<1> HIDE DEF text
<1> DEFINE Good == {i \in 0..n : text[i] = g[i]}
<1>8. 0 \in Good
  BY <1>2, <1>4, <1>7
<1>9. ASSUME NEW i \in 1..n, i - 1 \in Good PROVE i \in Good
  <2>1. i \in 0..n /\ i # 0
    BY <1>2
  <2> QED
    BY <1>5, <1>7, <1>9, <2>1
<1>10. n \in Good
  <2> HIDE DEF Good
  <2> QED
    BY <1>2, <1>8, <1>9, LoopKeeps
<1>11. g \in [0..n -> T] /\ g[0] = <<>> /\ decode(bytes) = g[n]
  BY <1>1, <1>4, <1>10
<1> QED
  BY <1>5, <1>11 DEF Step, T, n

(* A text is no longer than its bytes.                                       *)
LEMMA DecodeIsText ==
    ASSUME NEW bytes \in Seq(Byte)
    PROVE  decode(bytes) \in Seq(Character) /\ Len(decode(bytes)) <= Len(bytes)
<1> DEFINE n == Len(bytes)
<1>1. PICK text \in [0..n -> Seq(Character)] :
          /\ decode(bytes) = text[n] /\ text[0] = <<>>
          /\ \A i \in 1..n : text[i] = IF bytes[i][2] = 1 THEN Append(text[i - 1], bytes[i][1])
                                        ELSE text[i - 1]
  BY DecodeRuns
<1>2. n \in Nat /\ \A i \in 1..n : bytes[i][1] \in Character
  <2>1. \A i \in 1..n : bytes[i] \in Byte
    OBVIOUS
  <2> QED
    BY <2>1 DEF Byte
<1> HIDE DEF n
<1> DEFINE Good == {i \in 0..n : Len(text[i]) <= i}
<1>3. 0 \in Good
  BY <1>1, <1>2
<1>4. ASSUME NEW i \in 1..n, i - 1 \in Good PROVE i \in Good
  <2>1. i \in 0..n /\ i - 1 \in 0..n
    BY <1>2
  <2>2. text[i - 1] \in Seq(Character) /\ Len(text[i - 1]) \in Nat /\ Len(text[i - 1]) <= i - 1
    BY <1>1, <1>4, <2>1
  <2>3. Len(text[i]) <= Len(text[i - 1]) + 1
    <3>1. Len(Append(text[i - 1], bytes[i][1])) = Len(text[i - 1]) + 1
      BY <1>2, <2>2, AppendProperties
    <3>2. text[i] = Append(text[i - 1], bytes[i][1]) \/ text[i] = text[i - 1]
      BY <1>1
    <3> QED
      BY <2>2, <3>1, <3>2
  <2>4. Len(text[i]) \in Nat
    BY <2>1
  <2> QED
    BY <2>1, <2>2, <2>3, <2>4
<1>5. n \in Good
  <2> HIDE DEF Good
  <2> QED
    BY <1>2, <1>3, <1>4, LoopKeeps
<1> QED
  BY <1>1, <1>2, <1>5 DEF n

LEMMA DecodeNarrow ==
    ASSUME NEW bytes \in Seq(Byte), \A i \in 1..Len(bytes) : bytes[i][2] = 1
    PROVE  /\ Len(decode(bytes)) = Len(bytes)
           /\ \A i \in 1..Len(bytes) : decode(bytes)[i] = bytes[i][1]
<1> DEFINE n == Len(bytes)
<1>1. PICK text \in [0..n -> Seq(Character)] :
          /\ decode(bytes) = text[n] /\ text[0] = <<>>
          /\ \A i \in 1..n : text[i] = IF bytes[i][2] = 1 THEN Append(text[i - 1], bytes[i][1])
                                        ELSE text[i - 1]
  BY DecodeRuns
<1>2. n \in Nat /\ \A i \in 1..n : bytes[i][1] \in Character
  <2>1. \A i \in 1..n : bytes[i] \in Byte
    OBVIOUS
  <2> QED
    BY <2>1 DEF Byte
<1>3. \A i \in 1..n : text[i] = Append(text[i - 1], bytes[i][1])
  BY <1>1
<1> HIDE DEF n
<1> DEFINE Good == {i \in 0..n : Len(text[i]) = i /\ \A j \in 1..i : text[i][j] = bytes[j][1]}
<1>4. 0 \in Good
  BY <1>1, <1>2
<1>5. ASSUME NEW i \in 1..n, i - 1 \in Good PROVE i \in Good
  <2>1. i \in 0..n /\ i - 1 \in 0..n /\ i \in Nat
    BY <1>2
  <2>2. /\ text[i - 1] \in Seq(Character) /\ Len(text[i - 1]) = i - 1
        /\ \A j \in 1..(i - 1) : text[i - 1][j] = bytes[j][1]
    BY <1>1, <1>5, <2>1
  <2>3. /\ Len(text[i]) = Len(text[i - 1]) + 1
        /\ \A j \in 1..Len(text[i - 1]) : text[i][j] = text[i - 1][j]
        /\ text[i][Len(text[i - 1]) + 1] = bytes[i][1]
    <3> DEFINE p == text[i - 1]
               e == bytes[i][1]
    <3>1. p \in Seq(Character) /\ e \in Character /\ text[i] = Append(p, e)
      BY <1>2, <1>3, <2>2
    <3> HIDE DEF p, e
    <3>2. /\ Len(Append(p, e)) = Len(p) + 1
          /\ \A j \in 1..Len(p) : Append(p, e)[j] = p[j]
          /\ Append(p, e)[Len(p) + 1] = e
      BY ONLY <3>1, AppendProperties
    <3> QED
      BY <3>1, <3>2 DEF p, e
  <2>4. Len(text[i]) = i /\ text[i][i] = bytes[i][1]
    BY <2>1, <2>2, <2>3
  <2>5. ASSUME NEW j \in 1..i PROVE text[i][j] = bytes[j][1]
    <3>1. j = i \/ j \in 1..(i - 1)
      BY <2>1
    <3> QED
      BY <2>2, <2>3, <2>4, <3>1
  <2> QED
    BY <2>1, <2>4, <2>5
<1>6. n \in Good
  <2> HIDE DEF Good
  <2> QED
    BY <1>2, <1>4, <1>5, LoopKeeps
<1> QED
  BY <1>1, <1>6 DEF n

-----------------------------------------------------------------------------
(* Types.                                                                    *)

SendTypes ==
    /\ queue \in Seq(Messages) /\ accepted \in Seq(Messages)
    /\ completed_sending \in BOOLEAN
    /\ current_message \in Seq(Character)
    /\ total_sent \in Nat /\ bytes_to_send \in Nat
    /\ outgoing \in Seq(Byte)
    /\ ~completed_sending => queue # <<>>

ReceiveTypes ==
    /\ received \in Seq(Messages) /\ posted \in Seq(Messages) /\ taken \in Seq(Messages)
    /\ status \in {"waiting_for_header", "waiting_for_message"}
    /\ status = "waiting_for_header" => bytes_to_receive = HEADER_LENGTH
    /\ message \in Seq(Character)
    /\ bytes_to_receive \in Nat \ {0} /\ total_received \in 0..bytes_to_receive - 1
    /\ total_received = Len(message)
    /\ type_of_incoming_message \in Nat
    /\ incoming \in Seq(Byte)

ControlTypes ==
    /\ thread \in {"running", "ended", "broken", "dead"}
    /\ work_end_flag \in BOOLEAN /\ sent_keepalive \in BOOLEAN

Types == SendTypes /\ ReceiveTypes /\ ControlTypes

LEMMA MadeMessages ==
    /\ END_OF_WORK \in Messages /\ END_OF_WORK.type # KEEP_ALIVE
    /\ keep_alive \in Seq(Character) /\ Len(keep_alive) = HEADER_LENGTH
    /\ [type |-> KEEP_ALIVE, data |-> keep_alive] \in Messages
<1>1. 0 \in Character /\ 5 % Base \in Character
  <2>1. Base \in Nat \ {0}
    BY LetterAssumption
  <2>2. 0 \in Digit /\ 5 % Base \in Digit
    BY <2>1 DEF Digit
  <2> QED
    BY <2>2, CharactersAndBytes
<1>2. END_OF_WORK \in Messages /\ END_OF_WORK.type # KEEP_ALIVE
  <2> DEFINE d == 5 % Base
  <2>1. d \in Character
    BY <1>1
  <2> HIDE DEF d
  <2>2. <<d>> \in Seq(Character)
    BY <2>1
  <2>3. END_OF_WORK = [type |-> 1, data |-> <<d>>]
    BY DEF END_OF_WORK, STATEMENT, d
  <2> QED
    BY <2>2, <2>3 DEF Messages, KEEP_ALIVE
<1>3. keep_alive \in Seq(Character) /\ Len(keep_alive) = HEADER_LENGTH
  <2>1. keep_alive \in [1..HEADER_LENGTH -> Character] /\ HEADER_LENGTH \in Nat
    BY <1>1 DEF keep_alive, HEADER_LENGTH
  <2>2. keep_alive \in Seq(Character) /\ DOMAIN keep_alive = 1..HEADER_LENGTH
    BY <2>1
  <2> QED
    BY <2>1, <2>2, LenProperties
<1> QED
  BY <1>2, <1>3 DEF Messages, KEEP_ALIVE

LEMMA TextIsText ==
    ASSUME NEW m \in Messages
    PROVE  Text(m) \in Seq(Character)
<1>1. m.type \in Nat /\ m.data \in Seq(Character) /\ Len(m.data) \in Nat
  BY DEF Messages
<1>2. Header(m.type, Len(m.data)) \in Seq(Character)
  <2>1. Header(m.type, Len(m.data)) \in Seq(Digit)
    BY <1>1, HeaderIs
  <2> QED
    BY <2>1, CharactersAndBytes, SeqMonotonic
<1>3. Header(m.type, Len(m.data)) \o m.data \in Seq(Character)
  BY <1>1, <1>2, ConcatProperties
<1> QED
  BY <1>3, MadeMessages DEF Text

(* What a socket that can be written takes.                                  *)
LEMMA WhatIsSent ==
    ASSUME SendTypes, NEW n \in Writable
    PROVE  /\ queue # <<>> /\ Head(queue) \in Messages /\ Tail(queue) \in Seq(Messages)
           /\ GetMessage \in Seq(Character)
           /\ encode(GetMessage) \in Seq(Byte)
           /\ n \in 1..Len(encode(GetMessage))
<1>1. queue # <<>>
  BY DEF Writable, NothingToSend, SendTypes
<1>2. Head(queue) \in Messages /\ Tail(queue) \in Seq(Messages)
  BY <1>1 DEF SendTypes
<1>3. GetMessage \in Seq(Character)
  <2>1. CASE completed_sending
    BY <1>2, <2>1, TextIsText DEF GetMessage
  <2>2. CASE ~completed_sending
    <3>1. SubSeq(current_message, total_sent + 1, Len(current_message)) \in Seq(Character)
      <4>1. /\ Len(current_message) \in Nat /\ total_sent + 1 \in Int
            /\ \A i \in (total_sent + 1)..Len(current_message) : i \in 1..Len(current_message)
        BY DEF SendTypes
      <4>2. \A i \in (total_sent + 1)..Len(current_message) : current_message[i] \in Character
        BY <4>1, ElementOfSeq DEF SendTypes
      <4> QED
        BY <4>1, <4>2, SubSeqProperties
    <3> QED
      BY <2>2, <3>1 DEF GetMessage
  <2> QED
    BY <2>1, <2>2 DEF SendTypes
<1>4. encode(GetMessage) \in Seq(Byte)
  BY <1>3, EncodeIsBytes
<1>5. encode(GetMessage) # <<>> /\ n \in Pieces(Len(encode(GetMessage)))
  BY DEF Writable
<1> HIDE DEF SendTypes
<1>6. n \in 1..Len(encode(GetMessage))
  <2> DEFINE e == encode(GetMessage)
  <2>1. e \in Seq(Byte) /\ e # <<>> /\ n \in Pieces(Len(e))
    BY <1>4, <1>5
  <2> HIDE DEF e
  <2>2. Len(e) \in Nat \ {0}
    BY <2>1, EmptySeq
  <2>3. n \in 1..Len(e)
    BY <2>1, <2>2 DEF Pieces
  <2> QED
    BY <2>3 DEF e
<1> QED
  BY <1>1, <1>2, <1>3, <1>4, <1>6

(* What a socket that can be read gives, and how long the text gets by it.   *)
LEMMA WhatIsReceived ==
    ASSUME ReceiveTypes, NEW n \in Readable
    PROVE  /\ n \in 1..Len(incoming)
           /\ SubSeq(incoming, 1, n) \in Seq(Byte) /\ Len(SubSeq(incoming, 1, n)) = n
           /\ SubSeq(incoming, n + 1, Len(incoming)) \in Seq(Byte)
           /\ message \o decode(SubSeq(incoming, 1, n)) \in Seq(Character)
           /\ Len(message \o decode(SubSeq(incoming, 1, n))) \in 0..bytes_to_receive
<1> DEFINE due == get_length_of_incoming_message
           bytes == SubSeq(incoming, 1, n)
<1>1. incoming \in Seq(Byte) /\ incoming # <<>> /\ Len(incoming) \in Nat \ {0}
  BY EmptySeq DEF Readable, ReceiveTypes
<1>2. due \in Nat \ {0} /\ due = bytes_to_receive - Len(message) /\ Len(message) \in Nat
  BY DEF ReceiveTypes, get_length_of_incoming_message
<1>3. n \in Pieces(IF Len(incoming) < due THEN Len(incoming) ELSE due)
  BY <1>1 DEF Readable
<1> HIDE DEF due
<1>4. n \in 1..Len(incoming) /\ n \in 1..due
  BY <1>1, <1>2, <1>3 DEF Pieces
<1>5. bytes \in Seq(Byte) /\ Len(bytes) = n
  <2>1. 1 \in 1..(Len(incoming) + 1) /\ n \in (1 - 1)..Len(incoming) /\ n - 1 + 1 = n
    BY <1>1, <1>4
  <2> QED
    BY <1>1, <2>1, CutOut
<1>6. SubSeq(incoming, n + 1, Len(incoming)) \in Seq(Byte)
  <2>1. n + 1 \in 1..(Len(incoming) + 1) /\ Len(incoming) \in (n + 1 - 1)..Len(incoming)
    BY <1>1, <1>4
  <2> QED
    BY <1>1, <2>1, CutOut
<1> HIDE DEF bytes
<1>7. decode(bytes) \in Seq(Character) /\ Len(decode(bytes)) <= n /\ Len(decode(bytes)) \in Nat
  BY <1>5, DecodeIsText
<1>8. /\ message \o decode(bytes) \in Seq(Character)
      /\ Len(message \o decode(bytes)) = Len(message) + Len(decode(bytes))
  BY <1>7, ConcatProperties DEF ReceiveTypes
<1>9. Len(message \o decode(bytes)) \in 0..bytes_to_receive
  BY <1>2, <1>4, <1>7, <1>8 DEF ReceiveTypes
<1> QED
  BY <1>4, <1>5, <1>6, <1>8, <1>9 DEF bytes

(* What is read from a text is a number whether it has digits or not.        *)
LEMMA ReadsNumbers ==
    ASSUME NEW text \in Seq(Character), Len(text) = HEADER_LENGTH
    PROVE  TypeRead(text) \in Nat /\ LengthRead(text) \in Nat
<1>1. text \in Seq(Nat) /\ Len(text) = 6
  BY CharactersAndBytes, SeqMonotonic DEF HEADER_LENGTH
<1>2. SubSeq(text, 1, 2) \in Seq(Nat) /\ SubSeq(text, 5, 6) \in Seq(Nat)
  <2>1. /\ 1 \in 1..(Len(text) + 1) /\ 2 \in (1 - 1)..Len(text)
        /\ 5 \in 1..(Len(text) + 1) /\ 6 \in (5 - 1)..Len(text)
    BY <1>1
  <2> QED
    BY <1>1, <2>1, CutOut
<1> QED
  BY <1>2, NumberIsNat DEF TypeRead, LengthRead, HEADER_LENGTH

LEMMA InitTypes ==
    ASSUME Init
    PROVE  Types
<1>1. SendTypes
  BY DEF Init, SendTypes
<1>2. ReceiveTypes
  BY DEF Init, ReceiveTypes, HEADER_LENGTH, KEEP_ALIVE
<1>3. ControlTypes
  BY DEF Init, ControlTypes
<1> QED
  BY <1>1, <1>2, <1>3 DEF Types

(* The parts of the state that a step leaves alone.                          *)
LEMMA SendTypesKept ==
    ASSUME SendTypes, UNCHANGED <<sendBuffer, accepted, outgoing>>
    PROVE  SendTypes'
BY DEF SendTypes, sendBuffer

LEMMA ReceiveTypesKept ==
    ASSUME ReceiveTypes, UNCHANGED <<recvBuffer, posted, taken, incoming>>
    PROVE  ReceiveTypes'
BY DEF ReceiveTypes, recvBuffer

LEMMA ControlTypesKept ==
    ASSUME ControlTypes, UNCHANGED control
    PROVE  ControlTypes'
BY DEF ControlTypes, control

LEMMA BeginSendingTypes ==
    ASSUME SendTypes, queue # <<>>, BeginSending
    PROVE  current_message' \in Seq(Character) /\ bytes_to_send' \in Nat
<1>1. CASE completed_sending
  <2>1. current_message' = Text(Head(queue)) /\ bytes_to_send' = Len(current_message')
    BY <1>1 DEF BeginSending
  <2>2. Head(queue) \in Messages
    BY DEF SendTypes
  <2> QED
    BY <2>1, <2>2, TextIsText
<1>2. CASE ~completed_sending
  BY <1>2 DEF BeginSending, SendTypes
<1> QED
  BY <1>1, <1>2

LEMMA SendKeepsTypes ==
    ASSUME Types, NEW n \in Writable, Send(n)
    PROVE  Types'
<1>1. SendTypes /\ queue # <<>>
  BY WhatIsSent DEF Types
<1>2. current_message' \in Seq(Character) /\ bytes_to_send' \in Nat
  BY <1>1, BeginSendingTypes DEF Send
<1>3. outgoing' \in Seq(Byte)
  <2> DEFINE e == encode(GetMessage)
  <2>1. e \in Seq(Byte) /\ n \in 1..Len(e)
    BY <1>1, WhatIsSent
  <2>2. outgoing' = outgoing \o SubSeq(e, 1, n) /\ outgoing \in Seq(Byte)
    BY <1>1 DEF Send, SendTypes
  <2> HIDE DEF e
  <2>3. 1 \in 1..(Len(e) + 1) /\ n \in (1 - 1)..Len(e)
    BY <2>1
  <2>4. SubSeq(e, 1, n) \in Seq(Byte)
    BY <2>1, <2>3, CutOut
  <2> QED
    BY <2>2, <2>4, ConcatProperties
<1>4. n \in Nat /\ Tail(queue) \in Seq(Messages)
  BY <1>1, WhatIsSent
<1>5. total_sent' \in Nat
  BY <1>1, <1>4 DEF Send, SendTypes
<1>6. /\ queue' \in Seq(Messages)
      /\ completed_sending' \in BOOLEAN
      /\ ~completed_sending' => queue' = queue
  BY <1>1, <1>4, Zenon DEF Send, SendTypes
<1>7. accepted' = accepted
  BY DEF Send
<1>8. SendTypes'
  BY <1>1, <1>2, <1>3, <1>5, <1>6, <1>7 DEF SendTypes
<1>9. ReceiveTypes' /\ ControlTypes'
  BY ReceiveTypesKept, ControlTypesKept DEF Types, Send
<1> QED
  BY <1>8, <1>9 DEF Types

LEMMA ReceiveKeepsTypes ==
    ASSUME Types, NEW n \in Readable, Receive(n)
    PROVE  Types'
<1> DEFINE bytes == SubSeq(incoming, 1, n)
           text  == message \o decode(bytes)
<1>1. ReceiveTypes /\ ControlTypes
  BY DEF Types
<1>2. /\ incoming' \in Seq(Byte) /\ text \in Seq(Character) /\ Len(text) \in 0..bytes_to_receive
      /\ posted' = posted /\ taken' = taken
  BY <1>1, WhatIsReceived DEF Receive, history
<1>3. SendTypes'
  BY SendTypesKept DEF Types, Receive, sendBuffer, history
<1>4. ReceiveTypes' /\ ControlTypes'
  <2>1. CASE ~Decodable(bytes)
    <3>1. UNCHANGED recvBuffer /\ thread' = "dead" /\ UNCHANGED <<work_end_flag, sent_keepalive>>
      BY <2>1 DEF Receive
    <3> QED
      BY <1>1, <1>2, <3>1 DEF ReceiveTypes, ControlTypes, recvBuffer
  <2>2. CASE Decodable(bytes) /\ Len(text) # bytes_to_receive
    <3>1. /\ message' = text /\ total_received' = Len(text) /\ sent_keepalive' = FALSE
          /\ UNCHANGED <<received, status, bytes_to_receive, type_of_incoming_message, thread,
                         work_end_flag>>
      BY <2>2 DEF Receive
    <3>2. ControlTypes'
      BY <1>1, <3>1 DEF ControlTypes
    <3>3. text \in Seq(Character) /\ Len(text) \in 0..bytes_to_receive - 1
      <4>1. bytes_to_receive \in Nat
        BY <1>1 DEF ReceiveTypes
      <4> QED
        BY <1>2, <2>2, <4>1
    <3> HIDE DEF text
    <3> QED
      BY <1>1, <1>2, <3>1, <3>2, <3>3 DEF ReceiveTypes
  <2>3. CASE Decodable(bytes) /\ Len(text) = bytes_to_receive
    <3>1. /\ IF status = "waiting_for_header" THEN HeaderComplete(text) ELSE BodyComplete(text)
          /\ message' = <<>> /\ total_received' = 0 /\ sent_keepalive' = FALSE
          /\ UNCHANGED <<thread, work_end_flag>>
      BY <2>3 DEF Receive
    <3>2. ControlTypes'
      BY <1>1, <3>1 DEF ControlTypes
    <3> HIDE DEF text
    <3>3. CASE status = "waiting_for_header"
      <4>1. HeaderComplete(text)
        BY <3>1, <3>3
      <4>2. Len(text) = HEADER_LENGTH
        BY <1>1, <2>3, <3>3 DEF ReceiveTypes
      <4>3. LengthRead(text) \in Nat /\ TypeRead(text) \in Nat
        BY <1>2, <4>2, ReadsNumbers
      <4>4. /\ type_of_incoming_message' \in Nat
            /\ status' \in {"waiting_for_header", "waiting_for_message"}
            /\ status' = "waiting_for_header" => bytes_to_receive' = HEADER_LENGTH
            /\ bytes_to_receive' \in Nat \ {0} /\ received' = received
        BY <1>1, <4>1, <4>3 DEF HeaderComplete, ReceiveTypes, HEADER_LENGTH
      <4>5. message' \in Seq(Character) /\ total_received' = Len(message')
            /\ total_received' \in 0..bytes_to_receive' - 1
        <5>1. message' = <<>> /\ total_received' = 0
          BY <3>1
        <5>2. bytes_to_receive' \in Nat \ {0}
          BY <4>4
        <5>3. \A b \in Nat \ {0} : 0 \in 0..b - 1
          OBVIOUS
        <5>4. <<>> \in Seq(Character) /\ Len(<<>>) = 0
          OBVIOUS
        <5> QED
          BY ONLY <5>1, <5>2, <5>3, <5>4
      <4>6. received \in Seq(Messages) /\ posted \in Seq(Messages) /\ taken \in Seq(Messages)
        BY <1>1 DEF ReceiveTypes
      <4> HIDE DEF bytes
      <4>7. ReceiveTypes'
        BY <1>2, <4>4, <4>5, <4>6 DEF ReceiveTypes
      <4> QED
        BY <3>2, <4>7
    <3>4. CASE status = "waiting_for_message"
      <4>1. BodyComplete(text)
        BY <3>1, <3>4
      <4>2. [type |-> type_of_incoming_message, data |-> text] \in Messages
        BY <1>1, <1>2 DEF Messages, ReceiveTypes
      <4>3. received' \in Seq(Messages)
        BY <1>1, <4>1, <4>2, AppendProperties DEF BodyComplete, ReceiveTypes
      <4> QED
        BY <1>1, <1>2, <3>1, <3>2, <4>1, <4>3 DEF BodyComplete, ReceiveTypes, HEADER_LENGTH
    <3> QED
      BY <1>1, <3>3, <3>4 DEF ReceiveTypes
  <2> QED
    BY <2>1, <2>2, <2>3
<1> QED
  BY <1>3, <1>4 DEF Types

LEMMA OtherStepsKeepTypes ==
    ASSUME Types
    PROVE  /\ CheckEnd \/ CheckGoesOn \/ SendKeepAlive \/ ConnectionLost => Types'
           /\ PopMessage \/ EndWorkMessage \/ EndWorkFlag => Types'
           /\ \A m \in OutMessages : PassMessage(m) => Types'
           /\ \A m \in InMessages : ServerPost(m) => Types'
<1>1. SendTypes /\ ReceiveTypes /\ ControlTypes
  BY DEF Types
<1>2. ASSUME CheckEnd \/ ConnectionLost PROVE Types'
  BY <1>1, <1>2 DEF CheckEnd, ConnectionLost, Types, SendTypes, ReceiveTypes, ControlTypes,
                    sendBuffer, recvBuffer, history
<1>3. ASSUME CheckGoesOn PROVE Types'
  <2>1. current_message' \in Seq(Character) /\ bytes_to_send' \in Nat
    BY <1>1, <1>3, BeginSendingTypes DEF CheckGoesOn
  <2>2. SendTypes'
    BY <1>1, <1>3, <2>1 DEF CheckGoesOn, SendTypes, history
  <2>3. ReceiveTypes' /\ ControlTypes'
    BY <1>1, <1>3, ReceiveTypesKept, ControlTypesKept DEF CheckGoesOn, history
  <2> QED
    BY <2>2, <2>3 DEF Types
<1>4. ASSUME NEW m \in Messages, queue' = Append(queue, m)
      PROVE  queue' \in Seq(Messages) /\ queue' # <<>>
  BY <1>1, <1>4, AppendProperties DEF SendTypes
<1>5. ASSUME NEW m \in Messages, accepted' = Append(accepted, m)
      PROVE  accepted' \in Seq(Messages)
  BY <1>1, <1>5, AppendProperties DEF SendTypes
<1>6. ASSUME SendKeepAlive PROVE Types'
  <2>1. queue' \in Seq(Messages) /\ queue' # <<>>
    BY <1>4, <1>6, MadeMessages DEF SendKeepAlive
  <2>2. SendTypes' /\ ControlTypes'
    BY <1>1, <1>6, <2>1 DEF SendKeepAlive, SendTypes, ControlTypes
  <2>3. ReceiveTypes'
    BY <1>1, <1>6, ReceiveTypesKept DEF SendKeepAlive
  <2> QED
    BY <2>2, <2>3 DEF Types
<1>7. ASSUME PopMessage PROVE Types'
  <2>1. received \in Seq(Messages) /\ received # <<>> /\ taken \in Seq(Messages)
    BY <1>1, <1>7 DEF PopMessage, ReceiveTypes
  <2>2. Head(received) \in Messages /\ Tail(received) \in Seq(Messages)
    BY <2>1
  <2>3. taken' \in Seq(Messages) /\ received' \in Seq(Messages)
    BY <1>7, <2>1, <2>2, AppendProperties DEF PopMessage
  <2>4. ReceiveTypes'
    BY <1>1, <1>7, <2>3 DEF PopMessage, ReceiveTypes
  <2>5. SendTypes' /\ ControlTypes'
    BY <1>1, <1>7, SendTypesKept, ControlTypesKept DEF PopMessage
  <2> QED
    BY <2>4, <2>5 DEF Types
<1>8. ASSUME NEW m \in Messages, PassMessage(m) \/ (EndWorkMessage /\ m = END_OF_WORK)
      PROVE  Types'
  <2>1. queue' = Append(queue, m) /\ accepted' = Append(accepted, m)
    BY <1>8 DEF PassMessage, EndWorkMessage
  <2>2. queue' \in Seq(Messages) /\ queue' # <<>> /\ accepted' \in Seq(Messages)
    BY <1>4, <1>5, <2>1
  <2>3. SendTypes'
    BY <1>1, <1>8, <2>2 DEF PassMessage, EndWorkMessage, SendTypes
  <2>4. ReceiveTypes' /\ ControlTypes'
    BY <1>1, <1>8, ReceiveTypesKept, ControlTypesKept DEF PassMessage, EndWorkMessage
  <2> QED
    BY <2>3, <2>4 DEF Types
<1>9. ASSUME EndWorkFlag PROVE Types'
  <2>1. SendTypes' /\ ReceiveTypes'
    BY <1>1, <1>9, SendTypesKept, ReceiveTypesKept DEF EndWorkFlag
  <2>2. ControlTypes'
    BY <1>1, <1>9 DEF EndWorkFlag, ControlTypes
  <2> QED
    BY <2>1, <2>2 DEF Types
<1>10. ASSUME NEW m \in InMessages, ServerPost(m) PROVE Types'
  <2>1. m \in Messages /\ m.type \in Nat /\ m.data \in Seq(Character)
    BY MessageAssumption DEF Messages
  <2>2. encode(m.data) \in Seq(Byte)
    BY <2>1, EncodeIsBytes
  <2> DEFINE header == Header(m.type, Len(encode(m.data)))
  <2>3. header \in Seq(Character)
    <3>1. header \in Seq(Digit)
      BY <2>1, <2>2, HeaderIs, LenProperties
    <3> QED
      BY <3>1, CharactersAndBytes, SeqMonotonic
  <2> HIDE DEF header
  <2>4. encode(header \o m.data) \in Seq(Byte)
    BY <2>1, <2>3, ConcatProperties, EncodeIsBytes
  <2>5. incoming' = incoming \o encode(header \o m.data) /\ posted' = Append(posted, m)
    BY <1>10 DEF ServerPost, header
  <2>6. incoming' \in Seq(Byte) /\ posted' \in Seq(Messages)
    BY <1>1, <2>1, <2>4, <2>5, ConcatProperties, AppendProperties DEF ReceiveTypes
  <2>7. ReceiveTypes'
    BY <1>1, <1>10, <2>6 DEF ServerPost, ReceiveTypes, recvBuffer
  <2>8. SendTypes' /\ ControlTypes'
    BY <1>1, <1>10, SendTypesKept, ControlTypesKept DEF ServerPost
  <2> QED
    BY <2>7, <2>8 DEF Types
<1>11. OutMessages \subseteq Messages /\ END_OF_WORK \in Messages
  BY MessageAssumption, MadeMessages
<1> QED
  BY <1>2, <1>3, <1>6, <1>7, <1>8, <1>9, <1>10, <1>11

LEMMA NextKeepsTypes ==
    ASSUME Types, [Next]_vars
    PROVE  Types'
<1>1. CASE UNCHANGED vars
  BY <1>1, SendTypesKept, ReceiveTypesKept, ControlTypesKept DEF Types, vars, history
<1>2. CASE Next
  BY <1>2, SendKeepsTypes, ReceiveKeepsTypes, OtherStepsKeepTypes
     DEF Next, Loop, ReceivePart, SendPart, Controller
<1> QED
  BY <1>1, <1>2

LEMMA TypesHold == Spec => []Types
<1>1. Init => Types
  BY InitTypes
<1>2. Types /\ [Next]_vars => Types'
  BY NextKeepsTypes
<1> QED
  BY <1>1, <1>2, PTL DEF Spec

(* The buffers' parts keep their types; what has been received of a message  *)
(* is counted as it is kept, and is always less than what is expected, so    *)
(* that the socket thread never asks the socket for nothing.                 *)
THEOREM TypeCorrect == Spec => []TypeOK
<1>1. Types => TypeOK
  BY DEF Types, SendTypes, ReceiveTypes, ControlTypes, TypeOK
<1> QED
  BY <1>1, TypesHold, PTL

-----------------------------------------------------------------------------
(* The stream from the server.                                               *)

(* The messages that this direction withstands.                              *)
Fit == {m \in Messages : /\ m.type < Hundred /\ m.data # <<>>
                         /\ Len(m.data) < Hundred /\ AllNarrow(m.data)}

HeaderOf(m) == Header(m.type, Len(m.data))
Wire(m) == HeaderOf(m) \o m.data
Wires(ms) == FlattenSeq([i \in DOMAIN ms |-> Wire(ms[i])])

LEMMA NarrowParts ==
    ASSUME NEW s \in Seq(Character), NEW t \in Seq(Character)
    PROVE  AllNarrow(s) /\ AllNarrow(t) <=> AllNarrow(s \o t)
<1>1. /\ s \o t \in Seq(Character) /\ Len(s \o t) = Len(s) + Len(t)
      /\ \A i \in 1..Len(s) + Len(t) : (s \o t)[i] = IF i <= Len(s) THEN s[i] ELSE t[i - Len(s)]
  BY ConcatProperties
<1>2. Len(s) \in Nat /\ Len(t) \in Nat
  BY LenProperties
<1> DEFINE st == s \o t
<1> HIDE DEF st
<1>3. Len(st) = Len(s) + Len(t)
  BY <1>1 DEF st
<1>4. \A i \in 1..Len(s) : st[i] = s[i] /\ i \in 1..Len(st)
  BY <1>1, <1>2, <1>3 DEF st
<1>5. \A i \in 1..Len(t) : st[i + Len(s)] = t[i] /\ i + Len(s) \in 1..Len(st)
  BY <1>1, <1>2, <1>3 DEF st
<1>6. \A i \in 1..Len(st) : (i \in 1..Len(s) /\ st[i] = s[i])
                            \/ (i - Len(s) \in 1..Len(t) /\ st[i] = t[i - Len(s)])
  BY <1>1, <1>2, <1>3 DEF st
<1>7. ASSUME AllNarrow(s), AllNarrow(t) PROVE AllNarrow(st)
  BY <1>6, <1>7 DEF AllNarrow
<1>8. ASSUME AllNarrow(st) PROVE AllNarrow(s)
  BY <1>4, <1>8 DEF AllNarrow
<1>9. ASSUME AllNarrow(st) PROVE AllNarrow(t)
  BY <1>5, <1>9 DEF AllNarrow
<1> QED
  BY <1>7, <1>8, <1>9 DEF st

LEMMA HeaderIsNarrow ==
    ASSUME NEW type \in Nat, NEW length \in Nat
    PROVE  /\ Header(type, length) \in Seq(Character) /\ AllNarrow(Header(type, length))
           /\ Len(Header(type, length)) = HEADER_LENGTH
<1>1. /\ Header(type, length) \in Seq(Digit) /\ Len(Header(type, length)) = HEADER_LENGTH
      /\ HEADER_LENGTH = 6
  BY HeaderIs DEF HEADER_LENGTH
<1>2. Header(type, length) \in Seq(Character)
  BY <1>1, CharactersAndBytes, SeqMonotonic
<1>3. \A i \in 1..Len(Header(type, length)) : Header(type, length)[i] \in Digit
  BY <1>1, ElementOfSeq
<1>4. AllNarrow(Header(type, length))
  BY <1>3, CharactersAndBytes DEF AllNarrow
<1> QED
  BY <1>1, <1>2, <1>4

LEMMA WireIs ==
    ASSUME NEW m \in Messages, AllNarrow(m.data)
    PROVE  /\ HeaderOf(m) \in Seq(Character) /\ Len(HeaderOf(m)) = HEADER_LENGTH
           /\ m.data \in Seq(Character)
           /\ Wire(m) \in Seq(Character) /\ AllNarrow(Wire(m))
           /\ encode(m.data) = Narrow(m.data)
           /\ Len(encode(m.data)) = Len(m.data)
           /\ encode(Header(m.type, Len(encode(m.data))) \o m.data) = Narrow(Wire(m))
<1>1. m.type \in Nat /\ m.data \in Seq(Character) /\ Len(m.data) \in Nat
  BY LenProperties DEF Messages
<1>2. /\ HeaderOf(m) \in Seq(Character) /\ Len(HeaderOf(m)) = HEADER_LENGTH
      /\ AllNarrow(HeaderOf(m))
  BY <1>1, HeaderIsNarrow DEF HeaderOf
<1>3. Wire(m) \in Seq(Character) /\ AllNarrow(Wire(m))
  BY <1>1, <1>2, NarrowParts, ConcatProperties DEF Wire
<1>4. encode(m.data) = Narrow(m.data) /\ Len(encode(m.data)) = Len(m.data)
  BY <1>1, EncodeNarrow, NarrowIsBytes
<1>5. encode(Wire(m)) = Narrow(Wire(m))
  BY <1>3, EncodeNarrow
<1>6. Header(m.type, Len(encode(m.data))) \o m.data = Wire(m)
  BY <1>4 DEF Wire, HeaderOf
<1> QED
  BY <1>1, <1>2, <1>3, <1>4, <1>5, <1>6

LEMMA WiresAre ==
    ASSUME NEW ms \in Seq(Fit)
    PROVE  /\ Wires(ms) \in Seq(Character)
           /\ \A m \in Fit : Wires(Append(ms, m)) = Wires(ms) \o Wire(m)
           /\ ms = <<>> => Wires(ms) = <<>>
           /\ ms # <<>> => Wires(ms) = Wire(Head(ms)) \o Wires(Tail(ms))
<1> DEFINE T(s) == [i \in DOMAIN s |-> Wire(s[i])]
<1>1. \A m \in Fit : Wire(m) \in Seq(Character)
  BY WireIs DEF Fit
<1>2. \A s \in Seq(Fit) : T(s) \in Seq(Seq(Character)) /\ Len(T(s)) = Len(s) /\ DOMAIN s = 1..Len(s)
  <2> TAKE s \in Seq(Fit)
  <2>1. DOMAIN s = 1..Len(s) /\ Len(s) \in Nat /\ \A i \in 1..Len(s) : s[i] \in Fit
    BY LenProperties, ElementOfSeq
  <2>2. T(s) \in [1..Len(s) -> Seq(Character)]
    BY <1>1, <2>1
  <2>3. T(s) \in Seq(Seq(Character)) /\ DOMAIN T(s) = 1..Len(s)
    BY <2>1, <2>2
  <2> QED
    BY <2>1, <2>3, LenProperties
<1>3. \A s \in Seq(Fit) : \A i \in 1..Len(s) : T(s)[i] = Wire(s[i])
  BY <1>2
<1>4. \A s : Wires(s) = FlattenSeq(T(s))
  BY DEF Wires
<1> HIDE DEF T
<1>5. Wires(ms) \in Seq(Character)
  BY <1>2, <1>4, FlattenIsSeq
<1>6. ASSUME NEW m \in Fit
      PROVE  Wires(Append(ms, m)) = Wires(ms) \o Wire(m)
  <2>1. /\ Append(ms, m) \in Seq(Fit) /\ Len(Append(ms, m)) = Len(ms) + 1
        /\ \A i \in 1..Len(ms) : Append(ms, m)[i] = ms[i]
        /\ Append(ms, m)[Len(ms) + 1] = m
    BY AppendProperties
  <2>2. T(Append(ms, m)) = Append(T(ms), Wire(m))
    <3> DEFINE a == T(Append(ms, m))
               b == Append(T(ms), Wire(m))
    <3>1. /\ b \in Seq(Seq(Character)) /\ Len(b) = Len(ms) + 1
          /\ \A i \in 1..Len(ms) : b[i] = T(ms)[i]
          /\ b[Len(ms) + 1] = Wire(m)
      BY <1>1, <1>2, AppendProperties
    <3>2. a \in Seq(Seq(Character)) /\ Len(a) = Len(ms) + 1
      BY <1>2, <2>1
    <3>3. \A i \in 1..Len(ms) + 1 : a[i] = Wire(Append(ms, m)[i])
      BY <1>3, <2>1
    <3>4. \A i \in 1..Len(ms) : a[i] = b[i]
      <4> TAKE i \in 1..Len(ms)
      <4>1. i \in 1..Len(ms) + 1
        BY LenProperties
      <4>2. a[i] = Wire(Append(ms, m)[i])
        BY <3>3, <4>1
      <4>3. Append(ms, m)[i] = ms[i]
        BY <2>1
      <4>4. b[i] = Wire(ms[i])
        BY <1>3, <3>1
      <4> HIDE DEF a, b
      <4> QED
        BY <4>2, <4>3, <4>4
    <3>5. a[Len(ms) + 1] = b[Len(ms) + 1]
      BY <2>1, <3>1, <3>3, LenProperties
    <3>6. \A i \in 1..Len(a) : a[i] = b[i]
      <4>1. Len(ms) \in Nat
        BY LenProperties
      <4>2. Len(a) = Len(ms) + 1
        BY <3>2
      <4> HIDE DEF a, b
      <4> TAKE i \in 1..Len(a)
      <4>3. i \in 1..Len(ms) \/ i = Len(ms) + 1
        BY <4>1, <4>2
      <4> QED
        BY <3>4, <3>5, <4>3
    <3> HIDE DEF a, b
    <3>7. a = b
      BY <3>1, <3>2, <3>6, SeqEqual
    <3> QED
      BY <3>7 DEF a, b
  <2> QED
    BY <1>1, <1>2, <1>4, <2>2, FlattenAppend
<1>7. ASSUME ms = <<>>
      PROVE  Wires(ms) = <<>>
  <2>1. T(ms) = <<>>
    BY <1>2, <1>7, EmptySeq
  <2>2. PICK flat \in [0..Len(T(ms)) -> Seq(Character)] :
            FlattenSeq(T(ms)) = flat[Len(T(ms))] /\ flat[0] = <<>>
    BY <1>2, FlattenRuns
  <2>3. Len(T(ms)) = 0
    BY <2>1
  <2> QED
    BY <1>4, <2>2, <2>3
<1>8. ASSUME ms # <<>>
      PROVE  Wires(ms) = Wire(Head(ms)) \o Wires(Tail(ms))
  <2>1. /\ Len(ms) \in Nat \ {0} /\ Tail(ms) \in Seq(Fit) /\ Len(Tail(ms)) = Len(ms) - 1
        /\ Head(ms) = ms[1]
        /\ \A i \in 1..Len(ms) - 1 : Tail(ms)[i] = ms[i + 1]
    BY <1>8, EmptySeq, HeadTailProperties
  <2>2. T(ms) # <<>> /\ T(ms) \in Seq(Seq(Character)) /\ Len(T(ms)) = Len(ms)
    BY <1>2, <2>1, EmptySeq
  <2>3. Head(T(ms)) = Wire(Head(ms))
    BY <1>3, <2>1, <2>2
  <2>4. Tail(T(ms)) = T(Tail(ms))
    <3>1. /\ Tail(T(ms)) \in Seq(Seq(Character)) /\ Len(Tail(T(ms))) = Len(ms) - 1
          /\ \A i \in 1..Len(ms) - 1 : Tail(T(ms))[i] = T(ms)[i + 1]
      BY <2>2, HeadTailProperties
    <3>2. T(Tail(ms)) \in Seq(Seq(Character)) /\ Len(T(Tail(ms))) = Len(ms) - 1
      BY <1>2, <2>1
    <3>3. \A i \in 1..Len(ms) - 1 : T(Tail(ms))[i] = Tail(T(ms))[i]
      <4> TAKE i \in 1..Len(ms) - 1
      <4>1. i \in 1..Len(Tail(ms)) /\ i + 1 \in 1..Len(ms)
        BY <2>1
      <4> QED
        <5>1. T(Tail(ms))[i] = Wire(Tail(ms)[i])
          BY <1>3, <2>1, <4>1
        <5>2. Tail(ms)[i] = ms[i + 1]
          BY <2>1
        <5>3. Tail(T(ms))[i] = Wire(ms[i + 1])
          BY <1>3, <3>1, <4>1
        <5> QED
          BY <5>1, <5>2, <5>3
    <3> QED
      BY <3>1, <3>2, <3>3, SeqEqual
  <2> QED
    BY <1>4, <2>2, <2>3, <2>4, FlattenHead
<1> QED
  BY <1>5, <1>6, <1>7, <1>8

LEMMA CutInTwo ==
    ASSUME NEW S, NEW s \in Seq(S), NEW n \in 0..Len(s)
    PROVE  /\ SubSeq(s, 1, n) \in Seq(S) /\ Len(SubSeq(s, 1, n)) = n
           /\ SubSeq(s, n + 1, Len(s)) \in Seq(S)
           /\ Len(SubSeq(s, n + 1, Len(s))) = Len(s) - n
           /\ s = SubSeq(s, 1, n) \o SubSeq(s, n + 1, Len(s))
<1>1. Len(s) \in Nat /\ n \in Nat
  BY LenProperties
<1>2. SubSeq(s, 1, n) \in Seq(S) /\ Len(SubSeq(s, 1, n)) = n
  <2>1. 1 \in 1..(Len(s) + 1) /\ n \in (1 - 1)..Len(s) /\ n - 1 + 1 = n
    BY <1>1
  <2> QED
    BY <2>1, CutOut
<1>3. /\ SubSeq(s, n + 1, Len(s)) \in Seq(S)
      /\ Len(SubSeq(s, n + 1, Len(s))) = Len(s) - n
  <2>1. /\ n + 1 \in 1..(Len(s) + 1) /\ Len(s) \in (n + 1 - 1)..Len(s)
        /\ Len(s) - (n + 1) + 1 = Len(s) - n
    BY <1>1
  <2> DEFINE k == n + 1
             l == Len(s)
  <2>2. k \in 1..(Len(s) + 1) /\ l \in (k - 1)..Len(s) /\ l - k + 1 = Len(s) - n
    BY <2>1
  <2> HIDE DEF k, l
  <2>3. SubSeq(s, k, l) \in Seq(S) /\ Len(SubSeq(s, k, l)) = l - k + 1
    BY <2>2, CutOut
  <2> QED
    BY <2>2, <2>3 DEF k, l
<1>4. SubSeq(s, 1, n) \o SubSeq(s, n + 1, Len(s)) = s
  <2>1. 1 \in 1..Len(s) + 1 /\ n \in 1 - 1..Len(s) /\ Len(s) \in n..Len(s)
    BY <1>1
  <2>2. SubSeq(s, 1, n) \o SubSeq(s, n + 1, Len(s)) = SubSeq(s, 1, Len(s))
    BY <2>1, ConcatAdjacentSubSeq
  <2> QED
    BY <2>2, SubSeqFull
<1> QED
  BY <1>2, <1>3, <1>4

(* Characters of one byte are read whole however their bytes are cut.        *)
LEMMA NarrowIsDecoded ==
    ASSUME NEW text \in Seq(Character), AllNarrow(text)
    PROVE  Decodable(Narrow(text)) /\ decode(Narrow(text)) = text
<1> DEFINE bytes == Narrow(text)
<1>1. bytes \in Seq(Byte) /\ Len(bytes) = Len(text) /\ Len(text) \in Nat
  BY NarrowIsBytes, LenProperties
<1>2. \A i \in 1..Len(text) : bytes[i] = <<text[i], 1>> /\ Width(text[i]) = 1
  BY DEF Narrow, AllNarrow
<1> HIDE DEF bytes
<1>3. Decodable(bytes)
  <2>1. CASE bytes = <<>>
    BY <2>1 DEF Decodable
  <2>2. CASE bytes # <<>>
    <3>1. Len(text) \in Nat \ {0}
      BY <1>1, <2>2, EmptySeq
    <3>2. 1 \in 1..Len(text) /\ Len(text) \in 1..Len(text)
      BY <3>1
    <3>3. bytes[1][2] = 1 /\ bytes[Len(text)][2] = Width(bytes[Len(text)][1])
      BY <1>2, <3>2
    <3> QED
      BY <1>1, <3>3 DEF Decodable
  <2> QED
    BY <2>1, <2>2
<1>4. \A i \in 1..Len(bytes) : bytes[i][2] = 1 /\ bytes[i][1] = text[i]
  BY <1>1, <1>2
<1>5. /\ Len(decode(bytes)) = Len(bytes)
      /\ \A i \in 1..Len(bytes) : decode(bytes)[i] = bytes[i][1]
  BY <1>1, <1>4, DecodeNarrow
<1>6. decode(bytes) \in Seq(Character)
  BY <1>1, DecodeIsText
<1> DEFINE d == decode(bytes)
<1>7. d \in Seq(Character) /\ Len(d) = Len(text) /\ \A i \in 1..Len(text) : d[i] = text[i]
  BY <1>1, <1>4, <1>5, <1>6
<1> HIDE DEF d
<1>8. d = text
  BY <1>7, SeqEqual
<1> QED
  BY <1>3, <1>8 DEF bytes, d

LEMMA NarrowIsCut ==
    ASSUME NEW ahead \in Seq(Character), AllNarrow(ahead), NEW n \in 0..Len(ahead)
    PROVE  \E text \in Seq(Character), rest \in Seq(Character) :
               /\ ahead = text \o rest /\ AllNarrow(text) /\ AllNarrow(rest) /\ Len(text) = n
               /\ SubSeq(Narrow(ahead), 1, n) = Narrow(text)
               /\ SubSeq(Narrow(ahead), n + 1, Len(Narrow(ahead))) = Narrow(rest)
<1> DEFINE text == SubSeq(ahead, 1, n)
           rest == SubSeq(ahead, n + 1, Len(ahead))
           bytes == Narrow(ahead)
           p == SubSeq(bytes, 1, n)
           q == SubSeq(bytes, n + 1, Len(bytes))
<1>1. text \in Seq(Character) /\ rest \in Seq(Character) /\ ahead = text \o rest /\ Len(text) = n
  BY ONLY ahead \in Seq(Character), n \in 0..Len(ahead), CutInTwo, Zenon
<1> HIDE DEF text, rest
<1>2. bytes \in Seq(Byte) /\ Len(bytes) = Len(ahead) /\ bytes = Narrow(text) \o Narrow(rest)
  BY <1>1, NarrowIsBytes, NarrowOfParts
<1> HIDE DEF bytes
<1>3. p \in Seq(Byte) /\ q \in Seq(Byte) /\ bytes = p \o q /\ Len(p) = n
  BY <1>2, CutInTwo
<1>4. Narrow(text) \in Seq(Byte) /\ Narrow(rest) \in Seq(Byte) /\ Len(Narrow(text)) = n
  BY <1>1, NarrowIsBytes
<1> HIDE DEF p, q
<1>5. p = Narrow(text) /\ q = Narrow(rest)
  BY <1>2, <1>3, <1>4, SameParts
<1>6. AllNarrow(text) /\ AllNarrow(rest)
  BY <1>1, NarrowParts
<1> QED
  BY <1>1, <1>5, <1>6 DEF p, q, bytes

(* Between the bytes that the server has sent and what the controller has of *)
(* them there are whole messages: the first may have been read in part.      *)
ReadSoFar(pending) ==
    IF status = "waiting_for_header" THEN message ELSE HeaderOf(Head(pending)) \o message

InStep(pending, ahead) ==
    /\ posted = Arrived \o pending
    /\ incoming = Narrow(ahead) /\ AllNarrow(ahead)
    /\ ReadSoFar(pending) \o ahead = Wires(pending)
    /\ status = "waiting_for_message" =>
           /\ pending # <<>> /\ Head(pending).type = type_of_incoming_message
           /\ Len(Head(pending).data) = bytes_to_receive

StreamIsRead ==
    thread = "running" /\ InIntact
        => \E pending \in Seq(Fit), ahead \in Seq(Character) : InStep(pending, ahead)

LEMMA ReadSoFarIsText ==
    ASSUME ReceiveTypes, NEW pending \in Seq(Fit), NEW ahead \in Seq(Character),
           InStep(pending, ahead)
    PROVE  ReadSoFar(pending) \in Seq(Character)
<1>1. message \in Seq(Character)
  BY DEF ReceiveTypes
<1>2. CASE status = "waiting_for_header"
  BY <1>1, <1>2 DEF ReadSoFar
<1>3. CASE status = "waiting_for_message"
  <2>1. Head(pending) \in Fit
    BY <1>3 DEF InStep
  <2>2. HeaderOf(Head(pending)) \in Seq(Character)
    BY <2>1, WireIs DEF Fit
  <2> QED
    BY <1>1, <1>3, <2>2, ConcatProperties DEF ReadSoFar
<1> QED
  BY <1>2, <1>3 DEF ReceiveTypes

(* The server sends one more.                                                *)
LEMMA PostInStep ==
    ASSUME ReceiveTypes, NEW pending \in Seq(Fit), NEW ahead \in Seq(Character),
           InStep(pending, ahead),
           NEW m \in Fit, ServerPost(m)
    PROVE  InStep(Append(pending, m), ahead \o Wire(m))'
<1> DEFINE read == ReadSoFar(pending)
<1>1. read \in Seq(Character) /\ message \in Seq(Character)
  BY ReadSoFarIsText DEF ReceiveTypes
<1>2. m \in Messages /\ Wire(m) \in Seq(Character) /\ AllNarrow(Wire(m))
      /\ encode(Header(m.type, Len(encode(m.data))) \o m.data) = Narrow(Wire(m))
  BY WireIs DEF Fit
<1>3. UNCHANGED <<status, message, type_of_incoming_message, bytes_to_receive, Arrived>>
  BY DEF ServerPost, recvBuffer, Arrived
<1>4. posted' = Arrived' \o Append(pending, m)
  <2> DEFINE a == Arrived
  <2>1. a \in Seq(Messages) /\ pending \in Seq(Messages)
    <3>1. pending \in Seq(Messages)
      BY SeqMonotonic DEF Fit
    <3>2. a \in Seq(Messages)
      BY ConcatProperties DEF ReceiveTypes, Arrived
    <3> QED
      BY <3>1, <3>2
  <2>2. posted' = Append(a \o pending, m) /\ Arrived' = a
    BY <1>3 DEF ServerPost, InStep
  <2> HIDE DEF a
  <2>3. Append(a \o pending, m) = (a \o pending) \o <<m>>
    BY <1>2, <2>1, ConcatProperties, AppendIsConcat
  <2>4. Append(pending, m) = pending \o <<m>>
    BY <1>2, <2>1, AppendIsConcat
  <2>5. (a \o pending) \o <<m>> = a \o (pending \o <<m>>)
    <3>0. a \in Seq(Messages) /\ pending \in Seq(Messages) /\ <<m>> \in Seq(Messages)
      BY <1>2, <2>1
    <3>1. Associates(a, pending, <<m>>)
      BY ONLY <3>0, ConcatAssociates, Zenon
    <3> QED
      BY ONLY <3>1 DEF Associates
  <2> QED
    BY <2>2, <2>3, <2>4, <2>5
<1>5. incoming' = Narrow(ahead \o Wire(m)) /\ AllNarrow(ahead \o Wire(m))
  <2>1. incoming' = Narrow(ahead) \o Narrow(Wire(m)) /\ AllNarrow(ahead)
    BY <1>2 DEF ServerPost, InStep
  <2> QED
    BY <1>2, <2>1, NarrowOfParts, NarrowParts
<1>6. /\ Append(pending, m) # <<>>
      /\ pending # <<>> => Head(Append(pending, m)) = Head(pending)
  BY AppendProperties, HeadTailAppend
<1>7. ReadSoFar(Append(pending, m))' = read
  <2>1. CASE status = "waiting_for_header"
    BY <1>3, <2>1 DEF ReadSoFar
  <2>2. CASE status = "waiting_for_message"
    <3>1. Head(Append(pending, m)) = Head(pending)
      BY <1>6, <2>2 DEF InStep
    <3> QED
      BY <1>3, <2>2, <3>1 DEF ReadSoFar
  <2> QED
    BY <2>1, <2>2 DEF ReceiveTypes
<1>8. read \o (ahead \o Wire(m)) = Wires(Append(pending, m))
  <2>1. read \o ahead = Wires(pending)
    BY DEF InStep
  <2>2. Wires(Append(pending, m)) = Wires(pending) \o Wire(m)
    BY WiresAre
  <2> DEFINE w == Wire(m)
  <2>3. read \in Seq(Character) /\ ahead \in Seq(Character) /\ w \in Seq(Character)
    BY <1>1, <1>2
  <2> HIDE DEF read, w
  <2>4. (read \o ahead) \o w = read \o (ahead \o w)
    <3>1. Associates(read, ahead, w)
      BY ONLY <2>3, ConcatAssociates, Zenon
    <3> QED
      BY ONLY <3>1 DEF Associates
  <2> QED
    BY <2>1, <2>2, <2>4 DEF w
<1>9. status' = "waiting_for_message" =>
          /\ Append(pending, m) # <<>> /\ Head(Append(pending, m)).type = type_of_incoming_message'
          /\ Len(Head(Append(pending, m)).data) = bytes_to_receive'
  BY <1>3, <1>6 DEF InStep
<1> QED
  BY <1>4, <1>5, <1>7, <1>8, <1>9 DEF InStep

(* A header that is read is that of the first message that is pending.       *)
LEMMA HeaderInStep ==
    ASSUME NEW h \in Fit, NEW text, text = HeaderOf(h), HeaderComplete(text)
    PROVE  /\ status' = "waiting_for_message"
           /\ type_of_incoming_message' = h.type
           /\ bytes_to_receive' = Len(h.data)
           /\ received' = received
<1>1. h.type \in Nat /\ h.type < Hundred /\ Len(h.data) \in Nat \ {0} /\ Len(h.data) < Hundred
  <2>1. h.data \in Seq(Character) /\ h.data # <<>>
    BY DEF Fit, Messages
  <2>2. Len(h.data) \in Nat \ {0}
    BY <2>1, EmptySeq
  <2> QED
    BY <2>2 DEF Fit, Messages
<1>2. text = Header(h.type, Len(h.data))
  BY DEF HeaderOf
<1> DEFINE l == Len(h.data)
           t == h.type
<1>3. TypeRead(text) = h.type /\ LengthRead(text) = l /\ l # 0
  <2>1. t \in Nat /\ t < Hundred /\ l \in Nat /\ l < Hundred /\ l # 0 /\ text = Header(t, l)
    BY <1>1, <1>2
  <2> HIDE DEF t, l
  <2>2. TypeRead(Header(t, l)) = t /\ LengthRead(Header(t, l)) = l
    BY ONLY <2>1, HeaderReadBack
  <2> QED
    BY <2>1, <2>2 DEF t
<1>4. /\ SubSeq(text, 1, 2) \in Seq(Digit)
      /\ SubSeq(text, 5, HEADER_LENGTH) \in Seq(Digit)
  <2>1. t \in Nat /\ l \in Nat /\ text = Header(t, l)
    BY <1>1, <1>2
  <2> HIDE DEF t, l
  <2>2. /\ SubSeq(Header(t, l), 1, 2) = TwoDigits(t)
        /\ SubSeq(Header(t, l), 5, HEADER_LENGTH) = TwoDigits(l)
    BY ONLY <2>1, HeaderIs
  <2>3. TwoDigits(t) \in Seq(Digit) /\ TwoDigits(l) \in Seq(Digit)
    BY ONLY <2>1, TwoDigitsAreDigits
  <2> QED
    BY ONLY <2>1, <2>2, <2>3
<1>5. \A s \in Seq(Digit) : IsNumber(s)
  BY DEF IsNumber
<1>6. IsNumber(SubSeq(text, 1, 2)) /\ IsNumber(SubSeq(text, 5, HEADER_LENGTH))
  BY <1>4, <1>5
<1> QED
  BY <1>3, <1>6 DEF HeaderComplete

(* The client reads a piece of what is ahead: it delivers the message that   *)
(* this completes, or none.                                                  *)
LEMMA ReadInStep ==
    ASSUME ReceiveTypes, NEW pending \in Seq(Fit), NEW ahead \in Seq(Character),
           InStep(pending, ahead),
           NEW n \in Readable, Receive(n)
    PROVE  \E rest \in Seq(Character) :
               \/ InStep(pending, rest)' /\ Arrived' = Arrived
               \/ /\ pending # <<>> /\ InStep(Tail(pending), rest)'
                  /\ Arrived' = Append(Arrived, Head(pending))
<1> DEFINE read == ReadSoFar(pending)
<1>1. read \in Seq(Character) /\ message \in Seq(Character)
  BY ReadSoFarIsText DEF ReceiveTypes
<1>2. /\ incoming = Narrow(ahead) /\ AllNarrow(ahead) /\ Len(incoming) = Len(ahead)
      /\ n \in 0..Len(ahead)
  BY WhatIsReceived, NarrowIsBytes, LenProperties DEF InStep
<1>3. PICK piece \in Seq(Character), rest \in Seq(Character) :
          /\ ahead = piece \o rest /\ AllNarrow(piece) /\ AllNarrow(rest)
          /\ SubSeq(incoming, 1, n) = Narrow(piece)
          /\ SubSeq(incoming, n + 1, Len(incoming)) = Narrow(rest)
  <2>1. \E text \in Seq(Character), rest \in Seq(Character) :
            /\ ahead = text \o rest /\ AllNarrow(text) /\ AllNarrow(rest) /\ Len(text) = n
            /\ SubSeq(Narrow(ahead), 1, n) = Narrow(text)
            /\ SubSeq(Narrow(ahead), n + 1, Len(Narrow(ahead))) = Narrow(rest)
    BY <1>2, NarrowIsCut, Zenon
  <2> QED
    BY ONLY <1>2, <2>1
<1> DEFINE text == message \o piece
<1>4. Decodable(SubSeq(incoming, 1, n)) /\ decode(SubSeq(incoming, 1, n)) = piece
  BY <1>3, NarrowIsDecoded
<1>5. text \in Seq(Character)
  BY <1>1, <1>3, ConcatProperties
<1>6. /\ incoming' = Narrow(rest) /\ AllNarrow(rest)
      /\ posted' = posted /\ taken' = taken
  BY <1>3 DEF Receive, history
<1>7. \/ /\ message' = text
         /\ UNCHANGED <<received, status, bytes_to_receive, type_of_incoming_message>>
      \/ /\ Len(text) = bytes_to_receive
         /\ IF status = "waiting_for_header" THEN HeaderComplete(text) ELSE BodyComplete(text)
         /\ message' = <<>>
  BY <1>4 DEF Receive
<1>8. (message \o piece) \o rest = message \o ahead
  <2>1. Associates(message, piece, rest)
    BY <1>1, <1>3, ConcatAssociates, Zenon
  <2> QED
    BY ONLY <1>3, <2>1 DEF Associates
<1>9. status = "waiting_for_message" =>
          LET h == Head(pending) IN
          /\ pending # <<>> /\ h \in Fit /\ HeaderOf(h) \in Seq(Character)
          /\ read = HeaderOf(h) \o message
          /\ (HeaderOf(h) \o text) \o rest = read \o ahead
  <2> SUFFICES ASSUME status = "waiting_for_message"
               PROVE  /\ pending # <<>> /\ Head(pending) \in Fit
                      /\ HeaderOf(Head(pending)) \in Seq(Character)
                      /\ read = HeaderOf(Head(pending)) \o message
                      /\ (HeaderOf(Head(pending)) \o text) \o rest = read \o ahead
    OBVIOUS
  <2> DEFINE header == HeaderOf(Head(pending))
  <2>1. pending # <<>> /\ Head(pending) \in Fit
    BY DEF InStep
  <2>2. header \in Seq(Character) /\ read = header \o message
    BY <2>1, WireIs DEF Fit, ReadSoFar
  <2> DEFINE done == message
  <2>5. text \o rest = done \o ahead /\ done \in Seq(Character)
    BY <1>1, <1>8
  <2> HIDE DEF header, read, text, done
  <2>3. (header \o text) \o rest = header \o (text \o rest)
    <3>1. header \in Seq(Character) /\ text \in Seq(Character) /\ rest \in Seq(Character)
      BY <1>3, <1>5, <2>2
    <3> QED
      <4>1. Associates(header, text, rest)
        BY ONLY <3>1, ConcatAssociates, Zenon
      <4> QED
        BY ONLY <4>1 DEF Associates
  <2>4. (header \o done) \o ahead = header \o (done \o ahead)
    <3>1. header \in Seq(Character) /\ done \in Seq(Character) /\ ahead \in Seq(Character)
      BY <2>2, <2>5
    <3> QED
      <4>1. Associates(header, done, ahead)
        BY ONLY <3>1, ConcatAssociates, Zenon
      <4> QED
        BY ONLY <4>1 DEF Associates
  <2> QED
    BY <2>1, <2>2, <2>3, <2>4, <2>5 DEF header, done
<1>10. read \o ahead = Wires(pending) /\ posted = Arrived \o pending
  BY DEF InStep
<1>11. ASSUME message' = text,
              UNCHANGED <<received, status, bytes_to_receive, type_of_incoming_message>>
       PROVE  InStep(pending, rest)' /\ Arrived' = Arrived
  <2>1. Arrived' = Arrived
    BY <1>6, <1>11 DEF Arrived
  <2>2. ReadSoFar(pending)' \o rest = Wires(pending)
    <3>1. CASE status = "waiting_for_header"
      <4>1. ReadSoFar(pending)' = text /\ read = message
        BY <1>11, <3>1 DEF ReadSoFar
      <4> QED
        BY <1>8, <1>10, <4>1
    <3>2. CASE status = "waiting_for_message"
      <4>1. ReadSoFar(pending)' = HeaderOf(Head(pending)) \o text
        BY <1>11, <3>2 DEF ReadSoFar
      <4> QED
        BY <1>9, <1>10, <3>2, <4>1
    <3> QED
      BY <3>1, <3>2 DEF ReceiveTypes
  <2> QED
    BY <1>6, <1>10, <1>11, <2>1, <2>2 DEF InStep
<1>12. ASSUME Len(text) = bytes_to_receive, status = "waiting_for_header",
              HeaderComplete(text), message' = <<>>
       PROVE  InStep(pending, rest)' /\ Arrived' = Arrived
  <2> DEFINE h == Head(pending)
  <2>1. text \o rest = Wires(pending)
    BY <1>8, <1>10, <1>12 DEF ReadSoFar
  <2>2. Len(text) = HEADER_LENGTH
    BY <1>12 DEF ReceiveTypes
  <2>3. pending # <<>> /\ h \in Fit
    <3>1. ASSUME pending = <<>> PROVE FALSE
      <4>1. text \o rest = <<>>
        BY <2>1, <3>1, WiresAre
      <4>2. text = <<>>
        BY <1>3, <1>5, <4>1, ConcatEqualIffEmpty
      <4> QED
        BY <2>2, <4>2 DEF HEADER_LENGTH
    <3> QED
      BY <3>1
  <2>4. Tail(pending) \in Seq(Fit)
    BY <2>3
  <2>5. /\ HeaderOf(h) \in Seq(Character) /\ Len(HeaderOf(h)) = HEADER_LENGTH
        /\ h.data \in Seq(Character) /\ Wires(Tail(pending)) \in Seq(Character)
    BY <2>3, <2>4, WireIs, WiresAre DEF Fit
  <2>6. Wires(pending) = HeaderOf(h) \o (h.data \o Wires(Tail(pending)))
    <3>1. Wires(pending) = (HeaderOf(h) \o h.data) \o Wires(Tail(pending))
      BY <2>3, WiresAre DEF Wire
    <3> DEFINE s == Wires(Tail(pending))
               t == HeaderOf(h)
               u == h.data
    <3>2. s \in Seq(Character) /\ t \in Seq(Character) /\ u \in Seq(Character)
      BY <2>5
    <3> HIDE DEF s, t, u
    <3>3. (t \o u) \o s = t \o (u \o s)
      <4>1. Associates(t, u, s)
        BY ONLY <3>2, ConcatAssociates, Zenon
      <4> QED
        BY ONLY <4>1 DEF Associates
    <3> QED
      BY <3>1, <3>3 DEF s, t, u
  <2>7. h.data \o Wires(Tail(pending)) \in Seq(Character)
    BY <2>5, ConcatProperties
  <2>8. text = HeaderOf(h)
    <3> DEFINE s == h.data \o Wires(Tail(pending))
               t == HeaderOf(h)
    <3>1. s \in Seq(Character) /\ t \in Seq(Character) /\ Len(text) = Len(t) /\ text \o rest = t \o s
      BY <2>1, <2>2, <2>5, <2>6, <2>7
    <3> HIDE DEF s, t, text
    <3>2. text = t
      BY <1>3, <1>5, <3>1, SameParts
    <3> QED
      BY <3>2 DEF t
  <2> HIDE DEF text, h
  <2>9. /\ status' = "waiting_for_message" /\ type_of_incoming_message' = h.type
        /\ bytes_to_receive' = Len(h.data) /\ received' = received
    BY <1>12, <2>3, <2>8, HeaderInStep
  <2>10. Arrived' = Arrived
    BY <1>6, <2>9 DEF Arrived
  <2>11. ReadSoFar(pending)' = text
    <3>1. ReadSoFar(pending)' = HeaderOf(h) \o <<>>
      BY <1>12, <2>9 DEF ReadSoFar, h
    <3> QED
      BY <2>5, <2>8, <3>1, ConcatEmptySeq
  <2> QED
    BY <1>6, <1>10, <2>1, <2>3, <2>9, <2>10, <2>11 DEF InStep, h
<1>13. ASSUME Len(text) = bytes_to_receive, status = "waiting_for_message",
              BodyComplete(text), message' = <<>>
       PROVE  /\ pending # <<>> /\ InStep(Tail(pending), rest)'
              /\ Arrived' = Append(Arrived, Head(pending))
  <2> DEFINE h == Head(pending)
             t == HeaderOf(h)
             w == Wires(Tail(pending))
  <2>1. pending # <<>> /\ h \in Fit /\ t \in Seq(Character) /\ Tail(pending) \in Seq(Fit)
    BY <1>9, <1>13
  <2>2. Len(text) = Len(h.data) /\ h.type = type_of_incoming_message
    BY <1>13 DEF InStep
  <2>3. h.data \in Seq(Character) /\ w \in Seq(Character)
    BY <2>1, WireIs, WiresAre DEF Fit
  <2>4. (t \o text) \o rest = (t \o h.data) \o w
    <3>1. Wires(pending) = (t \o h.data) \o w
      BY <2>1, WiresAre DEF Wire
    <3> QED
      BY <1>9, <1>10, <1>13, <3>1
  <2>5. text = h.data /\ rest = w
    <3> DEFINE d == h.data
               a == t \o text
               b == t \o d
    <3> HIDE DEF text, t, w, d
    <3>1. d \in Seq(Character) /\ Len(text) = Len(d) /\ (t \o text) \o rest = (t \o d) \o w
      BY <2>2, <2>3, <2>4 DEF d
    <3>2. a \in Seq(Character) /\ Len(a) = Len(t) + Len(text)
      BY <1>5, <2>1, ConcatProperties
    <3>3. b \in Seq(Character) /\ Len(b) = Len(t) + Len(d)
      BY <2>1, <3>1, ConcatProperties
    <3>4. a = b /\ rest = w
      <4>1. a \o rest = b \o w /\ Len(a) = Len(b)
        BY <3>1, <3>2, <3>3
      <4> HIDE DEF a, b
      <4> QED
        BY <1>3, <2>3, <3>2, <3>3, <4>1, SameParts
    <3>5. text = d
      BY <1>5, <2>1, <3>1, <3>4, SameParts
    <3> QED
      BY <3>4, <3>5 DEF d
  <2>6. received' = Append(received, h) /\ status' = "waiting_for_header"
    <3>1. h = [type |-> h.type, data |-> h.data]
      BY <2>1 DEF Fit, Messages
    <3> HIDE DEF text, h
    <3> QED
      BY <1>13, <2>2, <2>5, <3>1 DEF BodyComplete
  <2> HIDE DEF text, h, t, w
  <2>7. /\ received \in Seq(Messages) /\ taken \in Seq(Messages) /\ h \in Messages
        /\ Tail(pending) \in Seq(Messages) /\ pending \in Seq(Messages)
    BY <2>1, SeqMonotonic DEF ReceiveTypes, Fit
  <2>8. Arrived' = Append(Arrived, h)
    <3>1. Arrived' = taken \o Append(received, h) /\ Arrived = taken \o received
      BY <1>6, <2>6 DEF Arrived
    <3>2. taken \o Append(received, h) = taken \o (received \o <<h>>)
      BY <2>7, AppendIsConcat
    <3>3. (taken \o received) \o <<h>> = taken \o (received \o <<h>>)
      <4> DEFINE one == <<h>>
      <4>1. one \in Seq(Messages)
        BY <2>7
      <4> HIDE DEF one
      <4>2. (taken \o received) \o one = taken \o (received \o one)
        <5>1. Associates(taken, received, one)
          BY ONLY <2>7, <4>1, ConcatAssociates, Zenon
        <5> QED
          BY ONLY <5>1 DEF Associates
      <4> QED
        BY <4>2 DEF one
    <3>4. Append(taken \o received, h) = (taken \o received) \o <<h>>
      BY <2>7, ConcatProperties, AppendIsConcat
    <3> QED
      BY <3>1, <3>2, <3>3, <3>4
  <2>9. posted' = Arrived' \o Tail(pending)
    <3> DEFINE a == Arrived
               q == Tail(pending)
    <3>1. a \in Seq(Messages) /\ q \in Seq(Messages)
      BY <2>7, ConcatProperties DEF Arrived
    <3>2. pending = <<h>> \o q
      BY <2>1, <2>7 DEF h
    <3>3. posted' = a \o pending /\ Arrived' = Append(a, h)
      BY <1>6, <1>10, <2>8
    <3> HIDE DEF a, q
    <3>4. Append(a, h) = a \o <<h>> /\ <<h>> \in Seq(Messages)
      BY <2>7, <3>1, AppendIsConcat
    <3>5. (a \o <<h>>) \o q = a \o (<<h>> \o q)
      <4>1. Associates(a, <<h>>, q)
        BY <3>1, <3>4, ConcatAssociates, Zenon
      <4> QED
        BY ONLY <4>1 DEF Associates
    <3> QED
      BY <3>2, <3>3, <3>4, <3>5 DEF q
  <2>10. ReadSoFar(Tail(pending))' \o rest = Wires(Tail(pending))
    <3>1. ReadSoFar(Tail(pending))' = <<>>
      BY <1>13, <2>6 DEF ReadSoFar
    <3> QED
      BY <1>3, <2>5, <3>1, ConcatEmptySeq DEF w
  <2> QED
    BY <1>6, <2>1, <2>6, <2>8, <2>9, <2>10 DEF InStep, h
<1> HIDE DEF text, read
<1> QED
  BY <1>7, <1>11, <1>12, <1>13 DEF ReceiveTypes

(* The steps that neither post nor receive.                                  *)
LEMMA NotReceiving ==
    ASSUME Types, [Next]_vars,
           \A n \in Readable : ~Receive(n),
           \A m \in InMessages : ~ServerPost(m)
    PROVE  /\ UNCHANGED <<posted, Arrived, incoming, status, message, bytes_to_receive,
                          type_of_incoming_message>>
           /\ thread' = "running" => thread = "running"
<1>1. CASE \/ UNCHANGED vars \/ SendPart \/ CheckEnd \/ CheckGoesOn \/ SendKeepAlive
           \/ ConnectionLost \/ EndWorkMessage \/ EndWorkFlag
           \/ \E m \in OutMessages : PassMessage(m)
  BY <1>1 DEF vars, SendPart, Send, CheckEnd, CheckGoesOn, SendKeepAlive, ConnectionLost,
              EndWorkMessage, EndWorkFlag, PassMessage, recvBuffer, control, history, Arrived
<1>2. CASE PopMessage
  <2>1. taken \in Seq(Messages) /\ received \in Seq(Messages) /\ received # <<>>
    BY <1>2 DEF Types, ReceiveTypes, PopMessage
  <2>2. taken' = Append(taken, Head(received)) /\ received' = Tail(received)
    BY <1>2 DEF PopMessage
  <2> DEFINE h == Head(received)
             t == Tail(received)
  <2>3. h \in Messages /\ t \in Seq(Messages) /\ received = <<h>> \o t
    BY <2>1
  <2> HIDE DEF h, t
  <2>4. Append(taken, h) = taken \o <<h>> /\ <<h>> \in Seq(Messages)
    BY <2>1, <2>3, AppendIsConcat
  <2>5. (taken \o <<h>>) \o t = taken \o (<<h>> \o t)
    <3>1. Associates(taken, <<h>>, t)
      BY <2>1, <2>3, <2>4, ConcatAssociates, Zenon
    <3> QED
      BY ONLY <3>1 DEF Associates
  <2>6. Arrived' = Arrived
    <3>1. Arrived' = Append(taken, h) \o t
      BY <2>2 DEF Arrived, h, t
    <3> QED
      BY <2>3, <2>4, <2>5, <3>1 DEF Arrived
  <2> QED
    BY <1>2, <2>6 DEF PopMessage, control
<1> QED
  BY <1>1, <1>2 DEF Next, Loop, Controller, ReceivePart

(* What the server has posted is never taken back.                           *)
LEMMA IntactBefore ==
    ASSUME Types, [Next]_vars, InIntact'
    PROVE  /\ InIntact
           /\ \A m \in InMessages : ServerPost(m) => m \in Fit
<1>1. posted' = posted \/ \E m \in InMessages : ServerPost(m)
  <2>1. CASE \E n \in Readable : Receive(n)
    BY <2>1 DEF Receive, history
  <2> QED
    BY <2>1, NotReceiving
<1>2. ASSUME posted' = posted PROVE InIntact
  BY <1>2 DEF InIntact
<1>3. ASSUME NEW m \in InMessages, ServerPost(m)
      PROVE  InIntact /\ m \in Fit
  <2>1. m \in Messages /\ m.type < Hundred /\ m.data # <<>>
    BY MessageAssumption
  <2>2. posted' = Append(posted, m) /\ posted \in Seq(Messages)
    BY <1>3 DEF ServerPost, Types, ReceiveTypes
  <2>3. /\ Len(posted) \in Nat /\ Len(posted') = Len(posted) + 1 /\ posted'[Len(posted) + 1] = m
        /\ \A i \in 1..Len(posted) : posted'[i] = posted[i]
        /\ DOMAIN posted = 1..Len(posted) /\ DOMAIN posted' = 1..Len(posted')
    BY <2>1, <2>2, AppendProperties, LenProperties
  <2>4. \A i \in 1..Len(posted) + 1 : ~IsWide(posted'[i]) /\ Len(posted'[i].data) < Hundred
    BY <2>3 DEF InIntact
  <2>5. InIntact
    BY <2>3, <2>4 DEF InIntact
  <2>6. ~IsWide(m) /\ Len(m.data) < Hundred
    BY <2>3, <2>4
  <2>7. AllNarrow(m.data)
    <3>1. m.data \in Seq(Character)
      BY <2>1 DEF Messages
    <3>2. \A i \in 1..Len(m.data) : m.data[i] \in Character /\ ~(Width(m.data[i]) > 1)
      BY <2>6, <3>1, LenProperties, ElementOfSeq DEF IsWide
    <3>3. \A c \in Character : ~(Width(c) > 1) => Width(c) = 1
      <4> TAKE c \in Character
      <4>1. Width(c) = 1 \/ Width(c) = 2
        BY CharactersAndBytes
      <4> QED
        BY <4>1
    <3>4. \A i \in 1..Len(m.data) : Width(m.data[i]) = 1
      BY <3>2, <3>3
    <3> QED
      BY <3>4 DEF AllNarrow
  <2> QED
    BY <2>1, <2>5, <2>6, <2>7 DEF Fit
<1> QED
  BY <1>1, <1>2, <1>3

LEMMA StreamIsReadAtFirst ==
    ASSUME Init
    PROVE  StreamIsRead
<1> DEFINE none == <<>>
<1>1. none \in Seq(Fit) /\ none \in Seq(Character)
  OBVIOUS
<1>2. Arrived = <<>> /\ posted = <<>> /\ incoming = <<>> /\ message = <<>>
      /\ status = "waiting_for_header"
  BY DEF Init, Arrived
<1>3. Narrow(<<>>) = <<>> /\ AllNarrow(<<>>)
  BY DEF Narrow, AllNarrow
<1>4. Wires(<<>>) = <<>>
  BY <1>1, WiresAre
<1>5. InStep(<<>>, <<>>)
  BY <1>2, <1>3, <1>4 DEF InStep, ReadSoFar
<1> QED
  BY <1>1, <1>5 DEF StreamIsRead

LEMMA NextReads ==
    ASSUME Types, StreamIsRead, [Next]_vars
    PROVE  StreamIsRead' /\ [FromServer!Next]_(FromServer!vars)
<1>1. CASE ~InIntact'
  <2>1. FromServer!Break
    BY <1>1 DEF FromServer!Break
  <2> QED
    BY <1>1, <2>1 DEF StreamIsRead, FromServer!Next
<1>2. CASE InIntact'
  <2>1. InIntact /\ \A m \in InMessages : ServerPost(m) => m \in Fit
    BY <1>2, IntactBefore
  <2>2. InIntact = TRUE /\ InIntact' = TRUE
    BY <1>2, <2>1 DEF InIntact
  <2>3. ReceiveTypes
    BY DEF Types
  <2>4. ASSUME NEW n \in Readable, Receive(n)
        PROVE  StreamIsRead' /\ [FromServer!Next]_(FromServer!vars)
    <3>1. PICK pending \in Seq(Fit), ahead \in Seq(Character) : InStep(pending, ahead)
      BY <2>1, <2>4 DEF Receive, StreamIsRead
    <3>2. PICK rest \in Seq(Character) :
              \/ InStep(pending, rest)' /\ Arrived' = Arrived
              \/ /\ pending # <<>> /\ InStep(Tail(pending), rest)'
                 /\ Arrived' = Append(Arrived, Head(pending))
      BY <2>3, <2>4, <3>1, ReadInStep
    <3>3. posted' = posted
      BY <2>4 DEF Receive, history
    <3>4. CASE InStep(pending, rest)' /\ Arrived' = Arrived
      BY <2>2, <3>3, <3>4 DEF StreamIsRead, FromServer!vars
    <3>5. CASE /\ pending # <<>> /\ InStep(Tail(pending), rest)'
               /\ Arrived' = Append(Arrived, Head(pending))
      <4>1. Tail(pending) \in Seq(Fit)
        BY <3>5
      <4>2. StreamIsRead'
        BY <3>5, <4>1 DEF StreamIsRead
      <4>3. /\ Len(Arrived) < Len(posted)
            /\ Head(pending) = posted[Len(Arrived) + 1]
        <5> DEFINE a == Arrived
        <5>1. a \in Seq(Messages) /\ pending \in Seq(Messages) /\ posted = a \o pending
          BY <2>3, <3>1, SeqMonotonic, ConcatProperties
             DEF Fit, ReceiveTypes, Arrived, InStep
        <5> HIDE DEF a
        <5>2. /\ Len(a) \in Nat /\ Len(pending) \in Nat \ {0} /\ Head(pending) = pending[1]
              /\ Len(a \o pending) = Len(a) + Len(pending)
          BY <3>5, <5>1, EmptySeq, LenProperties, ConcatProperties
        <5>3. Len(a) + 1 \in 1..Len(a) + Len(pending) /\ ~(Len(a) + 1 <= Len(a))
              /\ Len(a) + 1 - Len(a) = 1
          BY <5>2
        <5>4. (a \o pending)[Len(a) + 1] = pending[1]
          BY <5>1, <5>3, ConcatProperties
        <5> QED
          BY <5>1, <5>2, <5>4 DEF a
      <4>4. FromServer!Deliver
        BY <2>1, <2>2, <3>3, <3>5, <4>3 DEF FromServer!Deliver
      <4> QED
        BY <4>2, <4>4 DEF FromServer!Next
    <3> QED
      BY <3>2, <3>4, <3>5
  <2>5. ASSUME NEW m \in InMessages, ServerPost(m)
        PROVE  StreamIsRead' /\ [FromServer!Next]_(FromServer!vars)
    <3>1. m \in Fit
      BY <2>1, <2>5
    <3>2. thread' = thread /\ posted' = Append(posted, m) /\ Arrived' = Arrived
      BY <2>5 DEF ServerPost, control, recvBuffer, Arrived
    <3>3. StreamIsRead'
      <4>1. SUFFICES ASSUME thread = "running"
                     PROVE  \E pending \in Seq(Fit), ahead \in Seq(Character) :
                                InStep(pending, ahead)'
        BY <3>2 DEF StreamIsRead
      <4>2. PICK pending \in Seq(Fit), ahead \in Seq(Character) : InStep(pending, ahead)
        BY <2>1, <4>1 DEF StreamIsRead
      <4>3. InStep(Append(pending, m), ahead \o Wire(m))'
        BY <2>3, <2>5, <3>1, <4>2, PostInStep
      <4>4. Append(pending, m) \in Seq(Fit) /\ ahead \o Wire(m) \in Seq(Character)
        <5>1. Wire(m) \in Seq(Character)
          BY <3>1, WireIs DEF Fit
        <5> QED
          BY <3>1, <5>1, AppendProperties, ConcatProperties
      <4> QED
        BY <4>3, <4>4
    <3>4. FromServer!Put(m)
      BY <2>2, <3>2 DEF FromServer!Put
    <3> QED
      BY <3>3, <3>4 DEF FromServer!Next
  <2>6. CASE (\A n \in Readable : ~Receive(n)) /\ (\A m \in InMessages : ~ServerPost(m))
    <3>1. /\ UNCHANGED <<posted, Arrived, incoming, status, message, bytes_to_receive,
                         type_of_incoming_message>>
          /\ thread' = "running" => thread = "running"
      BY <2>6, NotReceiving
    <3>2. \A pending, ahead : InStep(pending, ahead) => InStep(pending, ahead)'
      BY <3>1 DEF InStep, ReadSoFar
    <3>3. StreamIsRead'
      BY <2>1, <3>1, <3>2 DEF StreamIsRead
    <3>4. UNCHANGED FromServer!vars
      BY <2>2, <3>1 DEF FromServer!vars
    <3> QED
      BY <3>3, <3>4
  <2> QED
    BY <2>4, <2>5, <2>6
<1> QED
  BY <1>1, <1>2

(* However recv() cuts the bytes that the server sends, inside headers and   *)
(* bodies, the controller is handed the messages the server sent, whole, in  *)
(* order and once each, as long as their characters take one byte and their  *)
(* lengths two digits.                                                       *)
THEOREM Receives == Spec => ReceivesWhatWasSent
<1>1. Init => FromServer!Init
  BY DEF Init, FromServer!Init, Arrived, InIntact
<1>2. Init => StreamIsRead
  BY StreamIsReadAtFirst
<1>3. Types /\ StreamIsRead /\ [Next]_vars => StreamIsRead' /\ [FromServer!Next]_(FromServer!vars)
  BY NextReads
<1> QED
  BY <1>1, <1>2, <1>3, TypesHold, PTL DEF Spec, ReceivesWhatWasSent, FromServer!Spec

-----------------------------------------------------------------------------
(* The stream to the server: its reader.                                     *)

After(reader, byte) ==
    LET part   == Append(reader.part, byte)
        header == [i \in 1..HEADER_LENGTH |-> part[i][1]]
        body   == SubSeq(part, HEADER_LENGTH + 1, Len(part))
    IN  IF ~reader.reads THEN reader
        ELSE IF Len(part) < HEADER_LENGTH THEN [reader EXCEPT !.part = part]
        ELSE IF ~IsNumber(header)
             THEN [found |-> Append(reader.found, [type |-> -1, body |-> <<>>]),
                   part |-> part, reads |-> FALSE]
        ELSE IF Len(body) < msg_len(header) THEN [reader EXCEPT !.part = part]
        ELSE [found |-> IF body = <<>> THEN reader.found
                        ELSE Append(reader.found, [type |-> TypeRead(header), body |-> body]),
              part |-> <<>>, reads |-> TRUE]

LEMMA ReadByteIs ==
    ASSUME NEW reader \in ReaderState, NEW byte \in Byte
    PROVE  ReadByte[<<reader, byte>>] = After(reader, byte)
BY DEF ReadByte, After

LEMMA AfterIsReader ==
    ASSUME NEW reader \in ReaderState, NEW byte \in Byte
    PROVE  After(reader, byte) \in ReaderState
<1> DEFINE Found  == Seq([type : Int, body : Seq(Byte)])
           part   == Append(reader.part, byte)
           header == [i \in 1..HEADER_LENGTH |-> part[i][1]]
           body   == SubSeq(part, HEADER_LENGTH + 1, Len(part))
<1>1. reader.found \in Found /\ reader.part \in Seq(Byte) /\ reader.reads \in BOOLEAN
  BY DEF ReaderState
<1>2. part \in Seq(Byte) /\ Len(part) \in Nat /\ [reader EXCEPT !.part = part] \in ReaderState
  <2>1. part \in Seq(Byte)
    BY <1>1, AppendProperties
  <2> HIDE DEF part
  <2> QED
    BY <2>1, LenProperties DEF ReaderState
<1> HIDE DEF part
<1>3. CASE ~reader.reads \/ Len(part) < HEADER_LENGTH
  <2>1. After(reader, byte) = reader \/ After(reader, byte) = [reader EXCEPT !.part = part]
    BY <1>3 DEF After, part
  <2> QED
    BY <1>2, <2>1
<1>4. CASE reader.reads /\ ~(Len(part) < HEADER_LENGTH) /\ ~IsNumber(header)
  <2> DEFINE new == [type |-> -1, body |-> <<>>]
  <2>1. After(reader, byte) = [found |-> Append(reader.found, new), part |-> part, reads |-> FALSE]
    BY <1>4 DEF After, part
  <2>2. new \in [type : Int, body : Seq(Byte)]
    OBVIOUS
  <2> HIDE DEF new, Found
  <2>3. Append(reader.found, new) \in Found
    BY <1>1, <2>2, AppendProperties DEF Found
  <2> QED
    BY <1>2, <2>1, <2>3 DEF ReaderState, Found
<1>5. CASE reader.reads /\ ~(Len(part) < HEADER_LENGTH) /\ IsNumber(header)
  <2>1. body \in Seq(Byte)
    <3>1. HEADER_LENGTH + 1 \in 1..(Len(part) + 1) /\ Len(part) \in (HEADER_LENGTH + 1 - 1)..Len(part)
      BY <1>2, <1>5 DEF HEADER_LENGTH
    <3> QED
      BY <1>2, <3>1, CutOut
  <2>2. header \in Seq(Nat) /\ Len(header) = HEADER_LENGTH
    <3>1. HEADER_LENGTH \in Nat
      BY DEF HEADER_LENGTH
    <3>2. \A i \in 1..HEADER_LENGTH : header[i] \in Digit
      BY <1>5 DEF IsNumber
    <3>3. \A i \in 1..HEADER_LENGTH : header[i] \in Nat
      BY <3>2, CharactersAndBytes
    <3>4. header \in [1..HEADER_LENGTH -> Nat]
      BY <3>3
    <3> HIDE DEF header
    <3>5. header \in Seq(Nat) /\ DOMAIN header = 1..HEADER_LENGTH
      BY <3>1, <3>4
    <3> QED
      BY <3>1, <3>5, LenProperties
  <2>3. TypeRead(header) \in Nat
    <3>1. 1 \in 1..(Len(header) + 1) /\ 2 \in (1 - 1)..Len(header)
      BY <2>2 DEF HEADER_LENGTH
    <3> HIDE DEF header
    <3>2. SubSeq(header, 1, 2) \in Seq(Nat)
      BY <2>2, <3>1, CutOut
    <3> QED
      BY <3>2, NumberIsNat DEF TypeRead
  <2> DEFINE new == [type |-> TypeRead(header), body |-> body]
             found == IF body = <<>> THEN reader.found ELSE Append(reader.found, new)
  <2>4. new \in [type : Int, body : Seq(Byte)]
    BY <2>1, <2>3
  <2>5. found \in Found
    <3> HIDE DEF new, body
    <3>1. Append(reader.found, new) \in Found
      BY <1>1, <2>4, AppendProperties
    <3> QED
      BY <1>1, <3>1
  <2>6. \/ After(reader, byte) = [reader EXCEPT !.part = part]
        \/ After(reader, byte) = [found |-> found, part |-> <<>>, reads |-> TRUE]
    BY <1>5 DEF After, part
  <2> HIDE DEF found
  <2>7. [found |-> found, part |-> <<>>, reads |-> TRUE] \in ReaderState
    BY <2>5 DEF ReaderState
  <2> QED
    BY <1>2, <2>6, <2>7
<1> QED
  BY <1>1, <1>3, <1>4, <1>5

LEMMA ReaderRuns ==
    ASSUME NEW bytes \in Seq(Byte)
    PROVE  \E after \in [0..Len(bytes) -> ReaderState] :
               /\ Reader(bytes) = after[Len(bytes)]
               /\ after[0] = NothingRead
               /\ \A i \in 1..Len(bytes) : after[i] = After(after[i - 1], bytes[i])
<1> DEFINE T == ReaderState
           n == Len(bytes)
           Step(i, x) == ReadByte[<<x, bytes[i]>>]
           F == [i \in 1..n |-> [x \in T |-> Step(i, x)]]
           after == CHOOSE after : after = [i \in 0..n |->
                        IF i = 0 THEN NothingRead ELSE ReadByte[<<after[i - 1], bytes[i]>>]]
<1>1. Reader(bytes) = after[n]
  BY DEF Reader
<1>2. /\ n \in Nat /\ NothingRead \in T
      /\ \A i \in 1..n, x \in T : Step(i, x) = After(x, bytes[i]) /\ Step(i, x) \in T
  <2>1. n \in Nat /\ \A i \in 1..n : bytes[i] \in Byte
    OBVIOUS
  <2>2. NothingRead \in T
    BY DEF NothingRead, ReaderState
  <2> HIDE DEF n
  <2>3. ASSUME NEW i \in 1..n, NEW x \in T PROVE Step(i, x) = After(x, bytes[i]) /\ Step(i, x) \in T
    <3>1. bytes[i] \in Byte /\ x \in ReaderState
      BY <2>1
    <3> QED
      BY <3>1, ReadByteIs, AfterIsReader
  <2> QED
    BY <2>1, <2>2, <2>3
<1> HIDE DEF T, Step, n
<1>3. F \in [1..n -> [T -> T]] /\ \A i \in 1..n, x \in T : F[i][x] = Step(i, x)
  BY <1>2
<1> HIDE DEF F
<1>4. PICK g \in [0..n -> T] : g[0] = NothingRead /\ \A i \in 1..n : g[i] = F[i][g[i - 1]]
  <2>1. Runs(T, n, NothingRead, F)
    BY <1>2, <1>3, LoopRuns
  <2> QED
    BY <2>1 DEF Runs
<1>5. ASSUME NEW i \in 1..n PROVE g[i] = Step(i, g[i - 1]) /\ g[i] = After(g[i - 1], bytes[i])
  <2>1. i - 1 \in 0..n
    BY <1>2
  <2>2. g[i - 1] \in T
    BY <2>1
  <2> QED
    BY <1>2, <1>3, <1>4, <2>2
<1>6. g = [i \in 0..n |-> IF i = 0 THEN NothingRead ELSE Step(i, g[i - 1])]
  <2>1. \A i \in 0..n : i # 0 => i \in 1..n
    BY <1>2
  <2> QED
    BY <1>4, <1>5, <2>1
<1>7. after = [i \in 0..n |-> IF i = 0 THEN NothingRead ELSE Step(i, after[i - 1])]
  BY <1>6 DEF Step
<1> HIDE DEF after
<1> DEFINE Good == {i \in 0..n : after[i] = g[i]}
<1>8. 0 \in Good
  BY <1>2, <1>4, <1>7
<1>9. ASSUME NEW i \in 1..n, i - 1 \in Good PROVE i \in Good
  <2>1. i \in 0..n /\ i # 0
    BY <1>2
  <2> QED
    BY <1>5, <1>7, <1>9, <2>1
<1>10. n \in Good
  <2> HIDE DEF Good
  <2> QED
    BY <1>2, <1>8, <1>9, LoopKeeps
<1>11. g \in [0..n -> T] /\ g[0] = NothingRead /\ Reader(bytes) = g[n]
  BY <1>1, <1>4, <1>10
<1> QED
  BY <1>5, <1>11 DEF T, n

(* What the reader of some bytes makes of a piece more.                      *)
LEMMA ReaderGoesOn ==
    ASSUME NEW bytes \in Seq(Byte), NEW piece \in Seq(Byte),
           NEW g \in [0..Len(piece) -> ReaderState], g[0] = Reader(bytes),
           \A i \in 1..Len(piece) : g[i] = After(g[i - 1], piece[i])
    PROVE  Reader(bytes \o piece) = g[Len(piece)]
<1> DEFINE l == Len(bytes)
           n == Len(piece)
           all == bytes \o piece
<1>1. /\ l \in Nat /\ n \in Nat /\ all \in Seq(Byte) /\ Len(all) = l + n
      /\ \A i \in 1..l + n : all[i] = IF i <= l THEN bytes[i] ELSE piece[i - l]
  BY LenProperties, ConcatProperties
<1> HIDE DEF all
<1>2. PICK a \in [0..l -> ReaderState] :
          /\ Reader(bytes) = a[l] /\ a[0] = NothingRead
          /\ \A i \in 1..l : a[i] = After(a[i - 1], bytes[i])
  BY ReaderRuns
<1>3. PICK b \in [0..Len(all) -> ReaderState] :
          /\ Reader(all) = b[Len(all)] /\ b[0] = NothingRead
          /\ \A i \in 1..Len(all) : b[i] = After(b[i - 1], all[i])
  BY <1>1, ReaderRuns
<1> HIDE DEF l, n
<1> DEFINE Good == {i \in 0..l : b[i] = a[i]}
           More == {i \in 0..n : b[l + i] = g[i]}
<1>4. l \in Good
  <2>1. 0 \in Good
    BY <1>1, <1>2, <1>3
  <2>2. ASSUME NEW i \in 1..l, i - 1 \in Good PROVE i \in Good
    <3>1. i \in 1..Len(all) /\ i \in 1..l + n /\ i <= l /\ i \in 0..l
      BY <1>1
    <3>2. b[i] = After(b[i - 1], bytes[i])
      BY <1>1, <1>3, <3>1
    <3> QED
      BY <1>2, <2>2, <3>1, <3>2
  <2> HIDE DEF Good
  <2> QED
    BY <1>1, <2>1, <2>2, LoopKeeps
<1>5. n \in More
  <2>1. 0 \in More
    <3>1. b[l] = g[0]
      BY <1>2, <1>4
    <3> QED
      BY <1>1, <3>1
  <2>2. ASSUME NEW i \in 1..n, i - 1 \in More PROVE i \in More
    <3>1. l + i \in 1..Len(all) /\ l + i \in 1..l + n /\ ~(l + i <= l) /\ i \in 0..n
          /\ l + i - l = i /\ l + i - 1 = l + (i - 1)
      BY <1>1
    <3>2. b[l + i] = After(b[l + (i - 1)], piece[i])
      BY <1>1, <1>3, <3>1
    <3>3. g[i] = After(g[i - 1], piece[i])
      BY DEF n
    <3> QED
      BY <2>2, <3>1, <3>2, <3>3
  <2> HIDE DEF More
  <2> QED
    BY <1>1, <2>1, <2>2, LoopKeeps
<1> QED
  BY <1>1, <1>3, <1>5 DEF n, all

(* A reader that has read some of the characters of a text, each of a byte,  *)
(* and one that has read the whole of a frame.                               *)
FoundSet == Seq([type : Int, body : Seq(Byte)])
PartRead(found, text, i) ==
    [found |-> found, part |-> Narrow(SubSeq(text, 1, i)), reads |-> TRUE]
WholeRead(found, type, data) ==
    [found |-> IF data = <<>> THEN found
               ELSE Append(found, [type |-> type, body |-> Narrow(data)]),
     part |-> <<>>, reads |-> TRUE]

LEMMA PartIs ==
    ASSUME NEW text \in Seq(Character), NEW i \in 0..Len(text)
    PROVE  /\ Narrow(SubSeq(text, 1, i)) \in Seq(Byte) /\ Len(Narrow(SubSeq(text, 1, i))) = i
           /\ \A k \in 1..i : Narrow(SubSeq(text, 1, i))[k] = <<text[k], 1>>
<1> DEFINE s == SubSeq(text, 1, i)
<1>1. s \in Seq(Character) /\ Len(s) = i /\ i \in Nat
  BY CutInTwo, LenProperties
<1>2. \A k \in 1..i : s[k] = text[k]
  <2>1. 1 \in 1..(Len(text) + 1) /\ i \in (1 - 1)..Len(text) /\ i - 1 + 1 = i
    BY LenProperties
  <2>2. \A k \in 1..(i - 1 + 1) : s[k] = text[1 + k - 1]
    BY <2>1, CutOut
  <2>3. \A k \in 1..i : 1 + k - 1 = k
    BY <1>1
  <2> HIDE DEF s
  <2> QED
    BY <2>1, <2>2, <2>3
<1> HIDE DEF s
<1>3. Narrow(s) \in Seq(Byte) /\ Len(Narrow(s)) = i
  BY <1>1, NarrowIsBytes
<1>4. \A k \in 1..i : Narrow(s)[k] = <<s[k], 1>>
  BY <1>1 DEF Narrow
<1> QED
  BY <1>2, <1>3, <1>4 DEF s

LEMMA PartGrows ==
    ASSUME NEW text \in Seq(Character), NEW i \in 0..Len(text) - 1
    PROVE  /\ <<text[i + 1], 1>> \in Byte
           /\ Append(Narrow(SubSeq(text, 1, i)), <<text[i + 1], 1>>)
                  = Narrow(SubSeq(text, 1, i + 1))
<1>1. /\ i \in 0..Len(text) /\ i + 1 \in 0..Len(text) /\ i + 1 \in 1..Len(text) /\ i \in Nat
      /\ Len(text) \in Nat
  BY LenProperties
<1> DEFINE a == Narrow(SubSeq(text, 1, i))
           b == Narrow(SubSeq(text, 1, i + 1))
           e == <<text[i + 1], 1>>
           c == Append(a, e)
<1>2. e \in Byte
  <2>1. text[i + 1] \in Character
    BY <1>1, ElementOfSeq
  <2> QED
    BY <2>1 DEF Byte
<1>3. a \in Seq(Byte) /\ Len(a) = i /\ \A k \in 1..i : a[k] = <<text[k], 1>>
  BY <1>1, PartIs
<1>4. b \in Seq(Byte) /\ Len(b) = i + 1 /\ \A k \in 1..i + 1 : b[k] = <<text[k], 1>>
  <2> DEFINE j == i + 1
  <2>1. j \in 0..Len(text)
    BY <1>1
  <2> HIDE DEF j
  <2>2. /\ Narrow(SubSeq(text, 1, j)) \in Seq(Byte) /\ Len(Narrow(SubSeq(text, 1, j))) = j
        /\ \A k \in 1..j : Narrow(SubSeq(text, 1, j))[k] = <<text[k], 1>>
    BY <2>1, PartIs
  <2> QED
    BY <2>2 DEF j
<1> HIDE DEF a, b
<1>5. c \in Seq(Byte) /\ Len(c) = i + 1 /\ (\A k \in 1..i : c[k] = a[k]) /\ c[i + 1] = e
  <2> HIDE DEF e
  <2>1. /\ c \in Seq(Byte) /\ Len(c) = Len(a) + 1
        /\ \A k \in 1..Len(a) : c[k] = a[k]
        /\ c[Len(a) + 1] = e
    BY <1>2, <1>3, AppendProperties
  <2> HIDE DEF c
  <2> QED
    BY <1>3, <2>1
<1> HIDE DEF c
<1>6. \A k \in 1..i + 1 : c[k] = b[k]
  <2> TAKE k \in 1..i + 1
  <2>1. CASE k \in 1..i
    <3>1. c[k] = <<text[k], 1>>
      BY <1>3, <1>5, <2>1
    <3> QED
      BY <1>4, <3>1
  <2>2. CASE k = i + 1
    <3>1. b[k] = <<text[k], 1>>
      BY <1>4
    <3> QED
      BY <1>5, <2>2, <3>1
  <2> QED
    BY <1>1, <2>1, <2>2
<1>7. c = b
  BY <1>4, <1>5, <1>6, SeqEqual
<1> QED
  BY <1>2, <1>7 DEF a, b, c

LEMMA PartSet ==
    ASSUME NEW reader \in ReaderState, NEW part
    PROVE  [reader EXCEPT !.part = part]
               = [found |-> reader.found, part |-> part, reads |-> reader.reads]
<1> DEFINE A == Seq([type : Int, body : Seq(Byte)])
           B == Seq(Byte)
<1>1. reader \in [found : A, part : B, reads : BOOLEAN]
  BY DEF ReaderState
<1> HIDE DEF A, B
<1> QED
  BY ONLY <1>1, SMT

(* One byte of a frame, read after those before it.                          *)
LEMMA ReadOne ==
    ASSUME NEW type \in Nat, type < Hundred,
           NEW data \in Seq(Character), Len(data) < Hundred * Hundred,
           NEW text, text = Header(type, Len(data)) \o data,
           NEW found \in FoundSet,
           NEW i \in 0..Len(text) - 1
    PROVE  /\ PartRead(found, text, i) \in ReaderState
           /\ <<text[i + 1], 1>> \in Byte
           /\ After(PartRead(found, text, i), <<text[i + 1], 1>>)
                  = IF i + 1 < Len(text) THEN PartRead(found, text, i + 1)
                                         ELSE WholeRead(found, type, data)
<1> DEFINE h == Header(type, Len(data))
           l == Len(data)
           byte == <<text[i + 1], 1>>
           reader == PartRead(found, text, i)
           part == Append(reader.part, byte)
           header == [k \in 1..HEADER_LENGTH |-> part[k][1]]
           body == SubSeq(part, HEADER_LENGTH + 1, Len(part))
<1>1. /\ h \in Seq(Character) /\ h \in Seq(Digit) /\ Len(h) = 6 /\ l \in Nat
      /\ HEADER_LENGTH = 6
  BY HeaderIs, HeaderIsNarrow, LenProperties DEF HEADER_LENGTH
<1>2. /\ text \in Seq(Character) /\ Len(text) = 6 + l
      /\ \A k \in 1..6 : text[k] = h[k]
  <2> HIDE DEF h
  <2>1. text = h \o data
    BY DEF h
  <2>2. text \in Seq(Character) /\ Len(text) = Len(h) + l
        /\ \A k \in 1..Len(h) + l : text[k] = IF k <= Len(h) THEN h[k] ELSE data[k - Len(h)]
    <3>1. h \in Seq(Character)
      BY <1>1
    <3>2. /\ h \o data \in Seq(Character) /\ Len(h \o data) = Len(h) + Len(data)
          /\ \A k \in 1..Len(h) + Len(data) :
                 (h \o data)[k] = IF k <= Len(h) THEN h[k] ELSE data[k - Len(h)]
      BY ONLY <3>1, data \in Seq(Character), ConcatProperties
    <3> QED
      BY <2>1, <3>2
  <2>3. \A k \in 1..6 : k \in 1..Len(h) + l /\ k <= Len(h)
    BY <1>1
  <2> QED
    BY <1>1, <2>2, <2>3
<1>3. i \in 0..Len(text) /\ i \in 0..5 + l /\ i + 1 \in Nat /\ i + 1 \in 0..Len(text)
  BY <1>1, <1>2
<1>4. byte \in Byte /\ reader.part = Narrow(SubSeq(text, 1, i)) /\ reader.found = found /\ reader.reads
      /\ reader \in ReaderState
  BY <1>2, <1>3, PartGrows, PartIs DEF PartRead, ReaderState, FoundSet
<1>5. part = Narrow(SubSeq(text, 1, i + 1))
  BY <1>2, <1>4, PartGrows
<1>6. part \in Seq(Byte) /\ Len(part) = i + 1 /\ \A k \in 1..i + 1 : part[k] = <<text[k], 1>>
  <2> DEFINE j == i + 1
  <2>1. j \in 0..Len(text) /\ part = Narrow(SubSeq(text, 1, j))
    BY <1>3, <1>5
  <2> HIDE DEF j, part
  <2>2. /\ part \in Seq(Byte) /\ Len(part) = j
        /\ \A k \in 1..j : part[k] = <<text[k], 1>>
    BY <1>2, <2>1, PartIs
  <2> QED
    BY <2>2 DEF j
<1>7. PartRead(found, text, i + 1) = [reader EXCEPT !.part = part]
  <2>1. reader \in ReaderState /\ reader.found = found /\ reader.reads = TRUE
    BY <1>4 DEF PartRead
  <2>2. PartRead(found, text, i + 1) = [found |-> found, part |-> part, reads |-> TRUE]
    BY <1>5 DEF PartRead
  <2> HIDE DEF part, reader
  <2>3. [reader EXCEPT !.part = part]
            = [found |-> reader.found, part |-> part, reads |-> reader.reads]
    BY ONLY <2>1, PartSet
  <2> QED
    BY <2>1, <2>2, <2>3
<1>8. After(reader, byte) =
          IF ~reader.reads THEN reader
          ELSE IF Len(part) < HEADER_LENGTH THEN [reader EXCEPT !.part = part]
          ELSE IF ~IsNumber(header)
               THEN [found |-> Append(reader.found, [type |-> -1, body |-> <<>>]),
                     part |-> part, reads |-> FALSE]
          ELSE IF Len(body) < msg_len(header) THEN [reader EXCEPT !.part = part]
          ELSE [found |-> IF body = <<>> THEN reader.found
                          ELSE Append(reader.found, [type |-> TypeRead(header), body |-> body]),
                part |-> <<>>, reads |-> TRUE]
  BY DEF After
<1> HIDE DEF h, l, byte, reader, part
<1>9. CASE i + 1 < HEADER_LENGTH
  <2>1. i + 1 < Len(text)
    BY <1>1, <1>2, <1>9
  <2>2. After(reader, byte) = [reader EXCEPT !.part = part]
    BY <1>4, <1>6, <1>8, <1>9
  <2>3. PartRead(found, text, i + 1) = After(reader, byte)
    BY ONLY <1>7, <2>2
  <2> QED
    BY ONLY <1>4, <2>1, <2>3 DEF reader, byte
<1>10. CASE ~(i + 1 < HEADER_LENGTH)
  <2>1. header = h
    <3>1. \A k \in 1..6 : part[k][1] = h[k]
      <4> TAKE k \in 1..6
      <4>1. k \in 1..i + 1
        BY <1>1, <1>3, <1>10
      <4> QED
        <5>1. part[k] = <<text[k], 1>>
          BY <1>6, <4>1
        <5>2. text[k] = h[k]
          BY <1>2
        <5> QED
          BY <5>1, <5>2
    <3>2. h = [k \in 1..6 |-> h[k]]
      BY <1>1, LenProperties
    <3> QED
      BY <1>1, <3>1, <3>2
  <2>2. IsNumber(h) /\ TypeRead(h) = type /\ msg_len(h) = l
    <3>1. IsNumber(h)
      <4>1. \A s \in Seq(Digit) : IsNumber(s)
        BY DEF IsNumber
      <4> QED
        BY <1>1, <4>1
    <3> QED
      BY <1>1, <3>1, HeaderReadBack DEF h, l
  <2>3. body \in Seq(Byte) /\ Len(body) = i + 1 - 6
    <3> DEFINE n == Len(part)
    <3>1. n \in Nat /\ n = i + 1 /\ 6 \in 0..n
      BY <1>1, <1>3, <1>6, <1>10
    <3>2. SubSeq(part, 6 + 1, n) \in Seq(Byte) /\ Len(SubSeq(part, 6 + 1, n)) = n - 6
      BY <1>6, <3>1, CutInTwo
    <3> QED
      BY <1>1, <3>1, <3>2
  <2> HIDE DEF header, body
  <2>4. CASE i + 1 < Len(text)
    <3>1. Len(body) < l
      <4>1. i \in Nat /\ l \in Nat /\ Len(body) = i + 1 - 6 /\ i + 1 < 6 + l
        BY <1>1, <1>2, <1>3, <2>3, <2>4
      <4> QED
        BY ONLY <4>1
    <3>2. After(reader, byte) = [reader EXCEPT !.part = part]
      BY <1>4, <1>6, <1>8, <1>10, <2>1, <2>2, <3>1
    <3>3. PartRead(found, text, i + 1) = After(reader, byte)
      BY ONLY <1>7, <3>2
    <3> QED
      BY ONLY <1>4, <2>4, <3>3 DEF reader, byte
  <2>5. CASE ~(i + 1 < Len(text))
    <3>1. i + 1 = Len(text) /\ Len(body) = l
      <4>1. i \in Nat /\ l \in Nat /\ Len(text) = 6 + l /\ i + 1 \in 0..Len(text)
        BY ONLY <1>1, <1>2, <1>3, i \in 0..Len(text) - 1
      <4>2. Len(body) = i + 1 - 6 /\ ~(i + 1 < Len(text))
        BY ONLY <2>3, <2>5
      <4> QED
        BY ONLY <4>1, <4>2
    <3>2. body = Narrow(data)
      <4>1. part = Narrow(text)
        BY <1>2, <1>5, <3>1, SubSeqFull
      <4>2. Narrow(text) = Narrow(h) \o Narrow(data)
        BY <1>1, NarrowOfParts DEF h
      <4>3. /\ Narrow(h) \in Seq(Byte) /\ Len(Narrow(h)) = 6
            /\ Narrow(data) \in Seq(Byte)
        BY <1>1, NarrowIsBytes
      <4> DEFINE front == SubSeq(part, 1, 6)
                 back == SubSeq(part, 6 + 1, Len(part))
      <4>4. 6 \in 0..Len(part)
        BY <1>1, <1>2, <1>6, <3>1
      <4>5. front \in Seq(Byte) /\ Len(front) = 6 /\ back \in Seq(Byte) /\ part = front \o back
        BY <1>6, <4>4, CutInTwo
      <4> HIDE DEF front, back
      <4>6. Narrow(h) \o Narrow(data) = front \o back
        BY <4>1, <4>2, <4>5
      <4> DEFINE p == Narrow(h)
                 q == Narrow(data)
      <4>7. p \in Seq(Byte) /\ q \in Seq(Byte) /\ p \o q = front \o back /\ Len(p) = Len(front)
        BY <4>3, <4>5, <4>6
      <4> HIDE DEF p, q
      <4>8. q = back
        BY <4>5, <4>7, SameParts
      <4> QED
        BY <1>1, <4>8 DEF q, back, body
    <3>3. ~(Len(body) < msg_len(header))
      BY <1>1, <2>1, <2>2, <3>1
    <3>4. body = <<>> <=> data = <<>>
      <4>1. body = <<>> => Len(data) = 0
        BY <2>3, <3>1, EmptySeq DEF l
      <4>2. data = <<>> => Len(body) = 0
        BY <3>1, EmptySeq DEF l
      <4> QED
        BY <2>3, <4>1, <4>2, EmptySeq
    <3>5. After(reader, byte)
              = [found |-> IF body = <<>> THEN found
                           ELSE Append(found, [type |-> TypeRead(header), body |-> body]),
                 part |-> <<>>, reads |-> TRUE]
      BY <1>4, <1>6, <1>8, <1>10, <2>1, <2>2, <3>3
    <3>6. After(reader, byte) = WholeRead(found, type, data)
      BY <2>1, <2>2, <3>2, <3>4, <3>5 DEF WholeRead
    <3> QED
      BY <1>4, <2>5, <3>6 DEF reader, byte
  <2> QED
    BY <2>4, <2>5
<1> QED
  BY <1>9, <1>10

(* A piece of a frame, whatever its length.                                  *)
IsFrame(text, type, data) ==
    /\ type \in Nat /\ type < Hundred
    /\ data \in Seq(Character) /\ Len(data) < Hundred * Hundred
    /\ text = Header(type, Len(data)) \o data
IsPiece(piece, text, i, n) ==
    /\ i \in 0..Len(text) - 1 /\ n \in 1..Len(text) - i
    /\ piece \in Seq(Byte) /\ Len(piece) = n
    /\ \A k \in 1..n : piece[k] = <<text[i + k], 1>>

LEMMA ReadPiece ==
    ASSUME NEW text, NEW type, NEW data, IsFrame(text, type, data),
           NEW piece, NEW i, NEW n, IsPiece(piece, text, i, n),
           NEW found \in FoundSet, NEW bytes \in Seq(Byte),
           Reader(bytes) = PartRead(found, text, i)
    PROVE  Reader(bytes \o piece)
               = IF i + n < Len(text) THEN PartRead(found, text, i + n)
                                      ELSE WholeRead(found, type, data)
<1> USE DEF IsFrame, IsPiece
<1> DEFINE State(k) == IF i + k < Len(text) THEN PartRead(found, text, i + k)
                                            ELSE WholeRead(found, type, data)
           g == [k \in 0..n |-> State(k)]
<1>1. text \in Seq(Character) /\ Len(text) \in Nat
  BY HeaderIsNarrow, LenProperties, ConcatProperties
<1>2. i \in Nat /\ n \in Nat \ {0} /\ i + n <= Len(text)
  BY <1>1
<1>3. WholeRead(found, type, data) \in ReaderState
  <2> DEFINE new == [type |-> type, body |-> Narrow(data)]
             all == IF data = <<>> THEN found ELSE Append(found, new)
  <2>1. new \in [type : Int, body : Seq(Byte)]
    BY NarrowIsBytes
  <2>2. found \in Seq([type : Int, body : Seq(Byte)])
    BY DEF FoundSet
  <2> HIDE DEF new
  <2>3. Append(found, new) \in Seq([type : Int, body : Seq(Byte)])
    BY <2>1, <2>2, AppendProperties
  <2>4. all \in Seq([type : Int, body : Seq(Byte)])
    BY <2>2, <2>3
  <2>5. WholeRead(found, type, data) = [found |-> all, part |-> <<>>, reads |-> TRUE]
    BY DEF WholeRead, new
  <2> HIDE DEF all
  <2>6. <<>> \in Seq(Byte)
    OBVIOUS
  <2> QED
    BY <2>4, <2>5, <2>6 DEF ReaderState
<1>4. ASSUME NEW k \in 0..Len(text) - 1
      PROVE  /\ PartRead(found, text, k) \in ReaderState
             /\ After(PartRead(found, text, k), <<text[k + 1], 1>>)
                    = IF k + 1 < Len(text) THEN PartRead(found, text, k + 1)
                                           ELSE WholeRead(found, type, data)
  BY ReadOne
<1>5. ASSUME NEW k \in 0..n PROVE State(k) \in ReaderState
  <2>1. i + k \in Nat
    BY <1>2
  <2>2. CASE i + k < Len(text)
    <3>1. i + k \in 0..Len(text) - 1
      BY <1>1, <2>1, <2>2
    <3> DEFINE l == i + k
    <3>2. PartRead(found, text, l) \in ReaderState
      BY <1>4, <3>1
    <3> QED
      BY <2>2, <3>2
  <2>3. CASE ~(i + k < Len(text))
    BY <1>3, <2>3
  <2> QED
    BY <2>2, <2>3
<1>6. ASSUME NEW k \in 1..n PROVE State(k) = After(State(k - 1), piece[k])
  <2> DEFINE l == i + (k - 1)
  <2>1. l \in 0..Len(text) - 1 /\ l < Len(text) /\ l + 1 = i + k
    BY <1>1, <1>2
  <2>2. State(k - 1) = PartRead(found, text, l)
    BY <2>1
  <2>3. piece[k] = <<text[l + 1], 1>>
    BY <2>1
  <2>4. State(k) = IF l + 1 < Len(text) THEN PartRead(found, text, l + 1)
                                        ELSE WholeRead(found, type, data)
    BY <2>1
  <2> HIDE DEF State, l
  <2> QED
    BY <1>4, <2>1, <2>2, <2>3, <2>4
<1>7. State(0) = Reader(bytes)
  <2>1. i + 0 = i /\ i < Len(text)
    BY <1>1, <1>2
  <2> QED
    BY <2>1
<1> HIDE DEF State
<1>8. g \in [0..n -> ReaderState]
  BY <1>5
<1>9. g[0] = Reader(bytes) /\ g[n] = State(n) /\ 0 \in 0..n /\ n \in 0..n
  BY <1>2, <1>7
<1>10. ASSUME NEW k \in 1..n PROVE g[k] = After(g[k - 1], piece[k])
  <2>1. k \in 0..n /\ k - 1 \in 0..n
    BY <1>2
  <2> QED
    BY <1>6, <2>1
<1> HIDE DEF g
<1>11. Reader(bytes \o piece) = g[n]
  <2>1. g \in [0..Len(piece) -> ReaderState] /\ \A k \in 1..Len(piece) : g[k] = After(g[k - 1], piece[k])
    BY <1>8, <1>10
  <2> QED
    BY <1>9, <2>1, ReaderGoesOn
<1> QED
  BY <1>9, <1>11 DEF State

-----------------------------------------------------------------------------
(* The stream to the server: what is sent from.                              *)

Passed == OutMessages \cup {END_OF_WORK}

(* The messages that this direction withstands.                              *)
Sendable == {m \in Messages : /\ m.type < Hundred /\ m.type # KEEP_ALIVE /\ m.data # <<>>
                              /\ Len(m.data) < Hundred * Hundred /\ AllNarrow(m.data)}

(* before[i] counts the messages put before the i-th of the queue, in which  *)
(* there are keep-alives as well.                                            *)
Waiting(before) ==
    /\ before \in [1..Len(queue) + 1 -> 0..Len(accepted)]
    /\ before[Len(queue) + 1] = Len(accepted)
    /\ \A i \in 1..Len(queue) :
           IF queue[i].type = KEEP_ALIVE
           THEN queue[i].data = keep_alive /\ before[i + 1] = before[i]
           ELSE before[i + 1] = before[i] + 1 /\ queue[i] = accepted[before[i + 1]]

UnderWay ==
    IF completed_sending THEN total_sent = 0
    ELSE /\ Head(queue).type # KEEP_ALIVE
         /\ current_message = Text(Head(queue)) /\ bytes_to_send = Len(current_message)
         /\ total_sent < Len(current_message)

(* The server has read the messages before those of the queue, and what has  *)
(* been sent of the first.                                                   *)
ServerHas(before) ==
    Reader(outgoing) = PartRead(BytesOf(SubSeq(accepted, 1, before[1])), current_message, total_sent)

StreamIsSent ==
    OutIntact => UnderWay /\ \E before : Waiting(before) /\ ServerHas(before)

AcceptedWere == accepted \in Seq(Passed)

LEMMA PassedAreSendable ==
    ASSUME NEW m \in Passed
    PROVE  m \in Messages /\ m.type # KEEP_ALIVE /\ (~IsWide(m) => m \in Sendable)
<1>1. m \in Messages /\ m.type # KEEP_ALIVE
  BY MessageAssumption, MadeMessages DEF Passed
<1>2. m.type \in Nat /\ m.data \in Seq(Character)
  BY <1>1 DEF Messages
<1>3. ASSUME ~IsWide(m) PROVE AllNarrow(m.data)
  <2>1. \A i \in 1..Len(m.data) : m.data[i] \in Character /\ ~(Width(m.data[i]) > 1)
    BY <1>2, <1>3, LenProperties, ElementOfSeq DEF IsWide
  <2>2. \A c \in Character : ~(Width(c) > 1) => Width(c) = 1
    <3> TAKE c \in Character
    <3>1. Width(c) = 1 \/ Width(c) = 2
      BY CharactersAndBytes
    <3> QED
      BY <3>1
  <2> QED
    BY <2>1, <2>2 DEF AllNarrow
<1>4. CASE m \in OutMessages
  <2>1. m.type < Hundred /\ m.data # <<>> /\ Len(encode(m.data)) < Hundred * Hundred
    BY <1>4, MessageAssumption
  <2>2. ASSUME ~IsWide(m) PROVE Len(m.data) < Hundred * Hundred
    BY <1>1, <1>3, <2>1, <2>2, WireIs
  <2> QED
    BY <1>1, <1>3, <2>1, <2>2 DEF Sendable
<1>5. CASE m = END_OF_WORK
  <2>1. m.type = 1 /\ Len(m.data) = 1 /\ m.data # <<>>
    BY <1>5 DEF END_OF_WORK, STATEMENT
  <2>2. 1 < Hundred
    BY HundredIs, LetterAssumption
  <2>3. \A h \in Nat : 1 < h => 1 < h * h
    <3> TAKE h \in Nat
    <3> HAVE 1 < h
    <3>1. h * h >= h
      OBVIOUS
    <3> QED
      BY <3>1
  <2>4. 1 < Hundred * Hundred
    BY <2>2, <2>3, HundredIs
  <2> QED
    BY <1>1, <1>3, <2>1, <2>2, <2>4 DEF Sendable
<1> QED
  BY <1>1, <1>4, <1>5 DEF Passed

(* What is sent of a message, its bytes and its keep-alives too.             *)
LEMMA TextOf ==
    ASSUME NEW m \in Messages,
           m \in Sendable \/ (m.type = KEEP_ALIVE /\ m.data = keep_alive)
    PROVE  /\ Text(m) \in Seq(Character) /\ AllNarrow(Text(m)) /\ Len(Text(m)) \in Nat \ {0}
           /\ m \in Sendable => Text(m) = Header(m.type, Len(m.data)) \o m.data
           /\ m \notin Sendable => Text(m) = Header(0, Len(<<>>)) \o <<>> /\ Len(Text(m)) = HEADER_LENGTH
<1>1. Text(m) \in Seq(Character)
  BY TextIsText
<1>2. CASE m \in Sendable
  <2>1. /\ AllNarrow(m.data) /\ m.type # KEEP_ALIVE
        /\ m.type \in Nat /\ m.data \in Seq(Character) /\ Len(m.data) \in Nat
    BY <1>2, LenProperties DEF Sendable, Messages
  <2>2. Text(m) = Header(m.type, Len(m.data)) \o m.data
    BY <2>1 DEF Text
  <2> DEFINE h == Header(m.type, Len(m.data))
             d == m.data
  <2>3. /\ h \in Seq(Character) /\ AllNarrow(h) /\ Len(h) = 6
        /\ d \in Seq(Character) /\ AllNarrow(d) /\ Text(m) = h \o d
    BY <2>1, <2>2, HeaderIsNarrow DEF HEADER_LENGTH
  <2> HIDE DEF h, d
  <2>4. AllNarrow(h \o d) /\ Len(h \o d) = Len(h) + Len(d) /\ Len(d) \in Nat
    BY <2>3, NarrowParts, ConcatProperties, LenProperties
  <2> QED
    BY <1>1, <1>2, <2>2, <2>3, <2>4
<1>3. CASE m \notin Sendable
  <2>1. Text(m) = keep_alive
    BY <1>3 DEF Text
  <2> DEFINE h == Header(0, 0)
             k == keep_alive
  <2>2. h \in Seq(Character) /\ AllNarrow(h) /\ Len(h) = HEADER_LENGTH
    BY HeaderIsNarrow
  <2>3. k \in Seq(Character) /\ Len(k) = HEADER_LENGTH
    BY MadeMessages
  <2>4. \A i \in 1..HEADER_LENGTH : h[i] = 0 /\ k[i] = 0
    <3>1. \A i \in 1..HEADER_LENGTH : k[i] = 0
      BY DEF keep_alive
    <3>2. Base \in Nat \ {0} /\ Hundred \in Nat \ {0}
      BY LetterAssumption, HundredIs
    <3>3. 0 \div Base = 0 /\ 0 % Base = 0 /\ 0 \div Hundred = 0
      <4>1. \A b \in Nat \ {0} : 0 \div b = 0 /\ 0 % b = 0
        OBVIOUS
      <4> QED
        BY <3>2, <4>1
    <3>4. TwoDigits(0) = <<0, 0>>
      BY <3>3 DEF TwoDigits
    <3>5. h = <<0, 0>> \o <<0, 0>> \o <<0, 0>>
      BY <3>3, <3>4 DEF Header
    <3>6. h \in Seq({0})
      <4> DEFINE z == <<0, 0>>
      <4>1. z \in Seq({0}) /\ h = z \o z \o z
        BY <3>5
      <4> HIDE DEF h, z
      <4>2. z \o z \o z \in Seq({0})
        BY <4>1, ConcatProperties
      <4> QED
        BY <4>1, <4>2
    <3>7. \A i \in 1..HEADER_LENGTH : h[i] = 0
      <4> HIDE DEF h
      <4>1. \A i \in 1..HEADER_LENGTH : h[i] \in {0}
        BY <2>2, <3>6, ElementOfSeq
      <4> QED
        BY <4>1
    <3> QED
      BY <3>1, <3>7
  <2> HIDE DEF h, k
  <2>5. k = h
    BY <2>2, <2>3, <2>4, SeqEqual
  <2>6. h \o <<>> = h
    BY <2>2, ConcatEmptySeq
  <2>7. Len(<<>>) = 0
    OBVIOUS
  <2>8. Text(m) = Header(0, Len(<<>>)) \o <<>>
    <3>1. Text(m) = h \o <<>>
      BY <2>1, <2>5, <2>6 DEF k
    <3>2. h = Header(0, Len(<<>>))
      <4>1. h = Header(0, 0)
        BY DEF h
      <4> QED
        BY ONLY <2>7, <4>1
    <3> QED
      BY ONLY <3>1, <3>2
  <2>9. Text(m) = h
    BY <2>1, <2>5 DEF k
  <2>10. AllNarrow(Text(m)) /\ Len(Text(m)) = HEADER_LENGTH /\ Len(Text(m)) \in Nat \ {0}
    <3>1. AllNarrow(Text(m)) /\ Len(Text(m)) = HEADER_LENGTH
      BY ONLY <2>2, <2>9
    <3>2. HEADER_LENGTH \in Nat \ {0}
      BY DEF HEADER_LENGTH
    <3> QED
      BY ONLY <3>1, <3>2
  <2> QED
    BY <1>1, <1>3, <2>8, <2>10
<1> QED
  BY <1>2, <1>3

LEMMA BytesOfIs ==
    ASSUME NEW ms \in Seq(Messages)
    PROVE  /\ BytesOf(ms) \in FoundSet /\ Len(BytesOf(ms)) = Len(ms)
           /\ \A i \in 1..Len(ms) : BytesOf(ms)[i] = AsBytes(ms[i])
<1> DEFINE n == Len(ms)
<1>1. n \in Nat /\ DOMAIN ms = 1..n /\ \A i \in 1..n : ms[i] \in Messages
  BY LenProperties, ElementOfSeq
<1>2. \A m \in Messages : AsBytes(m) \in [type : Int, body : Seq(Byte)]
  <2> TAKE m \in Messages
  <2>1. m.type \in Nat /\ m.data \in Seq(Character)
    BY DEF Messages
  <2>2. encode(m.data) \in Seq(Byte)
    BY <2>1, EncodeIsBytes
  <2> QED
    BY <2>1, <2>2 DEF AsBytes
<1> HIDE DEF n
<1>3. BytesOf(ms) = [i \in 1..n |-> AsBytes(ms[i])]
  BY <1>1 DEF BytesOf
<1> DEFINE S == [type : Int, body : Seq(Byte)]
<1> HIDE DEF S
<1>4. BytesOf(ms) \in [1..n -> S]
  BY <1>1, <1>2, <1>3 DEF S
<1>5. BytesOf(ms) \in Seq(S) /\ DOMAIN BytesOf(ms) = 1..n
  BY <1>1, <1>4
<1>6. Len(BytesOf(ms)) = n
  BY <1>1, <1>5, LenProperties
<1> QED
  BY <1>3, <1>5, <1>6 DEF n, S, FoundSet

LEMMA BytesOfMore ==
    ASSUME NEW ms \in Seq(Messages), NEW m \in Messages
    PROVE  BytesOf(Append(ms, m)) = Append(BytesOf(ms), AsBytes(m))
<1> DEFINE S == [type : Int, body : Seq(Byte)]
           am == Append(ms, m)
           e == AsBytes(m)
           a == BytesOf(am)
           b == BytesOf(ms)
           c == Append(b, e)
<1>1. Len(ms) \in Nat
  BY LenProperties
<1>2. /\ am \in Seq(Messages) /\ Len(am) = Len(ms) + 1
      /\ \A i \in 1..Len(ms) : am[i] = ms[i]
      /\ am[Len(ms) + 1] = m
  BY AppendProperties
<1> HIDE DEF am
<1>3. /\ a \in Seq(S) /\ Len(a) = Len(ms) + 1 /\ \A i \in 1..Len(ms) + 1 : a[i] = AsBytes(am[i])
  BY <1>2, BytesOfIs DEF FoundSet
<1>4. /\ b \in Seq(S) /\ Len(b) = Len(ms) /\ \A i \in 1..Len(ms) : b[i] = AsBytes(ms[i])
  BY BytesOfIs DEF FoundSet
<1>5. e \in S
  <2>1. m.type \in Nat /\ m.data \in Seq(Character)
    BY DEF Messages
  <2>2. encode(m.data) \in Seq(Byte)
    BY <2>1, EncodeIsBytes
  <2> QED
    BY <2>1, <2>2 DEF AsBytes
<1> HIDE DEF S, a, b
<1>6. /\ c \in Seq(S) /\ Len(c) = Len(ms) + 1
      /\ \A i \in 1..Len(ms) : c[i] = b[i]
      /\ c[Len(ms) + 1] = e
  <2> HIDE DEF e
  <2>1. /\ c \in Seq(S) /\ Len(c) = Len(b) + 1
        /\ \A i \in 1..Len(b) : c[i] = b[i]
        /\ c[Len(b) + 1] = e
    BY <1>4, <1>5, AppendProperties
  <2> HIDE DEF c
  <2> QED
    BY <1>4, <2>1
<1> HIDE DEF c, e
<1>7. \A i \in 1..Len(ms) + 1 : a[i] = c[i]
  <2> TAKE i \in 1..Len(ms) + 1
  <2>1. CASE i \in 1..Len(ms)
    <3>1. a[i] = AsBytes(ms[i])
      BY <1>2, <1>3, <2>1
    <3> QED
      BY <1>4, <1>6, <2>1, <3>1
  <2>2. CASE i = Len(ms) + 1
    <3>1. a[i] = AsBytes(m)
      BY <1>2, <1>3, <2>2
    <3> QED
      BY <1>6, <2>2, <3>1 DEF e
  <2> QED
    BY <1>1, <2>1, <2>2
<1>8. a = c
  BY <1>3, <1>6, <1>7, SeqEqual
<1> QED
  BY <1>8 DEF a, b, c, e, am

(* What is first in the queue of a stream that is intact.                    *)
LEMMA FirstWaiting ==
    ASSUME SendTypes, AcceptedWere, OutIntact, NEW before, Waiting(before), queue # <<>>
    PROVE  LET h == Head(queue) IN
           /\ h \in Messages
           /\ before[1] \in 0..Len(accepted) /\ Len(queue) \in Nat \ {0}
           /\ h.type = KEEP_ALIVE => h.data = keep_alive /\ before[2] = before[1]
           /\ h.type # KEEP_ALIVE => /\ h \in Sendable
                                     /\ before[1] + 1 \in 1..Len(accepted)
                                     /\ before[2] = before[1] + 1
                                     /\ h = accepted[before[1] + 1]
<1> DEFINE h == Head(queue)
<1>1. /\ queue \in Seq(Messages) /\ Len(queue) \in Nat \ {0} /\ h \in Messages
      /\ h = queue[1]
      /\ accepted \in Seq(Messages) /\ Len(accepted) \in Nat
  BY EmptySeq, LenProperties DEF SendTypes
<1>2. 1 \in 1..Len(queue) /\ 1 \in 1..Len(queue) + 1 /\ 2 \in 1..Len(queue) + 1
  BY <1>1
<1>3. /\ before[1] \in 0..Len(accepted) /\ before[2] \in 0..Len(accepted)
      /\ IF queue[1].type = KEEP_ALIVE
         THEN queue[1].data = keep_alive /\ before[1 + 1] = before[1]
         ELSE before[1 + 1] = before[1] + 1 /\ queue[1] = accepted[before[1 + 1]]
  BY <1>2 DEF Waiting
<1>4. ASSUME h.type # KEEP_ALIVE
      PROVE  /\ h \in Sendable
             /\ before[1] + 1 \in 1..Len(accepted)
             /\ before[2] = before[1] + 1
             /\ h = accepted[before[1] + 1]
  <2>1. before[2] = before[1] + 1 /\ h = accepted[before[1] + 1]
    BY <1>1, <1>3, <1>4
  <2>2. before[1] + 1 \in 1..Len(accepted)
    BY <1>1, <1>3, <2>1
  <2>3. h \in Passed
    <3> DEFINE k == before[1] + 1
    <3>1. k \in 1..Len(accepted) /\ h = accepted[k]
      BY <2>1, <2>2
    <3> HIDE DEF k, h
    <3> QED
      BY <3>1, ElementOfSeq DEF AcceptedWere
  <2>4. ~IsWide(h)
    <3>1. DOMAIN accepted = 1..Len(accepted)
      BY <1>1, LenProperties
    <3> QED
      BY <2>1, <2>2, <3>1 DEF OutIntact
  <2> QED
    BY <2>1, <2>2, <2>3, <2>4, PassedAreSendable
<1> QED
  BY <1>1, <1>3, <1>4

(* A send takes a piece of the first text of the queue, where the one before *)
(* left it.                                                                  *)
LEMMA SendPiece ==
    ASSUME Types, AcceptedWere, OutIntact, UnderWay, NEW before, Waiting(before),
           NEW n \in Writable, Send(n)
    PROVE  LET text == Text(Head(queue))
               piece == SubSeq(encode(GetMessage), 1, n)
           IN  /\ text \in Seq(Character)
               /\ total_sent \in 0..Len(text) - 1 /\ n \in 1..Len(text) - total_sent
               /\ piece \in Seq(Byte) /\ Len(piece) = n
               /\ \A k \in 1..n : piece[k] = <<text[total_sent + k], 1>>
               /\ current_message' = text /\ bytes_to_send' = Len(text)
               /\ outgoing' = outgoing \o piece
               /\ SubSeq(current_message, 1, total_sent) = SubSeq(text, 1, total_sent)
<1> DEFINE text == Text(Head(queue))
           get == GetMessage
           piece == SubSeq(encode(get), 1, n)
<1>1. /\ SendTypes /\ queue # <<>> /\ Head(queue) \in Messages
      /\ get \in Seq(Character) /\ n \in 1..Len(encode(get))
  BY WhatIsSent DEF Types
<1>2. /\ text \in Seq(Character) /\ AllNarrow(text) /\ Len(text) \in Nat \ {0}
  BY <1>1, FirstWaiting, TextOf
<1>3. total_sent \in Nat /\ outgoing' = outgoing \o piece
  BY <1>1 DEF SendTypes, Send
<1> HIDE DEF piece, get, text
<1>4. /\ total_sent \in 0..Len(text) - 1
      /\ Len(get) = Len(text) - total_sent /\ AllNarrow(get)
      /\ \A k \in 1..Len(get) : get[k] = text[total_sent + k]
      /\ current_message' = text /\ bytes_to_send' = Len(text)
      /\ SubSeq(current_message, 1, total_sent) = SubSeq(text, 1, total_sent)
  <2>1. CASE completed_sending
    <3>1. total_sent = 0 /\ get = text
      BY <2>1 DEF UnderWay, GetMessage, get, text
    <3>2. current_message' = text /\ bytes_to_send' = Len(text)
      BY <2>1 DEF Send, BeginSending, text
    <3>3. SubSeq(current_message, 1, 0) = <<>> /\ SubSeq(text, 1, 0) = <<>>
      BY SubSeqEmpty
    <3>4. 0 \in 0..Len(text) - 1 /\ Len(text) - 0 = Len(text) /\ \A k \in 1..Len(text) : 0 + k = k
      BY <1>2
    <3> QED
      BY <1>2, <3>1, <3>2, <3>3, <3>4
  <2>2. CASE ~completed_sending
    <3>1. current_message = text /\ bytes_to_send = Len(text) /\ total_sent < Len(text)
      BY <2>2 DEF UnderWay, text
    <3>2. get = SubSeq(text, total_sent + 1, Len(text))
      BY <2>2, <3>1 DEF GetMessage, get
    <3>3. current_message' = text /\ bytes_to_send' = Len(text)
      BY <2>2, <3>1 DEF Send, BeginSending
    <3>4. total_sent \in 0..Len(text) - 1 /\ total_sent \in 0..Len(text)
      BY <1>2, <1>3, <3>1
    <3> DEFINE front == SubSeq(text, 1, total_sent)
    <3>5. /\ front \in Seq(Character) /\ Len(front) = total_sent
          /\ text = front \o get /\ Len(get) = Len(text) - total_sent
      BY <1>2, <3>2, <3>4, CutInTwo
    <3> HIDE DEF front
    <3>6. AllNarrow(get)
      BY <1>1, <1>2, <3>5, NarrowParts
    <3>7. \A k \in 1..Len(get) : get[k] = text[total_sent + k]
      <4>1. \A k \in 1..Len(front) + Len(get) :
                (front \o get)[k] = IF k <= Len(front) THEN front[k] ELSE get[k - Len(front)]
        BY <1>1, <3>5, ConcatProperties
      <4> TAKE k \in 1..Len(get)
      <4>2. /\ Len(front) + k \in 1..Len(front) + Len(get) /\ ~(Len(front) + k <= Len(front))
            /\ Len(front) + k - Len(front) = k
        BY <1>2, <1>3, <3>4, <3>5
      <4>3. (front \o get)[Len(front) + k] = get[k]
        BY <4>1, <4>2
      <4> QED
        BY <3>5, <4>3
    <3> QED
      BY <3>1, <3>3, <3>4, <3>5, <3>6, <3>7
  <2> QED
    BY <1>1, <2>1, <2>2 DEF SendTypes
<1>5. encode(get) = Narrow(get) /\ Len(encode(get)) = Len(get) /\ encode(get) \in Seq(Byte)
  BY <1>1, <1>4, EncodeNarrow, NarrowIsBytes
<1>6. n \in 1..Len(text) - total_sent
  BY <1>1, <1>4, <1>5
<1>7. piece = SubSeq(Narrow(get), 1, n) /\ Narrow(get) \in Seq(Byte) /\ n \in 0..Len(Narrow(get))
      /\ n \in 1..Len(get)
  BY <1>1, <1>5 DEF piece
<1>8. piece \in Seq(Byte) /\ Len(piece) = n
  BY <1>7, CutInTwo
<1>9. \A k \in 1..n : piece[k] = <<text[total_sent + k], 1>>
  <2> DEFINE bytes == Narrow(get)
  <2>1. bytes \in Seq(Byte) /\ Len(bytes) = Len(get) /\ n \in 1..Len(bytes) /\ Len(get) \in Nat
    BY <1>1, <1>5, <1>7, LenProperties
  <2>2. \A k \in 1..Len(get) : bytes[k] = <<get[k], 1>>
    BY DEF Narrow
  <2>3. piece = SubSeq(bytes, 1, n)
    BY <1>7
  <2> HIDE DEF bytes
  <2>4. 1 \in 1..(Len(bytes) + 1) /\ n \in (1 - 1)..Len(bytes) /\ n - 1 + 1 = n
    BY <2>1
  <2>5. \A k \in 1..(n - 1 + 1) : SubSeq(bytes, 1, n)[k] = bytes[1 + k - 1]
    BY <2>1, <2>4, CutOut
  <2> TAKE k \in 1..n
  <2>6. k \in 1..Len(get) /\ 1 + k - 1 = k
    BY <2>1
  <2>7. piece[k] = bytes[k]
    BY <2>3, <2>4, <2>5, <2>6
  <2> QED
    BY <1>4, <2>2, <2>6, <2>7
<1> QED
  BY <1>2, <1>3, <1>4, <1>6, <1>8, <1>9 DEF text, get, piece

(* What the server has after that: a text in part, or a message more.        *)
LEMMA ServerReads ==
    ASSUME Types, AcceptedWere, OutIntact, UnderWay,
           NEW before, Waiting(before), ServerHas(before),
           NEW n \in Writable, Send(n)
    PROVE  LET h == Head(queue)
               text == Text(h)
               found == BytesOf(SubSeq(accepted, 1, before[1]))
           IN  Reader(outgoing') =
                   IF total_sent + n < Len(text) THEN PartRead(found, text, total_sent + n)
                   ELSE [found |-> BytesOf(SubSeq(accepted, 1, before[2])),
                         part |-> <<>>, reads |-> TRUE]
<1> DEFINE h == Head(queue)
           text == Text(h)
           found == BytesOf(SubSeq(accepted, 1, before[1]))
           piece == SubSeq(encode(GetMessage), 1, n)
<1>1. /\ SendTypes /\ queue # <<>> /\ h \in Messages /\ outgoing \in Seq(Byte)
      /\ accepted \in Seq(Messages)
  BY WhatIsSent DEF Types, SendTypes
<1>2. /\ text \in Seq(Character)
      /\ total_sent \in 0..Len(text) - 1 /\ n \in 1..Len(text) - total_sent
      /\ piece \in Seq(Byte) /\ Len(piece) = n
      /\ \A k \in 1..n : piece[k] = <<text[total_sent + k], 1>>
      /\ outgoing' = outgoing \o piece
      /\ SubSeq(current_message, 1, total_sent) = SubSeq(text, 1, total_sent)
  BY SendPiece
<1>3. /\ before[1] \in 0..Len(accepted)
      /\ h.type = KEEP_ALIVE => h.data = keep_alive /\ before[2] = before[1]
      /\ h.type # KEEP_ALIVE => /\ h \in Sendable
                                /\ before[1] + 1 \in 1..Len(accepted)
                                /\ before[2] = before[1] + 1
                                /\ h = accepted[before[1] + 1]
  BY <1>1, FirstWaiting
<1>4. found \in FoundSet
  <2>1. SubSeq(accepted, 1, before[1]) \in Seq(Messages)
    BY <1>1, <1>3, CutInTwo
  <2> QED
    BY <2>1, BytesOfIs
<1>5. Reader(outgoing) = PartRead(found, text, total_sent)
  BY <1>2 DEF ServerHas, PartRead
<1>6. CASE h.type = KEEP_ALIVE
  <2>1. h \notin Sendable /\ h.data = keep_alive /\ before[2] = before[1]
    BY <1>3, <1>6 DEF Sendable
  <2>2. text = Header(0, Len(<<>>)) \o <<>>
    BY <1>1, <1>6, <2>1, TextOf
  <2>3. 0 \in Nat /\ 0 < Hundred /\ <<>> \in Seq(Character) /\ Len(<<>>) < Hundred * Hundred
    <3>1. \A k \in Nat \ {0} : 0 < k /\ 0 < k * k
      OBVIOUS
    <3> QED
      BY <3>1, HundredIs
  <2> HIDE DEF text, found, piece, h
  <2> DEFINE type == 0
             data == <<>>
  <2>6. /\ type \in Nat /\ type < Hundred /\ data \in Seq(Character)
        /\ Len(data) < Hundred * Hundred /\ text = Header(type, Len(data)) \o data
    BY <2>2, <2>3
  <2> HIDE DEF type, data
  <2> DEFINE i == total_sent
             bytes == outgoing
  <2>7. /\ i \in 0..Len(text) - 1 /\ n \in 1..Len(text) - i /\ found \in FoundSet
        /\ bytes \in Seq(Byte) /\ Reader(bytes) = PartRead(found, text, i)
        /\ piece \in Seq(Byte) /\ Len(piece) = n
    BY <1>1, <1>2, <1>4, <1>5
  <2>8. \A k \in 1..n : piece[k] = <<text[i + k], 1>>
    BY <1>2
  <2> HIDE DEF i, bytes, text, found, piece
  <2>9. IsPiece(piece, text, i, n)
    BY <2>7, <2>8 DEF IsPiece
  <2>4. Reader(bytes \o piece) = IF i + n < Len(text) THEN PartRead(found, text, i + n)
                                                   ELSE WholeRead(found, type, data)
    <3>1. IsFrame(text, type, data)
      BY <2>6 DEF IsFrame
    <3> QED
      BY ONLY <2>7, <2>9, <3>1, ReadPiece
  <2>5. WholeRead(found, 0, <<>>) = [found |-> found, part |-> <<>>, reads |-> TRUE]
    BY DEF WholeRead
  <2> QED
    BY <1>2, <2>1, <2>4, <2>5 DEF text, found, h, type, data, i, bytes
<1>7. CASE h.type # KEEP_ALIVE
  <2>1. /\ h \in Sendable /\ h.type \in Nat /\ h.type < Hundred /\ h.data \in Seq(Character)
        /\ Len(h.data) < Hundred * Hundred /\ h.data # <<>> /\ AllNarrow(h.data)
    BY <1>1, <1>3, <1>7 DEF Sendable, Messages
  <2>2. text = Header(h.type, Len(h.data)) \o h.data
    BY <1>1, <2>1, TextOf
  <2>3. WholeRead(found, h.type, h.data)
            = [found |-> Append(found, AsBytes(h)), part |-> <<>>, reads |-> TRUE]
    <3>1. encode(h.data) = Narrow(h.data)
      BY <2>1, EncodeNarrow
    <3> HIDE DEF h, found
    <3> QED
      BY <2>1, <3>1 DEF WholeRead, AsBytes
  <2>4. BytesOf(SubSeq(accepted, 1, before[2])) = Append(found, AsBytes(h))
    <3> DEFINE k == before[1] + 1
               front == SubSeq(accepted, 1, before[1])
    <3>1. k \in 1..Len(accepted) /\ before[2] = k /\ h = accepted[k] /\ k - 1 = before[1]
          /\ 1 \in 1..Len(accepted) /\ k \in 1..Len(accepted)
      BY <1>1, <1>3, <1>7, LenProperties
    <3>2. front \in Seq(Messages)
      BY <1>1, <1>3, CutInTwo
    <3> HIDE DEF k
    <3>3. SubSeq(accepted, 1, k) = SubSeq(accepted, 1, k - 1) \o <<accepted[k]>>
      BY <1>1, <3>1, SubSeqRecursiveSecond
    <3>4. SubSeq(accepted, 1, k) = front \o <<h>>
      BY <3>1, <3>3
    <3> HIDE DEF front, h
    <3>5. front \o <<h>> = Append(front, h)
      BY <1>1, <3>2, AppendIsConcat
    <3>6. BytesOf(Append(front, h)) = Append(BytesOf(front), AsBytes(h))
      BY <1>1, <3>2, BytesOfMore
    <3> QED
      BY <3>1, <3>4, <3>5, <3>6 DEF front
  <2> HIDE DEF text, found, piece
  <2> DEFINE type == h.type
             data == h.data
  <2>5. /\ type \in Nat /\ type < Hundred /\ data \in Seq(Character)
        /\ Len(data) < Hundred * Hundred /\ text = Header(type, Len(data)) \o data
    BY <2>1, <2>2
  <2> HIDE DEF type, data
  <2> DEFINE i == total_sent
             bytes == outgoing
  <2>7. /\ i \in 0..Len(text) - 1 /\ n \in 1..Len(text) - i /\ found \in FoundSet
        /\ bytes \in Seq(Byte) /\ Reader(bytes) = PartRead(found, text, i)
        /\ piece \in Seq(Byte) /\ Len(piece) = n
    BY <1>1, <1>2, <1>4, <1>5
  <2>8. \A k \in 1..n : piece[k] = <<text[i + k], 1>>
    BY <1>2
  <2> HIDE DEF i, bytes, text, found, piece
  <2>9. IsPiece(piece, text, i, n)
    BY <2>7, <2>8 DEF IsPiece
  <2>6. Reader(bytes \o piece) = IF i + n < Len(text) THEN PartRead(found, text, i + n)
                                                   ELSE WholeRead(found, type, data)
    <3>1. IsFrame(text, type, data)
      BY <2>5 DEF IsFrame
    <3> QED
      BY ONLY <2>7, <2>9, <3>1, ReadPiece
  <2> QED
    BY <1>2, <2>3, <2>4, <2>6 DEF text, found, type, data, i, bytes
<1> QED
  BY <1>6, <1>7

LEMMA QueueGrows ==
    ASSUME SendTypes, NEW before, Waiting(before),
           NEW m \in Messages, queue' = Append(queue, m),
           \/ m.type = KEEP_ALIVE /\ m.data = keep_alive /\ accepted' = accepted
           \/ m.type # KEEP_ALIVE /\ accepted' = Append(accepted, m)
    PROVE  /\ \E after : Waiting(after)' /\ after[1] = before[1]
           /\ queue # <<>> => Head(queue') = Head(queue)
           /\ SubSeq(accepted', 1, before[1]) = SubSeq(accepted, 1, before[1])
<1> DEFINE q == Len(queue)
           a == Len(accepted)
           b == Len(accepted')
<1>1. /\ q \in Nat /\ a \in Nat /\ queue \in Seq(Messages) /\ accepted \in Seq(Messages)
  BY LenProperties DEF SendTypes
<1>2. /\ Len(queue') = q + 1 /\ queue'[q + 1] = m
      /\ \A i \in 1..q : queue'[i] = queue[i]
  BY <1>1, AppendProperties
<1>3. /\ accepted' \in Seq(Messages)
      /\ b = IF m.type = KEEP_ALIVE THEN a ELSE a + 1
      /\ \A i \in 1..a : accepted'[i] = accepted[i]
      /\ m.type # KEEP_ALIVE => accepted'[a + 1] = m
  <2>1. CASE m.type = KEEP_ALIVE
    BY <1>1, <2>1
  <2>2. CASE m.type # KEEP_ALIVE
    <3> DEFINE acc == Append(accepted, m)
    <3>1. /\ acc \in Seq(Messages) /\ Len(acc) = Len(accepted) + 1
          /\ \A i \in 1..Len(accepted) : acc[i] = accepted[i]
          /\ acc[Len(accepted) + 1] = m
      BY <1>1, AppendProperties
    <3>2. accepted' = acc
      BY <2>2
    <3> HIDE DEF acc
    <3> QED
      BY <2>2, <3>1, <3>2
  <2> QED
    BY <2>1, <2>2
<1>4. /\ before \in [1..q + 1 -> 0..a] /\ before[q + 1] = a
      /\ \A i \in 1..q :
             IF queue[i].type = KEEP_ALIVE
             THEN queue[i].data = keep_alive /\ before[i + 1] = before[i]
             ELSE before[i + 1] = before[i] + 1 /\ queue[i] = accepted[before[i + 1]]
  BY DEF Waiting
<1>5. queue # <<>> => Head(queue') = Head(queue)
  BY <1>1, HeadTailAppend
<1>6. SubSeq(accepted', 1, before[1]) = SubSeq(accepted, 1, before[1])
  <2>1. before[1] \in 0..a /\ a <= b /\ b \in Nat
    <3>1. 1 \in 1..q + 1 /\ a \in Nat
      BY <1>1
    <3>2. before[1] \in 0..a
      BY <1>4, <3>1
    <3>3. b = a \/ b = a + 1
      BY <1>3
    <3> HIDE DEF a, b
    <3> QED
      BY <3>1, <3>2, <3>3
  <2> DEFINE k == before[1]
             s == SubSeq(accepted', 1, k)
             t == SubSeq(accepted, 1, k)
             acc == accepted'
  <2>2. k \in 0..Len(accepted) /\ k \in 0..Len(acc) /\ k \in Nat /\ acc \in Seq(Messages)
    BY <1>1, <1>3, <2>1
  <2> HIDE DEF k, acc
  <2>3. \A i \in 1..k : SubSeq(accepted, 1, k)[i] = accepted[i] /\ SubSeq(acc, 1, k)[i] = acc[i]
    <3>1. 1 \in 1..(Len(accepted) + 1) /\ k \in (1 - 1)..Len(accepted) /\ k - 1 + 1 = k
          /\ 1 \in 1..(Len(acc) + 1) /\ k \in (1 - 1)..Len(acc)
          /\ \A i \in 1..k : 1 + i - 1 = i
      BY <1>1, <2>2, LenProperties
    <3>2. \A i \in 1..k - 1 + 1 : SubSeq(accepted, 1, k)[i] = accepted[1 + i - 1]
      BY <1>1, <3>1, CutOut
    <3>3. \A i \in 1..k - 1 + 1 : SubSeq(acc, 1, k)[i] = acc[1 + i - 1]
      BY <2>2, <3>1, CutOut
    <3> QED
      BY <3>1, <3>2, <3>3
  <2>4. \A i \in 1..k : i \in 1..a
    BY <2>2 DEF a
  <2>5. \A i \in 1..k : SubSeq(acc, 1, k)[i] = SubSeq(accepted, 1, k)[i]
    BY <1>3, <2>3, <2>4 DEF acc
  <2>6. /\ SubSeq(accepted, 1, k) \in Seq(Messages) /\ Len(SubSeq(accepted, 1, k)) = k
        /\ SubSeq(acc, 1, k) \in Seq(Messages) /\ Len(SubSeq(acc, 1, k)) = k
    BY <1>1, <2>2, CutInTwo
  <2>7. SubSeq(acc, 1, k) = SubSeq(accepted, 1, k)
    BY <2>5, <2>6, SeqEqual
  <2> QED
    BY <2>7 DEF acc, k
<1> HIDE DEF q, a, b
<1> PICK after : after = [i \in 1..q + 2 |-> IF i <= q + 1 THEN before[i] ELSE b]
  OBVIOUS
<1>7. \A i \in 1..q + 1 : after[i] = before[i]
  BY <1>1
<1>8. after[q + 2] = b /\ after[1] = before[1]
  BY <1>1
<1>9. after \in [1..q + 2 -> 0..b]
  <2>1. \A i \in 1..q + 1 : before[i] \in 0..b
    BY <1>1, <1>3, <1>4
  <2>2. b \in 0..b
    BY <1>1, <1>3
  <2>3. \A i \in 1..q + 2 : after[i] \in 0..b
    BY <1>1, <2>1, <2>2
  <2> QED
    BY <2>3
<1>10. ASSUME NEW i \in 1..q + 1
       PROVE  IF queue'[i].type = KEEP_ALIVE
              THEN queue'[i].data = keep_alive /\ after[i + 1] = after[i]
              ELSE after[i + 1] = after[i] + 1 /\ queue'[i] = accepted'[after[i + 1]]
  <2>1. CASE i \in 1..q
    <3>1. /\ queue'[i] = queue[i] /\ after[i] = before[i] /\ after[i + 1] = before[i + 1]
          /\ i + 1 \in 1..q + 1
      BY <1>1, <1>2, <1>7, <2>1
    <3>2. CASE queue[i].type = KEEP_ALIVE
      BY <1>4, <2>1, <3>1, <3>2
    <3>3. CASE queue[i].type # KEEP_ALIVE
      <4>1. before[i + 1] = before[i] + 1 /\ queue[i] = accepted[before[i + 1]]
            /\ before[i + 1] \in 0..a /\ before[i] \in 0..a
        BY <1>1, <1>4, <2>1, <3>1, <3>3
      <4>2. before[i + 1] \in 1..a
        BY <1>1, <4>1
      <4> QED
        BY <1>3, <3>1, <3>3, <4>1, <4>2
    <3> QED
      BY <3>2, <3>3
  <2>2. CASE i = q + 1
    <3>1. queue'[i] = m /\ after[i] = a /\ after[i + 1] = b
      <4>1. q + 1 \in 1..q + 1 /\ q + 1 + 1 = q + 2
        BY <1>1
      <4> QED
        BY <1>2, <1>4, <1>7, <1>8, <2>2, <4>1
    <3>2. CASE m.type = KEEP_ALIVE
      BY <1>3, <3>1, <3>2
    <3>3. CASE m.type # KEEP_ALIVE
      BY <1>3, <3>1, <3>3
    <3> QED
      BY <3>2, <3>3
  <2>3. i \in 1..q \/ i = q + 1
    <3>1. q \in Nat
      BY <1>1
    <3> QED
      BY <3>1
  <2> QED
    BY <2>1, <2>2, <2>3
<1>11. Waiting(after)'
  <2>1. Len(queue') + 1 = q + 2 /\ Len(queue') = q + 1
    BY <1>1, <1>2
  <2> QED
    BY <1>8, <1>9, <1>10, <2>1 DEF Waiting, b
<1> QED
  BY <1>5, <1>6, <1>8, <1>11

LEMMA QueueShrinks ==
    ASSUME SendTypes, NEW before, Waiting(before),
           queue # <<>>, queue' = Tail(queue), accepted' = accepted
    PROVE  \E after : Waiting(after)' /\ after[1] = before[2]
<1> DEFINE q == Len(queue)
           a == Len(accepted)
<1>1. /\ q \in Nat \ {0} /\ a \in Nat /\ queue \in Seq(Messages)
  BY EmptySeq, LenProperties DEF SendTypes
<1>2. /\ Len(queue') = q - 1
      /\ \A i \in 1..q - 1 : queue'[i] = queue[i + 1]
  BY <1>1, HeadTailProperties
<1>3. /\ before \in [1..q + 1 -> 0..a] /\ before[q + 1] = a
      /\ \A i \in 1..q :
             IF queue[i].type = KEEP_ALIVE
             THEN queue[i].data = keep_alive /\ before[i + 1] = before[i]
             ELSE before[i + 1] = before[i] + 1 /\ queue[i] = accepted[before[i + 1]]
  BY DEF Waiting
<1> HIDE DEF q, a
<1> PICK after : after = [i \in 1..q |-> before[i + 1]]
  OBVIOUS
<1>4. after \in [1..q -> 0..a] /\ \A i \in 1..q : after[i] = before[i + 1]
  BY <1>1, <1>3
<1>5. after[q] = a /\ after[1] = before[2]
  BY <1>1, <1>3, <1>4
<1>6. ASSUME NEW i \in 1..q - 1
      PROVE  IF queue'[i].type = KEEP_ALIVE
             THEN queue'[i].data = keep_alive /\ after[i + 1] = after[i]
             ELSE after[i + 1] = after[i] + 1 /\ queue'[i] = accepted'[after[i + 1]]
  <2> DEFINE j == i + 1
  <2>1. j \in 1..q /\ i \in 1..q
    BY <1>1
  <2>2. queue'[i] = queue[j] /\ after[i] = before[j] /\ after[i + 1] = before[j + 1]
    BY <1>2, <1>4, <2>1
  <2> HIDE DEF j
  <2> QED
    BY <1>3, <2>1, <2>2
<1>7. Waiting(after)'
  <2>1. Len(queue') + 1 = q /\ Len(queue') = q - 1 /\ Len(accepted') = a
    BY <1>1, <1>2 DEF a
  <2> QED
    BY <1>4, <1>5, <1>6, <2>1 DEF Waiting
<1> QED
  BY <1>5, <1>7

(* The messages put stay those of the controller, and a stream that is       *)
(* intact has been so.                                                       *)
LEMMA NextAccepts ==
    ASSUME Types, AcceptedWere, [Next]_vars
    PROVE  /\ AcceptedWere'
           /\ OutIntact' => OutIntact
<1>1. accepted \in Seq(Messages)
  BY DEF Types, SendTypes
<1>2. /\ \/ accepted' = accepted
         \/ \E m \in Passed : accepted' = Append(accepted, m)
      /\ ~cut' => ~cut
  <2>1. CASE \/ UNCHANGED vars \/ CheckEnd \/ CheckGoesOn \/ SendKeepAlive
             \/ ConnectionLost \/ PopMessage \/ EndWorkFlag
             \/ \E m \in InMessages : ServerPost(m)
    BY <2>1 DEF vars, CheckEnd, CheckGoesOn, SendKeepAlive, ConnectionLost, PopMessage,
                EndWorkFlag, ServerPost, history
  <2>3. CASE ReceivePart
    BY <2>3 DEF ReceivePart, Receive, history
  <2>4. CASE SendPart
    <3>1. PICK n \in Writable : Send(n)
      BY <2>4 DEF SendPart
    <3>2. accepted' = accepted
      BY <3>1 DEF Send
    <3>3. ASSUME cut PROVE cut'
      BY <3>1, <3>3 DEF Send
    <3> QED
      BY <3>2, <3>3
  <2>2. ASSUME EndWorkMessage \/ \E m \in OutMessages : PassMessage(m)
        PROVE  (\E m \in Passed : accepted' = Append(accepted, m)) /\ cut' = cut
    BY <2>2 DEF EndWorkMessage, PassMessage, Passed
  <2> QED
    BY <2>1, <2>2, <2>3, <2>4 DEF Next, Loop, Controller
<1>3. ASSUME NEW m \in Passed, accepted' = Append(accepted, m)
      PROVE  AcceptedWere' /\ (OutIntact' => OutIntact)
  <2> DEFINE acc == Append(accepted, m)
  <2>1. /\ acc \in Seq(Messages) /\ Len(acc) = Len(accepted) + 1 /\ Len(accepted) \in Nat
        /\ \A i \in 1..Len(accepted) : acc[i] = accepted[i]
    BY <1>1, PassedAreSendable, AppendProperties, LenProperties
  <2>2. DOMAIN acc = 1..Len(acc) /\ DOMAIN accepted = 1..Len(accepted)
    BY <1>1, <2>1, LenProperties
  <2>3. acc \in Seq(Passed)
    BY AppendProperties DEF AcceptedWere
  <2>4. accepted' = acc
    BY <1>3
  <2> HIDE DEF acc
  <2>5. AcceptedWere'
    BY <2>3, <2>4 DEF AcceptedWere
  <2>6. ASSUME OutIntact' PROVE OutIntact
    <3>1. \A i \in DOMAIN acc : ~IsWide(acc[i])
      BY <2>4, <2>6 DEF OutIntact
    <3>2. \A i \in 1..Len(accepted) : i \in DOMAIN acc /\ acc[i] = accepted[i]
      BY <2>1, <2>2
    <3>3. \A i \in DOMAIN accepted : ~IsWide(accepted[i])
      BY <2>2, <3>1, <3>2
    <3> QED
      BY <1>2, <2>6, <3>3 DEF OutIntact
  <2> QED
    BY <2>5, <2>6
<1>4. CASE accepted' = accepted
  BY <1>2, <1>4 DEF AcceptedWere, OutIntact
<1> QED
  BY <1>2, <1>3, <1>4

LEMMA BytesOfFront ==
    ASSUME NEW ms \in Seq(Messages), NEW k \in 1..Len(ms)
    PROVE  BytesOf(SubSeq(ms, 1, k)) = Append(BytesOf(SubSeq(ms, 1, k - 1)), AsBytes(ms[k]))
<1> DEFINE front == SubSeq(ms, 1, k - 1)
           m == ms[k]
<1>1. k - 1 \in 0..Len(ms) /\ 1 \in 1..Len(ms)
  BY LenProperties
<1>2. front \in Seq(Messages) /\ m \in Messages
  BY <1>1, CutInTwo, ElementOfSeq
<1>3. SubSeq(ms, 1, k) = front \o <<m>>
  BY <1>1, SubSeqRecursiveSecond
<1> HIDE DEF front, m
<1>4. front \o <<m>> = Append(front, m)
  BY <1>2, AppendIsConcat
<1> QED
  BY <1>2, <1>3, <1>4, BytesOfMore DEF front, m

(* The message that the server has read is the next of those put.            *)
LEMMA NextDelivered ==
    ASSUME NEW ms \in Seq(Messages), NEW k \in 0..Len(ms) - 1
    PROVE  LET delivered == BytesOf(SubSeq(ms, 1, k)) IN
           /\ Len(delivered) < Len(BytesOf(ms))
           /\ BytesOf(SubSeq(ms, 1, k + 1))
                  = Append(delivered, BytesOf(ms)[Len(delivered) + 1])
<1> DEFINE delivered == BytesOf(SubSeq(ms, 1, k))
<1>1. k \in 0..Len(ms) /\ k + 1 \in 1..Len(ms) /\ k + 1 - 1 = k /\ k < Len(ms)
  BY LenProperties
<1>2. SubSeq(ms, 1, k) \in Seq(Messages) /\ Len(SubSeq(ms, 1, k)) = k
  BY <1>1, CutInTwo
<1>3. Len(delivered) = k
  BY <1>2, BytesOfIs
<1>4. Len(BytesOf(ms)) = Len(ms) /\ BytesOf(ms)[k + 1] = AsBytes(ms[k + 1])
  BY <1>1, BytesOfIs
<1>5. BytesOf(SubSeq(ms, 1, k + 1)) = Append(BytesOf(SubSeq(ms, 1, k + 1 - 1)), AsBytes(ms[k + 1]))
  BY <1>1, BytesOfFront
<1>6. BytesOf(SubSeq(ms, 1, k + 1)) = Append(delivered, AsBytes(ms[k + 1]))
  BY <1>1, <1>5
<1> HIDE DEF delivered
<1> QED
  BY <1>1, <1>3, <1>4, <1>6 DEF delivered

(* What has been sent of no text is nothing.                                 *)
LEMMA NothingOf ==
    \A found, text : PartRead(found, text, 0) = [found |-> found, part |-> <<>>, reads |-> TRUE]
<1> TAKE found, text
<1>1. SubSeq(text, 1, 0) = <<>>
  BY SubSeqEmpty
<1>2. Narrow(<<>>) = <<>>
  BY DEF Narrow
<1> QED
  BY <1>1, <1>2 DEF PartRead

(* A message is put.                                                         *)
LEMMA PutSends ==
    ASSUME Types, AcceptedWere, OutIntact, UnderWay, OutIntact',
           NEW before, Waiting(before), ServerHas(before),
           NEW m \in Messages, queue' = Append(queue, m),
           UNCHANGED <<completed_sending, current_message, total_sent, bytes_to_send, outgoing>>,
           \/ m.type = KEEP_ALIVE /\ m.data = keep_alive /\ accepted' = accepted
           \/ m.type # KEEP_ALIVE /\ accepted' = Append(accepted, m)
    PROVE  UnderWay' /\ \E after : Waiting(after)' /\ ServerHas(after)'
<1>1. SendTypes
  BY DEF Types
<1>2. PICK after : Waiting(after)' /\ after[1] = before[1]
  BY <1>1, QueueGrows
<1>3. /\ queue # <<>> => Head(queue') = Head(queue)
      /\ SubSeq(accepted', 1, before[1]) = SubSeq(accepted, 1, before[1])
  BY <1>1, QueueGrows
<1>4. UnderWay'
  <2>1. ~completed_sending => Head(queue') = Head(queue)
    BY <1>1, <1>3 DEF SendTypes
  <2> QED
    BY <2>1 DEF UnderWay
<1>5. ServerHas(after)'
  <2>1. SubSeq(accepted', 1, after[1]) = SubSeq(accepted, 1, before[1])
    BY <1>2, <1>3
  <2> QED
    BY <2>1 DEF ServerHas
<1> QED
  BY <1>2, <1>4, <1>5

(* A send: it goes on with a text, or ends it.                               *)
LEMMA SendSends ==
    ASSUME Types, AcceptedWere, OutIntact, UnderWay, OutIntact',
           NEW before, Waiting(before), ServerHas(before),
           NEW n \in Writable, Send(n)
    PROVE  /\ UnderWay' /\ \E after : Waiting(after)' /\ ServerHas(after)'
           /\ Frames(outgoing') = Frames(outgoing)
              \/ /\ before[1] \in 0..Len(accepted) - 1
                 /\ Frames(outgoing') = BytesOf(SubSeq(accepted, 1, before[1] + 1))
<1> DEFINE h == Head(queue)
           text == Text(h)
           found == BytesOf(SubSeq(accepted, 1, before[1]))
           total == total_sent + n
           alive == completed_sending /\ h.type = KEEP_ALIVE
<1>1. /\ SendTypes /\ queue # <<>> /\ Tail(queue) \in Seq(Messages) /\ h \in Messages
      /\ Len(accepted) \in Nat
  BY WhatIsSent, LenProperties DEF Types, SendTypes
<1>2. /\ text \in Seq(Character) /\ Len(text) \in Nat
      /\ total_sent \in 0..Len(text) - 1 /\ n \in 1..Len(text) - total_sent
      /\ current_message' = text /\ bytes_to_send' = Len(text)
  BY SendPiece, LenProperties
<1>3. /\ before[1] \in 0..Len(accepted)
      /\ h.type = KEEP_ALIVE => h.data = keep_alive /\ before[2] = before[1]
      /\ h.type # KEEP_ALIVE => before[2] = before[1] + 1 /\ before[1] + 1 \in 1..Len(accepted)
  BY <1>1, FirstWaiting
<1>4. Reader(outgoing') = IF total < Len(text) THEN PartRead(found, text, total)
                          ELSE [found |-> BytesOf(SubSeq(accepted, 1, before[2])),
                                part |-> <<>>, reads |-> TRUE]
  BY ServerReads
<1>5. Frames(outgoing) = found
  BY DEF Frames, ServerHas, PartRead
<1>6. /\ total_sent' = (IF total = Len(text) THEN 0 ELSE total)
      /\ completed_sending' = (total = Len(text) \/ alive)
      /\ queue' = (IF total = Len(text) THEN Tail(queue) ELSE queue)
      /\ cut' = (cut \/ (alive /\ n < HEADER_LENGTH))
      /\ accepted' = accepted
  BY <1>2 DEF Send
<1> HIDE DEF h, text, found
<1>7. ASSUME alive PROVE total = Len(text)
  <2>1. ~cut'
    BY DEF OutIntact
  <2>2. n >= HEADER_LENGTH
    <3>1. ~(n < HEADER_LENGTH)
      BY <1>6, <1>7, <2>1
    <3> QED
      BY <1>2, <3>1 DEF HEADER_LENGTH
  <2>3. total_sent = 0
    BY <1>7 DEF UnderWay
  <2>4. Len(text) = HEADER_LENGTH
    <3>1. text = keep_alive
      BY <1>7 DEF Text, text, h
    <3> QED
      BY <3>1, MadeMessages
  <2> QED
    BY <1>2, <2>2, <2>3, <2>4 DEF HEADER_LENGTH
<1>8. CASE total = Len(text)
  <2>1. total_sent' = 0 /\ completed_sending' = TRUE /\ queue' = Tail(queue)
    BY <1>6, <1>8
  <2>2. ~(total < Len(text))
    BY <1>2, <1>8
  <2>3. UnderWay'
    BY <2>1 DEF UnderWay
  <2>4. PICK after : Waiting(after)' /\ after[1] = before[2]
    BY <1>1, <1>6, <2>1, QueueShrinks
  <2>5. Reader(outgoing') = [found |-> BytesOf(SubSeq(accepted, 1, before[2])),
                             part |-> <<>>, reads |-> TRUE]
    BY <1>4, <2>2
  <2>6. ServerHas(after)'
    BY <1>6, <2>1, <2>4, <2>5, NothingOf DEF ServerHas
  <2>7. Frames(outgoing') = BytesOf(SubSeq(accepted, 1, before[2]))
    BY <2>5 DEF Frames
  <2>8. CASE h.type = KEEP_ALIVE
    BY <1>3, <1>5, <2>3, <2>4, <2>6, <2>7, <2>8 DEF found
  <2>9. CASE h.type # KEEP_ALIVE
    <3>1. before[1] \in 0..Len(accepted) - 1
      BY <1>1, <1>3, <2>9
    <3>2. Frames(outgoing') = BytesOf(SubSeq(accepted, 1, before[1] + 1))
      BY <1>3, <2>7, <2>9
    <3> QED
      BY <2>3, <2>4, <2>6, <3>1, <3>2
  <2> QED
    BY <2>8, <2>9
<1>9. CASE total # Len(text)
  <2>1. total < Len(text)
    BY <1>2, <1>9
  <2>2. ~alive
    BY <1>7, <1>9
  <2>3. total_sent' = total /\ completed_sending' = FALSE /\ queue' = queue
    BY <1>6, <1>9, <2>2
  <2>4. h.type # KEEP_ALIVE
    BY <2>2 DEF UnderWay, h
  <2>5. UnderWay'
    <3>1. h = Head(queue) /\ text = Text(Head(queue))
      BY DEF h, text
    <3> QED
      BY <1>2, <2>1, <2>3, <2>4, <3>1 DEF UnderWay
  <2>6. Waiting(before)'
    BY <1>6, <2>3 DEF Waiting
  <2>7. Reader(outgoing') = PartRead(found, text, total)
    BY <1>4, <2>1
  <2>8. ServerHas(before)'
    BY <1>2, <1>6, <2>3, <2>7 DEF ServerHas, found
  <2>9. Frames(outgoing') = found
    BY <2>7 DEF Frames, PartRead
  <2> QED
    BY <1>5, <2>5, <2>6, <2>8, <2>9
<1> QED
  BY <1>8, <1>9

(* The end is checked with something left to send.                           *)
LEMMA CheckSends ==
    ASSUME Types, AcceptedWere, OutIntact, UnderWay,
           NEW before, Waiting(before), ServerHas(before), CheckGoesOn
    PROVE  UnderWay' /\ Waiting(before)' /\ ServerHas(before)'
<1> DEFINE h == Head(queue)
<1>1. /\ completed_sending /\ total_sent = 0 /\ queue # <<>>
      /\ current_message' = Text(h) /\ bytes_to_send' = Len(current_message')
      /\ completed_sending' = (h.type = KEEP_ALIVE)
      /\ UNCHANGED <<queue, total_sent, outgoing, accepted>>
  BY DEF CheckGoesOn, BeginSending, UnderWay, history
<1>2. SendTypes
  BY DEF Types
<1>3. Len(Text(h)) \in Nat \ {0}
  BY <1>1, <1>2, FirstWaiting, TextOf
<1>4. UnderWay'
  <2> HIDE DEF h
  <2>1. h = Head(queue') /\ total_sent' = 0 /\ 0 < Len(Text(h))
    BY <1>1, <1>3 DEF h
  <2> QED
    BY <1>1, <2>1 DEF UnderWay
<1>5. Waiting(before)'
  BY <1>1 DEF Waiting
<1>6. ServerHas(before)'
  <2>1. \A found : PartRead(found, current_message', 0) = PartRead(found, current_message, 0)
    BY NothingOf
  <2> QED
    BY <1>1, <2>1 DEF ServerHas
<1> QED
  BY <1>4, <1>5, <1>6

LEMMA StreamIsSentAtFirst ==
    ASSUME Init
    PROVE  StreamIsSent /\ AcceptedWere
<1>1. /\ queue = <<>> /\ accepted = <<>> /\ outgoing = <<>> /\ completed_sending = TRUE
      /\ total_sent = 0
  BY DEF Init
<1>2. Len(<<>>) = 0 /\ <<>> \in Seq(Byte) /\ <<>> \in Seq(Messages) /\ <<>> \in Seq(Passed)
  OBVIOUS
<1>3. PICK before : before = [i \in 1..1 |-> 0]
  OBVIOUS
<1>4. Waiting(before)
  BY <1>1, <1>2, <1>3 DEF Waiting
<1>5. Reader(<<>>) = NothingRead
  <2>1. PICK after \in [0..Len(<<>>) -> ReaderState] :
            Reader(<<>>) = after[Len(<<>>)] /\ after[0] = NothingRead
    BY <1>2, ReaderRuns
  <2> QED
    BY <1>2, <2>1
<1>6. BytesOf(SubSeq(accepted, 1, before[1])) = <<>>
  <2>1. SubSeq(accepted, 1, before[1]) = <<>>
    BY <1>3, SubSeqEmpty
  <2>2. BytesOf(<<>>) = <<>>
    BY DEF BytesOf
  <2> QED
    BY <2>1, <2>2
<1>7. ServerHas(before)
  <2>1. PartRead(<<>>, current_message, 0) = NothingRead
    BY NothingOf DEF NothingRead
  <2> QED
    BY <1>1, <1>5, <1>6, <2>1 DEF ServerHas
<1>8. UnderWay
  BY <1>1 DEF UnderWay
<1> QED
  BY <1>1, <1>2, <1>4, <1>7, <1>8 DEF StreamIsSent, AcceptedWere

LEMMA NextSends ==
    ASSUME Types, AcceptedWere, StreamIsSent, [Next]_vars
    PROVE  StreamIsSent' /\ [ToServer!Next]_(ToServer!vars)
<1>1. CASE ~OutIntact'
  <2>1. ToServer!Break
    BY <1>1 DEF ToServer!Break
  <2> QED
    BY <1>1, <2>1 DEF StreamIsSent, ToServer!Next
<1>2. CASE OutIntact'
  <2>1. OutIntact /\ UnderWay /\ OutIntact = TRUE /\ OutIntact' = TRUE
    BY <1>2, NextAccepts DEF StreamIsSent, OutIntact
  <2>2. PICK before : Waiting(before) /\ ServerHas(before)
    BY <2>1 DEF StreamIsSent
  <2>3. accepted \in Seq(Messages)
    BY DEF Types, SendTypes
  <2>4. ASSUME NEW n \in Writable, Send(n)
        PROVE  StreamIsSent' /\ [ToServer!Next]_(ToServer!vars)
    <3>1. /\ UnderWay' /\ \E after : Waiting(after)' /\ ServerHas(after)'
          /\ Frames(outgoing') = Frames(outgoing)
             \/ /\ before[1] \in 0..Len(accepted) - 1
                /\ Frames(outgoing') = BytesOf(SubSeq(accepted, 1, before[1] + 1))
      BY <1>2, <2>1, <2>2, <2>4, SendSends
    <3>2. StreamIsSent'
      BY <3>1 DEF StreamIsSent
    <3>3. accepted' = accepted
      BY <2>4 DEF Send
    <3>4. BytesOf(accepted)' = BytesOf(accepted)
      BY <3>3
    <3>5. CASE Frames(outgoing') = Frames(outgoing)
      BY <2>1, <3>2, <3>4, <3>5 DEF ToServer!vars
    <3>6. CASE /\ before[1] \in 0..Len(accepted) - 1
               /\ Frames(outgoing') = BytesOf(SubSeq(accepted, 1, before[1] + 1))
      <4>1. Frames(outgoing) = BytesOf(SubSeq(accepted, 1, before[1]))
        BY <2>2 DEF ServerHas, PartRead, Frames
      <4>2. /\ Len(Frames(outgoing)) < Len(BytesOf(accepted))
            /\ Frames(outgoing') = Append(Frames(outgoing),
                                          BytesOf(accepted)[Len(Frames(outgoing)) + 1])
        BY <2>3, <3>6, <4>1, NextDelivered
      <4>3. ToServer!Deliver
        BY <2>1, <3>4, <4>2 DEF ToServer!Deliver
      <4> QED
        BY <3>2, <4>3 DEF ToServer!Next
    <3> QED
      BY <3>1, <3>5, <3>6
  <2>5. ASSUME NEW m \in Passed, PassMessage(m) \/ (EndWorkMessage /\ m = END_OF_WORK)
        PROVE  StreamIsSent' /\ [ToServer!Next]_(ToServer!vars)
    <3>1. /\ queue' = Append(queue, m) /\ accepted' = Append(accepted, m)
          /\ UNCHANGED <<completed_sending, current_message, total_sent, bytes_to_send, outgoing>>
      BY <2>5 DEF PassMessage, EndWorkMessage
    <3>2. m \in Messages /\ m.type # KEEP_ALIVE
      BY PassedAreSendable
    <3>3. UnderWay' /\ \E after : Waiting(after)' /\ ServerHas(after)'
      BY <1>2, <2>1, <2>2, <3>1, <3>2, PutSends
    <3>4. StreamIsSent'
      BY <3>3 DEF StreamIsSent
    <3>5. BytesOf(accepted)' = Append(BytesOf(accepted), AsBytes(m))
      BY <2>3, <3>1, <3>2, BytesOfMore
    <3>6. ToServer!Put(AsBytes(m))
      BY <2>1, <3>1, <3>5 DEF ToServer!Put
    <3>7. AsBytes(m) \in {AsBytes(x) : x \in OutMessages \cup {END_OF_WORK}}
      BY DEF Passed
    <3> QED
      BY <3>4, <3>6, <3>7 DEF ToServer!Next
  <2>6. CASE SendKeepAlive
    <3> DEFINE m == [type |-> KEEP_ALIVE, data |-> keep_alive]
    <3>1. /\ queue' = Append(queue, m) /\ accepted' = accepted
          /\ UNCHANGED <<completed_sending, current_message, total_sent, bytes_to_send, outgoing>>
      BY <2>6 DEF SendKeepAlive
    <3>2. m \in Messages /\ m.type = KEEP_ALIVE /\ m.data = keep_alive
      BY MadeMessages
    <3> HIDE DEF m
    <3>3. UnderWay' /\ \E after : Waiting(after)' /\ ServerHas(after)'
      BY <1>2, <2>1, <2>2, <3>1, <3>2, PutSends
    <3>4. StreamIsSent'
      BY <3>3 DEF StreamIsSent
    <3> QED
      BY <2>1, <3>1, <3>4 DEF ToServer!vars
  <2>7. CASE CheckGoesOn
    <3>1. UnderWay' /\ Waiting(before)' /\ ServerHas(before)'
      BY <2>1, <2>2, <2>7, CheckSends
    <3>2. StreamIsSent'
      BY <3>1 DEF StreamIsSent
    <3>3. UNCHANGED <<accepted, outgoing>>
      BY <2>7 DEF CheckGoesOn, history
    <3> QED
      BY <2>1, <3>2, <3>3 DEF ToServer!vars
  <2>8. CASE \/ UNCHANGED vars \/ CheckEnd \/ ConnectionLost \/ PopMessage \/ EndWorkFlag
             \/ ReceivePart \/ \E m \in InMessages : ServerPost(m)
    <3>1. UNCHANGED <<sendBuffer, accepted, outgoing>>
      <4>1. CASE \/ UNCHANGED vars \/ CheckEnd \/ ConnectionLost \/ PopMessage \/ EndWorkFlag
                 \/ \E m \in InMessages : ServerPost(m)
        BY <4>1 DEF vars, CheckEnd, ConnectionLost, PopMessage, EndWorkFlag, ServerPost, history
      <4>2. CASE ReceivePart
        BY <4>2 DEF ReceivePart, Receive, history
      <4> QED
        BY <2>8, <4>1, <4>2
    <3>2. UNCHANGED <<queue, completed_sending, current_message, total_sent, bytes_to_send,
                      accepted, outgoing>>
      BY <3>1 DEF sendBuffer
    <3>3. UnderWay' /\ Waiting(before)' /\ ServerHas(before)'
      BY <2>1, <2>2, <3>2 DEF UnderWay, Waiting, ServerHas
    <3>4. StreamIsSent'
      BY <3>3 DEF StreamIsSent
    <3> QED
      BY <2>1, <3>2, <3>4 DEF ToServer!vars
  <2> QED
    BY <2>4, <2>5, <2>6, <2>7, <2>8 DEF Next, Loop, Controller, SendPart, Passed
<1> QED
  BY <1>1, <1>2

(* However send() cuts the bytes, and whenever the controller adds to the    *)
(* queue that is being sent from, the server reads the messages put into the *)
(* send buffer, whole, in order and once each, keep-alives between them, as  *)
(* long as no keep-alive is cut and their characters take one byte.          *)
THEOREM Sends == Spec => SendsWhatWasPut
<1>1. Init => StreamIsSent /\ AcceptedWere
  BY StreamIsSentAtFirst
<1>2. Init => ToServer!Init
  <2> SUFFICES ASSUME Init PROVE ToServer!Init
    OBVIOUS
  <2>1. accepted = <<>> /\ outgoing = <<>> /\ cut = FALSE
    BY DEF Init
  <2>2. OutIntact = TRUE
    BY <2>1 DEF OutIntact
  <2>3. BytesOf(accepted) = <<>>
    BY <2>1 DEF BytesOf
  <2>4. Frames(outgoing) = <<>>
    <3>1. StreamIsSent /\ OutIntact
      BY <1>1, <2>2
    <3>2. PICK before : Waiting(before) /\ ServerHas(before)
      BY <3>1 DEF StreamIsSent
    <3>3. Frames(outgoing) = BytesOf(SubSeq(accepted, 1, before[1]))
      BY <3>2 DEF ServerHas, PartRead, Frames
    <3>4. before[1] = 0
      <4>1. Len(accepted) = 0 /\ queue = <<>> /\ Len(<<>>) = 0
        BY <2>1 DEF Init
      <4> QED
        BY <3>2, <4>1 DEF Waiting
    <3>5. SubSeq(accepted, 1, before[1]) = accepted
      BY <2>1, <3>4, SubSeqEmpty
    <3> QED
      BY <2>3, <3>3, <3>5
  <2> QED
    BY <2>2, <2>3, <2>4 DEF ToServer!Init
<1>3. Types /\ AcceptedWere /\ StreamIsSent /\ [Next]_vars
          => AcceptedWere' /\ StreamIsSent' /\ [ToServer!Next]_(ToServer!vars)
  BY NextAccepts, NextSends
<1> QED
  BY <1>1, <1>2, <1>3, TypesHold, PTL DEF Spec, SendsWhatWasPut, ToServer!Spec

-----------------------------------------------------------------------------
(* The end of the thread.                                                    *)

Told ==
    /\ before_end \in Nat /\ before_end <= Len(accepted)
    /\ thread = "ended" => work_end_flag

LEMMA NextTells ==
    ASSUME Types, Told, [Next]_vars
    PROVE  Told'
<1>1. accepted \in Seq(Messages) /\ Len(accepted) \in Nat
  BY LenProperties DEF Types, SendTypes
<1>2. CASE \/ UNCHANGED vars \/ CheckEnd \/ CheckGoesOn \/ SendKeepAlive \/ ConnectionLost
           \/ PopMessage \/ \E m \in InMessages : ServerPost(m)
  BY <1>2 DEF Told, vars, CheckEnd, CheckGoesOn, SendKeepAlive, ConnectionLost, PopMessage,
              ServerPost, control, history
<1>3. CASE ReceivePart
  <2>1. /\ UNCHANGED <<accepted, before_end, work_end_flag>>
        /\ thread' = "ended" => thread = "ended"
    BY <1>3 DEF ReceivePart, Receive, history
  <2> QED
    BY <2>1 DEF Told
<1>4. CASE SendPart
  BY <1>4 DEF SendPart, Send, control, Told
<1>5. CASE EndWorkFlag
  BY <1>1, <1>5 DEF EndWorkFlag, Told
<1>6. ASSUME NEW m \in Passed, PassMessage(m) \/ (EndWorkMessage /\ m = END_OF_WORK)
      PROVE  Told'
  <2>1. accepted' = Append(accepted, m) /\ UNCHANGED <<before_end, thread, work_end_flag>>
    BY <1>6 DEF PassMessage, EndWorkMessage, control
  <2>2. Len(Append(accepted, m)) = Len(accepted) + 1
    BY <1>1, PassedAreSendable, AppendProperties
  <2> QED
    BY <1>1, <2>1, <2>2 DEF Told
<1> QED
  BY <1>2, <1>3, <1>4, <1>5, <1>6 DEF Next, Loop, Controller, Passed

LEMMA NextEnds ==
    ASSUME Types, AcceptedWere, StreamIsSent, Told, EndsWithEverythingSent, [Next]_vars
    PROVE  EndsWithEverythingSent'
<1> SUFFICES ASSUME thread' = "ended", OutIntact'
             PROVE  Len(Frames(outgoing')) >= before_end'
  BY DEF EndsWithEverythingSent
<1>1. OutIntact /\ accepted \in Seq(Messages) /\ Len(accepted) \in Nat
  BY NextAccepts, LenProperties DEF Types, SendTypes
<1>2. CASE thread = "ended"
  <2>1. Len(Frames(outgoing)) >= before_end /\ work_end_flag
    BY <1>1, <1>2 DEF EndsWithEverythingSent, Told
  <2>2. CASE \/ UNCHANGED vars \/ SendKeepAlive \/ PopMessage \/ EndWorkMessage
             \/ (\E m \in InMessages : ServerPost(m)) \/ \E m \in OutMessages : PassMessage(m)
    BY <2>1, <2>2 DEF vars, SendKeepAlive, PopMessage, EndWorkMessage, ServerPost, PassMessage, history
  <2>3. ~(CheckEnd \/ CheckGoesOn \/ ConnectionLost \/ ReceivePart \/ SendPart \/ EndWorkFlag)
    BY <1>2, <2>1 DEF CheckEnd, CheckGoesOn, ConnectionLost, ReceivePart, Receive, SendPart, Send,
                      EndWorkFlag
  <2> QED
    BY <2>2, <2>3 DEF Next, Loop, Controller
<1>3. CASE thread # "ended"
  <2>1. CheckEnd
    <3>1. CASE \/ UNCHANGED vars \/ SendKeepAlive \/ PopMessage \/ EndWorkMessage \/ CheckGoesOn
               \/ EndWorkFlag \/ ConnectionLost
               \/ (\E m \in InMessages : ServerPost(m)) \/ \E m \in OutMessages : PassMessage(m)
      BY <1>3, <3>1 DEF vars, SendKeepAlive, PopMessage, EndWorkMessage, CheckGoesOn, EndWorkFlag,
                        ConnectionLost, ServerPost, PassMessage, control
    <3>2. ~(ReceivePart \/ SendPart)
      BY <1>3 DEF ReceivePart, Receive, SendPart, Send, control
    <3> QED
      BY <3>1, <3>2 DEF Next, Loop, Controller
  <2>2. /\ completed_sending /\ queue = <<>>
        /\ UNCHANGED <<outgoing, before_end, accepted>>
    BY <2>1 DEF CheckEnd, NothingToSend, history
  <2>3. PICK before : Waiting(before) /\ ServerHas(before)
    BY <1>1 DEF StreamIsSent
  <2>4. before[1] = Len(accepted)
    <3>1. Len(queue) + 1 = 1
      BY <2>2
    <3> QED
      BY <2>3, <3>1 DEF Waiting
  <2>5. Frames(outgoing) = BytesOf(SubSeq(accepted, 1, before[1]))
    BY <2>3 DEF ServerHas, PartRead, Frames
  <2>6. Frames(outgoing) = BytesOf(accepted)
    BY <1>1, <2>4, <2>5, SubSeqFull
  <2>7. Len(Frames(outgoing)) = Len(accepted)
    BY <1>1, <2>6, BytesOfIs
  <2> QED
    BY <1>1, <2>2, <2>7 DEF Told
<1> QED
  BY <1>2, <1>3

(* A thread that ends because it was told to has sent all that was put into  *)
(* its buffer before it was told: the queue it finds empty, with no text     *)
(* under way, has been read by the server to the last message.               *)
THEOREM EndsSent == Spec => []EndsWithEverythingSent
<1> DEFINE Inv == AcceptedWere /\ StreamIsSent /\ Told /\ EndsWithEverythingSent
<1>1. Init => Inv
  <2> SUFFICES ASSUME Init PROVE Inv
    OBVIOUS
  <2>1. Told /\ EndsWithEverythingSent
    <3>1. /\ accepted = <<>> /\ Len(<<>>) = 0 /\ before_end = 0 /\ thread = "running"
      BY DEF Init
    <3> QED
      BY <3>1 DEF Told, EndsWithEverythingSent
  <2> QED
    BY <2>1, StreamIsSentAtFirst
<1>2. Types /\ Inv /\ [Next]_vars => Inv'
  BY NextAccepts, NextSends, NextTells, NextEnds
<1> QED
  BY <1>1, <1>2, TypesHold, PTL DEF Spec
=============================================================================
