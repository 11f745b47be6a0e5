-------------------------- MODULE CharactersProofs --------------------------
(***************************************************************************)
(* What the operators of Notepad.java do to positions and texts, for any   *)
(* positions and texts: comparing is a total order, a position that getChar *)
(* makes lies between its neighbours unless it took equal numbers for      *)
(* different ones, and adding and removing keep a text sorted.             *)
(***************************************************************************)
EXTENDS Characters, SequenceTheorems, FiniteSetTheorems, FunctionTheorems, WellFoundedInduction, TLAPS

-----------------------------------------------------------------------------
(* Induction on what a loop has done, from the least place where it is wrong. *)

(* A set of naturals that is not empty has a least element.                  *)
LEMMA LeastNumber ==
    ASSUME NEW S \in SUBSET Nat, S # {}
    PROVE  \E m \in S : \A n \in S : m <= n
<1> DEFINE R == OpToRel(<, Nat)
<1>1. IsWellFoundedOn(R, Nat)
  BY NatLessThanWellFounded
<1>2. PICK m \in S : \A n \in S : <<n, m>> \notin R
  <2> HIDE DEF R
  <2> QED
    BY <1>1, WFMin
<1>3. \A n \in S : ~(n < m)
  BY <1>2 DEF OpToRel
<1> QED
  BY <1>3

(* What holds before a loop and is kept by each pass holds after it.  Good   *)
(* has the numbers of passes after which it holds.                           *)
LEMMA LoopKeeps ==
    ASSUME NEW n \in Nat, NEW Good, 0 \in Good,
           \A i \in 1..n : i - 1 \in Good => i \in Good
    PROVE  n \in Good
<1> DEFINE Wrong == {i \in 0..n : i \notin Good}
<1> SUFFICES ASSUME n \notin Good PROVE FALSE
  OBVIOUS
<1>1. Wrong \in SUBSET Nat /\ Wrong # {}
  OBVIOUS
<1>2. PICK m \in Wrong : \A i \in Wrong : m <= i
  BY <1>1, LeastNumber
<1>3. m \in 1..n
  OBVIOUS
<1>4. m - 1 \in 0..n /\ m - 1 \notin Wrong
  BY <1>2, <1>3
<1> QED
  BY <1>3, <1>4

(* A loop whose passes stay in a set of values has values after each pass.   *)
Runs(T, n, b, F) ==
    \E g \in [0..n -> T] : g[0] = b /\ \A i \in 1..n : g[i] = F[i][g[i - 1]]

LEMMA LoopRuns ==
    ASSUME NEW T, NEW n \in Nat, NEW b \in T, NEW F \in [1..n -> [T -> T]]
    PROVE  Runs(T, n, b, F)
<1> DEFINE Run(m) == Runs(T, m, b, F)
           Stuck == {m \in 0..n : ~Run(m)}
<1> SUFFICES ASSUME ~Run(n) PROVE FALSE
  OBVIOUS
<1>1. Stuck \in SUBSET Nat /\ Stuck # {}
  <2>1. n \in 0..n
    OBVIOUS
  <2> QED
    BY <2>1
<1>2. PICK m \in Stuck : \A i \in Stuck : m <= i
  <2> HIDE DEF Stuck
  <2> QED
    BY <1>1, LeastNumber
<1>3. Run(0)
  <2> DEFINE g == [i \in 0..0 |-> b]
  <2>1. g \in [0..0 -> T] /\ g[0] = b /\ 1..0 = {}
    OBVIOUS
  <2> QED
    BY <2>1 DEF Runs
<1>4. m \in 0..n /\ ~Run(m)
  OBVIOUS
<1>5. m # 0
  BY <1>3, <1>4
<1>6. m - 1 \in 0..n /\ m \in 1..n /\ m - 1 \notin Stuck
  BY <1>2, <1>4, <1>5
<1>7. Run(m - 1)
  BY <1>6
<1>8. PICK g \in [0..(m - 1) -> T] :
        g[0] = b /\ \A i \in 1..(m - 1) : g[i] = F[i][g[i - 1]]
  BY <1>7 DEF Runs
<1> DEFINE h == [i \in 0..m |-> IF i = m THEN F[m][g[m - 1]] ELSE g[i]]
<1>9. g[m - 1] \in T
  BY <1>6
<1>10. F[m][g[m - 1]] \in T
  BY <1>6, <1>9
<1>11. \A i \in 0..m : i # m => i \in 0..(m - 1)
  BY <1>6
<1>12. h \in [0..m -> T]
  BY <1>10, <1>11
<1>13. h[0] = b
  BY <1>5, <1>6, <1>8
<1>14. \A i \in 1..m : h[i] = F[i][h[i - 1]]
  <2> TAKE i \in 1..m
  <2>1. h[i - 1] = g[i - 1]
    BY <1>6
  <2>2. i \in 0..m
    BY <1>6
  <2>3. CASE i = m
    BY <2>1, <2>2, <2>3
  <2>4. CASE i # m
    <3>1. i \in 1..(m - 1)
      BY <1>6, <2>4
    <3>2. g[i] = F[i][g[i - 1]]
      BY <1>8, <3>1
    <3> QED
      BY <2>1, <2>2, <2>4, <3>2
  <2> QED
    BY <2>3, <2>4
<1> HIDE DEF h
<1> QED
  BY <1>4, <1>12, <1>13, <1>14 DEF Runs

-----------------------------------------------------------------------------
(* The order of positions.                                                   *)

Before(first, second) ==
    \E k \in 1..Len(second) :
        /\ \A j \in 1..(k - 1) : j <= Len(first) /\ first[j] = second[j]
        /\ k <= Len(first) => first[k] < second[k]

LEMMA PrefixComesBefore ==
    ASSUME NEW p \in Seq(Nat), NEW q \in Seq(Nat), Len(p) < Len(q),
           \A i \in 1..Len(p) : p[i] = q[i]
    PROVE  Before(p, q)
<1>1. Len(p) \in Nat /\ Len(q) \in Nat
  OBVIOUS
<1>2. Len(p) + 1 \in 1..Len(q)
  BY <1>1
<1>3. \A j \in 1..(Len(p) + 1 - 1) : j <= Len(p) /\ p[j] = q[j]
  BY <1>1
<1> QED
  BY <1>1, <1>2, <1>3 DEF Before

(* Of two positions the one with the lesser number where they first differ.  *)
LEMMA FirstDifference ==
    ASSUME NEW p \in Seq(Nat), NEW q \in Seq(Nat), NEW i \in 1..Len(p), i \in 1..Len(q),
           \A j \in 1..(i - 1) : p[j] = q[j], p[i] < q[i]
    PROVE  Before(p, q) /\ ~Before(q, p)
<1>1. /\ Len(p) \in Nat /\ Len(q) \in Nat /\ i \in 1..Len(q)
      /\ \A j \in 1..(i - 1) : j <= Len(p)
  OBVIOUS
<1>2. Before(p, q)
  BY <1>1 DEF Before
<1>3. ASSUME NEW k \in 1..Len(p),
             \A j \in 1..(k - 1) : j <= Len(q) /\ q[j] = p[j],
             k <= Len(q) => q[k] < p[k]
      PROVE  FALSE
  <2>1. p[i] \in Nat /\ q[i] \in Nat /\ p[k] \in Nat /\ k \in Nat /\ i \in Nat
    BY <1>1
  <2>2. ~(i < k)
    <3> SUFFICES ASSUME i < k PROVE FALSE
      OBVIOUS
    <3>1. i \in 1..(k - 1)
      BY <1>1
    <3>2. q[i] = p[i]
      BY <1>3, <3>1
    <3> QED
      BY <2>1, <3>2
  <2>3. k # i
    BY <1>1, <1>3, <2>1
  <2>4. k \in 1..(i - 1) /\ k <= Len(q)
    BY <1>1, <2>1, <2>2, <2>3
  <2>5. q[k] = p[k]
    BY <2>4
  <2> QED
    BY <1>3, <2>1, <2>4, <2>5
<1> QED
  BY <1>2, <1>3 DEF Before

(* Comparing two positions says which comes before the other.                *)
LEMMA ComparedByPlace ==
    ASSUME NEW p \in Seq(Nat), NEW q \in Seq(Nat)
    PROVE  /\ ComparePositions(p, q) = -1 <=> Before(p, q)
           /\ ComparePositions(p, q) = 1 <=> Before(q, p)
           /\ ComparePositions(p, q) = 0 <=> p = q
           /\ ComparePositions(p, q) \in {-1, 0, 1}
<1> DEFINE common == {i \in 1..Len(p) : i <= Len(q) /\ p[i] # q[i]}
<1>0. /\ Len(p) \in Nat /\ Len(q) \in Nat
      /\ \A i \in 1..Len(p) : p[i] \in Nat
      /\ \A i \in 1..Len(q) : q[i] \in Nat
  OBVIOUS
<1>1. CASE common = {}
  <2>1. \A i \in 1..Len(p) : i <= Len(q) => p[i] = q[i]
    BY <1>1
  <2>2. CASE Len(p) = Len(q)
    <3>1. ComparePositions(p, q) = 0
      BY <1>1, <2>2 DEF ComparePositions
    <3>2. p = q
      BY <2>1, <2>2, SeqEqual
    <3>3. ~Before(p, q) /\ ~Before(q, p)
      BY <1>0, <3>2 DEF Before
    <3> QED
      BY <3>1, <3>2, <3>3
  <2>3. CASE Len(p) < Len(q)
    <3>1. ComparePositions(p, q) = -1
      BY <1>0, <1>1, <2>3 DEF ComparePositions
    <3>2. Before(p, q)
      BY <1>0, <2>1, <2>3, PrefixComesBefore
    <3>3. ~Before(q, p)
      BY <1>0, <2>1, <2>3 DEF Before
    <3> QED
      BY <2>3, <3>1, <3>2, <3>3
  <2>4. CASE Len(q) < Len(p)
    <3>1. ComparePositions(p, q) = 1
      BY <1>0, <1>1, <2>4 DEF ComparePositions
    <3>2. Before(q, p)
      BY <1>0, <2>1, <2>4, PrefixComesBefore
    <3>3. ~Before(p, q)
      BY <1>0, <2>1, <2>4 DEF Before
    <3> QED
      BY <2>4, <3>1, <3>2, <3>3
  <2> QED
    BY <1>0, <2>2, <2>3, <2>4
<1>2. CASE common # {}
  <2> DEFINE i == CHOOSE k \in common : \A j \in common : k <= j
  <2>1. common \in SUBSET Nat
    BY <1>0
  <2>2. \E k \in common : \A j \in common : k <= j
    <3> HIDE DEF common
    <3> QED
      BY <1>2, <2>1, LeastNumber
  <2>3. i \in common /\ \A j \in common : i <= j
    <3> HIDE DEF common
    <3> QED
      BY <2>2
  <2>4. ComparePositions(p, q) = IF p[i] > q[i] THEN 1 ELSE -1
    BY <1>2 DEF ComparePositions
  <2> HIDE DEF i
  <2>5. i \in 1..Len(p) /\ i \in 1..Len(q) /\ p[i] # q[i]
    BY <2>3, <1>0
  <2>6. \A j \in 1..(i - 1) : j <= Len(p) /\ j <= Len(q) /\ p[j] = q[j]
    BY <1>0, <2>3, <2>5
  <2> HIDE DEF common
  <2>7. CASE p[i] > q[i]
    <3>1. Before(q, p) /\ ~Before(p, q)
      BY <2>5, <2>6, <2>7, FirstDifference
    <3>2. ComparePositions(p, q) = 1
      BY <2>4, <2>7
    <3> QED
      BY <2>5, <3>1, <3>2
  <2>8. CASE p[i] < q[i]
    <3>1. Before(p, q) /\ ~Before(q, p)
      BY <2>5, <2>6, <2>8, FirstDifference
    <3>2. ~(p[i] > q[i])
      BY <1>0, <2>5, <2>8
    <3>3. ComparePositions(p, q) = -1
      BY <2>4, <3>2
    <3> QED
      BY <2>5, <3>1, <3>3
  <2> QED
    BY <1>0, <2>5, <2>7, <2>8
<1> QED
  BY <1>1, <1>2

LEMMA BeforeIsTransitive ==
    ASSUME NEW p \in Seq(Nat), NEW q \in Seq(Nat), NEW r \in Seq(Nat), Before(p, q), Before(q, r)
    PROVE  Before(p, r)
<1>0. /\ Len(p) \in Nat /\ Len(q) \in Nat /\ Len(r) \in Nat
      /\ \A i \in 1..Len(p) : p[i] \in Nat
      /\ \A i \in 1..Len(q) : q[i] \in Nat
      /\ \A i \in 1..Len(r) : r[i] \in Nat
  OBVIOUS
<1>1. PICK k \in 1..Len(q) : /\ \A j \in 1..(k - 1) : j <= Len(p) /\ p[j] = q[j]
                             /\ k <= Len(p) => p[k] < q[k]
  BY DEF Before
<1>2. PICK m \in 1..Len(r) : /\ \A j \in 1..(m - 1) : j <= Len(q) /\ q[j] = r[j]
                             /\ m <= Len(q) => q[m] < r[m]
  BY DEF Before
<1>3. CASE k < m
  <2>1. k \in 1..Len(r) /\ q[k] = r[k]
    BY <1>0, <1>2, <1>3
  <2>2. \A j \in 1..(k - 1) : j <= Len(p) /\ p[j] = r[j]
    BY <1>0, <1>1, <1>2, <1>3
  <2> QED
    BY <1>1, <2>1, <2>2 DEF Before
<1>4. CASE m <= k
  <2>1. \A j \in 1..(m - 1) : j <= Len(p) /\ p[j] = r[j]
    BY <1>0, <1>1, <1>2, <1>4
  <2>2. m <= Len(p) => p[m] < r[m]
    BY <1>0, <1>1, <1>2, <1>4
  <2> QED
    BY <2>1, <2>2 DEF Before
<1> QED
  BY <1>0, <1>3, <1>4

-----------------------------------------------------------------------------
(* Positions as getChar makes them.                                          *)

JavaInteger == [n : Nat, box : Nat]
Position == Seq(JavaInteger)

(* None but the invisible character's ends below 1, so that all come after   *)
(* it.                                                                       *)
EndsAboveZero(p) == p # <<>> /\ p[Len(p)] >= 1

LEMMA BoxedIsInteger ==
    ASSUME NEW n \in Nat, NEW box \in Nat
    PROVE  Boxed(n, box) \in JavaInteger /\ Boxed(n, box).n = n
BY DEF Boxed, JavaInteger

LEMMA NumbersOfPosition ==
    ASSUME NEW p \in Position
    PROVE  /\ Numbers(p) \in Seq(Nat) /\ Len(Numbers(p)) = Len(p)
           /\ \A i \in 1..Len(p) : Numbers(p)[i] = p[i].n /\ p[i].n \in Nat
<1>1. /\ Len(p) \in Nat /\ DOMAIN p = 1..Len(p)
      /\ \A i \in 1..Len(p) : p[i] \in JavaInteger
  BY DEF Position
<1>2. \A i \in 1..Len(p) : p[i].n \in Nat
  BY <1>1 DEF JavaInteger
<1>3. Numbers(p) = [i \in 1..Len(p) |-> p[i].n]
  BY <1>1 DEF Numbers
<1> QED
  BY <1>1, <1>2, <1>3

LEMMA AfterInvisible ==
    ASSUME NEW p \in Seq(Nat), EndsAboveZero(p)
    PROVE  Before(<<0>>, p)
<1>1. Len(p) \in Nat /\ Len(p) >= 1 /\ Len(<<0>>) = 1 /\ <<0>>[1] = 0
      /\ \A i \in 1..Len(p) : p[i] \in Nat
  BY DEF EndsAboveZero
<1>2. CASE p[1] > 0
  <2>1. 1 \in 1..Len(p) /\ 1..(1 - 1) = {}
    BY <1>1
  <2> QED
    BY <1>1, <1>2, <2>1 DEF Before
<1>3. CASE p[1] = 0
  <2>1. Len(p) >= 2
    BY <1>1, <1>3 DEF EndsAboveZero
  <2>2. 2 \in 1..Len(p) /\ \A j \in 1..(2 - 1) : j <= Len(<<0>>) /\ <<0>>[j] = p[j]
    BY <1>1, <1>3, <2>1
  <2>3. ~(2 <= Len(<<0>>))
    BY <1>1
  <2> QED
    BY <2>2, <2>3 DEF Before
<1> QED
  BY <1>1, <1>2, <1>3

(* How far two positions have the same objects.                              *)
LEMMA SameLengthIs ==
    ASSUME NEW p \in Position, NEW q \in Position
    PROVE  /\ SameLength(p, q) \in Nat
           /\ SameLength(p, q) <= Len(p) /\ SameLength(p, q) <= Len(q)
           /\ \A i \in 1..SameLength(p, q) : p[i] = q[i]
           /\ SameLength(p, q) < Len(p) /\ SameLength(p, q) < Len(q)
                => p[SameLength(p, q) + 1] # q[SameLength(p, q) + 1]
<1> DEFINE differ == {i \in 1..Len(p) : i > Len(q) \/ p[i] # q[i]}
<1>0. Len(p) \in Nat /\ Len(q) \in Nat
  BY DEF Position
<1>1. CASE differ = {}
  <2>1. SameLength(p, q) = Len(p)
    BY <1>1 DEF SameLength
  <2>2. \A i \in 1..Len(p) : i <= Len(q) /\ p[i] = q[i]
    BY <1>0, <1>1
  <2>3. Len(p) <= Len(q)
    BY <1>0, <2>2
  <2> QED
    BY <1>0, <2>1, <2>2, <2>3
<1>2. CASE differ # {}
  <2> DEFINE k == CHOOSE k \in differ : \A j \in differ : k <= j
  <2>1. differ \in SUBSET Nat
    BY <1>0
  <2>2. \E m \in differ : \A j \in differ : m <= j
    <3> HIDE DEF differ
    <3> QED
      BY <1>2, <2>1, LeastNumber
  <2>3. k \in differ /\ \A j \in differ : k <= j
    <3> HIDE DEF differ
    <3> QED
      BY <2>2
  <2>4. SameLength(p, q) = k - 1
    BY <1>2 DEF SameLength
  <2> HIDE DEF k
  <2>5. k \in 1..Len(p) /\ (k > Len(q) \/ p[k] # q[k])
    BY <2>3
  <2>6. \A i \in 1..(k - 1) : i <= Len(q) /\ p[i] = q[i]
    BY <1>0, <2>3, <2>5
  <2>7. k - 1 <= Len(q)
    BY <1>0, <2>5, <2>6
  <2> QED
    BY <1>0, <2>4, <2>5, <2>6, <2>7
<1> QED
  BY <1>1, <1>2

(* A position cut short or changed at its last place, or one place longer.   *)
LEMMA LastChanged ==
    ASSUME NEW p \in Position, p # <<>>, NEW n \in Nat, NEW box \in Nat
    PROVE  /\ WithLast(p, n, box) \in Position /\ Len(WithLast(p, n, box)) = Len(p)
           /\ \A i \in 1..(Len(p) - 1) : WithLast(p, n, box)[i] = p[i]
           /\ WithLast(p, n, box)[Len(p)].n = n
<1>1. Len(p) \in Nat /\ Len(p) \in 1..Len(p) /\ p \in Seq(JavaInteger)
  BY DEF Position
<1>2. Boxed(n, box) \in JavaInteger /\ Boxed(n, box).n = n
  BY BoxedIsInteger
<1> HIDE DEF Position
<1>3. WithLast(p, n, box) = [p EXCEPT ![Len(p)] = Boxed(n, box)]
  BY DEF WithLast
<1>4. [p EXCEPT ![Len(p)] = Boxed(n, box)] \in Seq(JavaInteger)
  BY <1>1, <1>2
<1>5. Len([p EXCEPT ![Len(p)] = Boxed(n, box)]) = Len(p)
  BY <1>1, <1>2
<1>6. /\ \A i \in 1..(Len(p) - 1) : [p EXCEPT ![Len(p)] = Boxed(n, box)][i] = p[i]
      /\ [p EXCEPT ![Len(p)] = Boxed(n, box)][Len(p)] = Boxed(n, box)
  <2>1. p \in [1..Len(p) -> JavaInteger]
    BY <1>1
  <2> DEFINE b == Boxed(n, box)
             last == Len(p)
  <2>2. last \in 1..last /\ p \in [1..last -> JavaInteger] /\ last \in Nat
    BY <1>1, <2>1
  <2> HIDE DEF b, last
  <2>3. [p EXCEPT ![last] = b][last] = b
    BY <2>2
  <2>4. \A i \in 1..(last - 1) : [p EXCEPT ![last] = b][i] = p[i]
    BY <2>2
  <2> QED
    BY <2>3, <2>4 DEF b, last
<1>7. WithLast(p, n, box) \in Position
  BY <1>3, <1>4 DEF Position
<1> QED
  BY <1>2, <1>3, <1>5, <1>6, <1>7

LEMMA OneMore ==
    ASSUME NEW p \in Position
    PROVE  /\ Append(p, One) \in Position /\ Len(Append(p, One)) = Len(p) + 1
           /\ \A i \in 1..Len(p) : Append(p, One)[i] = p[i]
           /\ Append(p, One)[Len(p) + 1].n = 1
           /\ EndsAboveZero(Numbers(Append(p, One)))
<1>1. One \in JavaInteger /\ One.n = 1
  BY BoxedIsInteger DEF One
<1>2. p \in Seq(JavaInteger) /\ Len(p) \in Nat
  BY DEF Position
<1>3. /\ Append(p, One) \in Position /\ Len(Append(p, One)) = Len(p) + 1
      /\ \A i \in 1..Len(p) : Append(p, One)[i] = p[i]
      /\ Append(p, One)[Len(p) + 1] = One
  BY <1>1, <1>2 DEF Position
<1>4. EndsAboveZero(Numbers(Append(p, One)))
  <2> DEFINE q == Append(p, One)
  <2>1. q \in Position /\ Len(q) = Len(p) + 1 /\ q[Len(q)].n = 1
    BY <1>1, <1>3
  <2>2. Len(q) \in 1..Len(q)
    BY <1>2, <2>1
  <2> HIDE DEF q
  <2>3. Numbers(q) \in Seq(Nat) /\ Len(Numbers(q)) = Len(q) /\ Numbers(q)[Len(q)] = 1
    BY <2>1, <2>2, NumbersOfPosition
  <2>4. EndsAboveZero(Numbers(q))
    BY <1>2, <2>1, <2>2, <2>3 DEF EndsAboveZero
  <2> QED
    BY <2>4 DEF q
<1> QED
  BY <1>1, <1>3, <1>4

(* Before, of positions. *)
LEMMA PositionsBefore ==
    ASSUME NEW p \in Position, NEW q \in Position, NEW k \in 1..Len(q),
           \A j \in 1..(k - 1) : j <= Len(p) /\ p[j].n = q[j].n,
           k <= Len(p) => p[k].n < q[k].n
    PROVE  Before(Numbers(p), Numbers(q))
<1>1. /\ Len(Numbers(p)) = Len(p) /\ Len(Numbers(q)) = Len(q)
      /\ \A i \in 1..Len(p) : Numbers(p)[i] = p[i].n
      /\ \A i \in 1..Len(q) : Numbers(q)[i] = q[i].n
      /\ Len(p) \in Nat /\ Len(q) \in Nat
  BY NumbersOfPosition DEF Position
<1>2. \A j \in 1..(k - 1) : j <= Len(Numbers(p)) /\ Numbers(p)[j] = Numbers(q)[j]
  BY <1>1
<1>3. k <= Len(Numbers(p)) => Numbers(p)[k] < Numbers(q)[k]
  BY <1>1
<1> QED
  BY <1>1, <1>2, <1>3 DEF Before

(* CASE 1 of getChar. *)
LEMMA BeforeNextIsBetween ==
    ASSUME NEW prev \in Position, NEW next \in Position, NEW box \in Nat,
           EndsAboveZero(Numbers(next)), Len(prev) < Len(next),
           \A i \in 1..Len(prev) : prev[i] = next[i]
    PROVE  /\ BeforeNext(next, box) \in Position
           /\ EndsAboveZero(Numbers(BeforeNext(next, box)))
           /\ Before(Numbers(prev), Numbers(BeforeNext(next, box)))
           /\ Before(Numbers(BeforeNext(next, box)), Numbers(next))
<1> DEFINE n == next[Len(next)].n - 1
           c == WithLast(next, n, box)
<1>1. /\ Len(prev) \in Nat /\ Len(next) \in Nat /\ next # <<>> /\ Len(next) \in 1..Len(next)
      /\ Len(Numbers(next)) = Len(next)
      /\ \A i \in 1..Len(next) : Numbers(next)[i] = next[i].n /\ next[i].n \in Nat
  BY NumbersOfPosition DEF Position, EndsAboveZero
<1>2. n \in Nat /\ n < next[Len(next)].n
  BY <1>1 DEF EndsAboveZero
<1> HIDE DEF n
<1>3. /\ c \in Position /\ Len(c) = Len(next)
      /\ \A i \in 1..(Len(next) - 1) : c[i] = next[i]
      /\ c[Len(next)].n = n
  BY <1>1, <1>2, LastChanged
<1>4. BeforeNext(next, box) = IF n < 1 THEN Append(c, One) ELSE c
  BY <1>3 DEF BeforeNext, n
<1> HIDE DEF c
<1>5. \A i \in 1..Len(prev) : i <= Len(next) - 1 /\ c[i] = prev[i]
  BY <1>1, <1>3
<1>6. CASE n < 1
  <2> DEFINE new == Append(c, One)
  <2>1. /\ new \in Position /\ Len(new) = Len(next) + 1
        /\ \A i \in 1..Len(next) : new[i] = c[i]
        /\ EndsAboveZero(Numbers(new))
    BY <1>3, OneMore
  <2>2. BeforeNext(next, box) = new
    BY <1>4, <1>6
  <2> HIDE DEF new
  <2>3. Before(Numbers(prev), Numbers(new))
    <3> DEFINE k == Len(prev) + 1
    <3>1. k \in 1..Len(new) /\ ~(k <= Len(prev))
      BY <1>1, <2>1
    <3>2. \A j \in 1..(k - 1) : j <= Len(prev) /\ prev[j].n = new[j].n
      BY <1>1, <1>5, <2>1
    <3> HIDE DEF k
    <3> QED
      BY <2>1, <3>1, <3>2, PositionsBefore
  <2>4. Before(Numbers(new), Numbers(next))
    <3>1. \A j \in 1..(Len(next) - 1) : j <= Len(new) /\ new[j].n = next[j].n
      BY <1>1, <1>3, <2>1
    <3>2. new[Len(next)].n < next[Len(next)].n
      BY <1>1, <1>2, <1>3, <2>1
    <3> QED
      BY <1>1, <2>1, <3>1, <3>2, PositionsBefore
  <2> QED
    BY <2>1, <2>2, <2>3, <2>4
<1>7. CASE ~(n < 1)
  <2>1. BeforeNext(next, box) = c
    BY <1>4, <1>7
  <2>2. EndsAboveZero(Numbers(c))
    <3>1. Numbers(c) \in Seq(Nat) /\ Len(Numbers(c)) = Len(next) /\ Numbers(c)[Len(next)] = n
      BY <1>1, <1>3, NumbersOfPosition
    <3> QED
      BY <1>1, <1>2, <1>7, <3>1 DEF EndsAboveZero
  <2>3. Before(Numbers(prev), Numbers(c))
    <3> DEFINE k == Len(prev) + 1
    <3>1. k \in 1..Len(c) /\ ~(k <= Len(prev))
      BY <1>1, <1>3
    <3>2. \A j \in 1..(k - 1) : j <= Len(prev) /\ prev[j].n = c[j].n
      BY <1>1, <1>5
    <3> HIDE DEF k
    <3> QED
      BY <1>3, <3>1, <3>2, PositionsBefore
  <2>4. Before(Numbers(c), Numbers(next))
    <3>1. \A j \in 1..(Len(next) - 1) : j <= Len(c) /\ c[j].n = next[j].n
      BY <1>1, <1>3
    <3>2. c[Len(next)].n < next[Len(next)].n
      BY <1>2, <1>3
    <3> QED
      BY <1>1, <1>3, <3>1, <3>2, PositionsBefore
  <2> QED
    BY <1>3, <2>1, <2>2, <2>3, <2>4
<1> QED
  BY <1>6, <1>7

(* CASE 3 of getChar: what it makes follows the character before, and begins *)
(* as that does, with the place at which the one after differs.              *)
LEMMA AfterPrevFollows ==
    ASSUME NEW prev \in Position, NEW box \in Nat, NEW same \in Nat, same < Len(prev)
    PROVE  /\ AfterPrev(prev, same, box) \in Position
           /\ EndsAboveZero(Numbers(AfterPrev(prev, same, box)))
           /\ Before(Numbers(prev), Numbers(AfterPrev(prev, same, box)))
           /\ \A i \in 1..(same + 1) : /\ i <= Len(AfterPrev(prev, same, box))
                                       /\ AfterPrev(prev, same, box)[i] = prev[i]
<1> DEFINE new == AfterPrev(prev, same, box)
<1>1. /\ Len(prev) \in Nat /\ prev # <<>> /\ Len(prev) \in 1..Len(prev)
      /\ \A i \in 1..Len(prev) : prev[i].n \in Nat
  BY NumbersOfPosition DEF Position
<1>2. CASE Len(prev) - 1 > same
  <2> DEFINE n == prev[Len(prev)].n + 1
  <2>1. n \in Nat /\ prev[Len(prev)].n < n /\ n >= 1
    BY <1>1
  <2>2. new = WithLast(prev, n, box)
    BY <1>2 DEF AfterPrev
  <2> HIDE DEF n, new
  <2>3. /\ new \in Position /\ Len(new) = Len(prev)
        /\ \A i \in 1..(Len(prev) - 1) : new[i] = prev[i]
        /\ new[Len(prev)].n = n
    BY <1>1, <2>1, <2>2, LastChanged
  <2>4. EndsAboveZero(Numbers(new))
    <3>1. Numbers(new) \in Seq(Nat) /\ Len(Numbers(new)) = Len(prev) /\ Numbers(new)[Len(prev)] = n
      BY <1>1, <2>3, NumbersOfPosition
    <3> QED
      BY <1>1, <2>1, <3>1 DEF EndsAboveZero
  <2>5. Before(Numbers(prev), Numbers(new))
    <3>1. \A j \in 1..(Len(prev) - 1) : j <= Len(prev) /\ prev[j].n = new[j].n
      BY <1>1, <2>3
    <3>2. prev[Len(prev)].n < new[Len(prev)].n
      BY <2>1, <2>3
    <3> QED
      BY <1>1, <2>3, <3>1, <3>2, PositionsBefore
  <2>6. \A i \in 1..(same + 1) : i <= Len(new) /\ new[i] = prev[i]
    <3>1. \A i \in 1..(same + 1) : i \in 1..(Len(prev) - 1) /\ i <= Len(prev)
      BY <1>1, <1>2
    <3> QED
      BY <2>3, <3>1
  <2> QED
    BY <2>3, <2>4, <2>5, <2>6 DEF new
<1>3. CASE ~(Len(prev) - 1 > same)
  <2>1. new = Append(prev, One)
    BY <1>3 DEF AfterPrev
  <2> HIDE DEF new
  <2>2. /\ new \in Position /\ Len(new) = Len(prev) + 1
        /\ \A i \in 1..Len(prev) : new[i] = prev[i]
        /\ EndsAboveZero(Numbers(new))
    BY <2>1, OneMore
  <2>3. Before(Numbers(prev), Numbers(new))
    <3> DEFINE k == Len(prev) + 1
    <3>1. k \in 1..Len(new) /\ ~(k <= Len(prev))
      BY <1>1, <2>2
    <3>2. \A j \in 1..(k - 1) : j <= Len(prev) /\ prev[j].n = new[j].n
      BY <1>1, <2>2
    <3> HIDE DEF k
    <3> QED
      BY <2>2, <3>1, <3>2, PositionsBefore
  <2>4. \A i \in 1..(same + 1) : i <= Len(new) /\ new[i] = prev[i]
    BY <1>1, <2>2
  <2> QED
    BY <2>2, <2>3, <2>4 DEF new
<1> QED
  BY <1>2, <1>3

LEMMA AfterPrevIsBetween ==
    ASSUME NEW prev \in Position, NEW next \in Position, NEW box \in Nat, NEW same \in Nat,
           same < Len(prev), same < Len(next),
           \A i \in 1..same : prev[i] = next[i],
           prev[same + 1].n < next[same + 1].n
    PROVE  Before(Numbers(AfterPrev(prev, same, box)), Numbers(next))
<1> DEFINE new == AfterPrev(prev, same, box)
<1>1. new \in Position /\ \A i \in 1..(same + 1) : i <= Len(new) /\ new[i] = prev[i]
  BY AfterPrevFollows
<1>2. same + 1 \in 1..Len(next) /\ same + 1 \in 1..(same + 1)
  BY DEF Position
<1> HIDE DEF new
<1>3. \A j \in 1..(same + 1 - 1) : j <= Len(new) /\ new[j].n = next[j].n
  BY <1>1
<1>4. new[same + 1].n < next[same + 1].n
  BY <1>1, <1>2
<1> QED
  BY <1>1, <1>2, <1>3, <1>4, PositionsBefore DEF new

(* Whatever its neighbours are, a typed character has a position that ends   *)
(* above zero.                                                               *)
LEMMA NewPositionEndsAboveZero ==
    ASSUME NEW prev \in Position, NEW next \in Position, NEW atEnd \in BOOLEAN, NEW box \in Nat,
           prev # <<>>,
           ~atEnd => EndsAboveZero(Numbers(next)),
           ~Throws(prev, next, atEnd),
           atEnd => next = <<>>
    PROVE  /\ NewPosition(prev, next, atEnd, box) \in Position
           /\ EndsAboveZero(Numbers(NewPosition(prev, next, atEnd, box)))
<1> DEFINE same == SameLength(prev, next)
           new == NewPosition(prev, next, atEnd, box)
<1>1. /\ Len(prev) \in Nat /\ Len(next) \in Nat /\ Len(prev) >= 1 /\ (next = <<>> => Len(next) = 0)
      /\ \A i \in 1..Len(prev) : prev[i].n \in Nat
  BY NumbersOfPosition DEF Position
<1>2. same \in Nat /\ same <= Len(next)
  BY SameLengthIs
<1>3. new = IF Len(prev) <= same
            THEN IF Len(next) <= same THEN Append(prev, One) ELSE BeforeNext(next, box)
            ELSE IF Len(next) <= same /\ atEnd THEN <<Boxed(prev[1].n + 1, box)>>
            ELSE AfterPrev(prev, same, box)
  BY DEF NewPosition
<1> HIDE DEF same, new
<1>4. CASE Len(prev) <= same /\ Len(next) <= same
  <2>1. new = Append(prev, One)
    BY <1>3, <1>4
  <2> QED
    BY <2>1, OneMore DEF new
<1>5. CASE Len(prev) <= same /\ ~(Len(next) <= same)
  <2>1. new = BeforeNext(next, box)
    BY <1>3, <1>5
  <2>2. ~atEnd
    BY <1>1, <1>2, <1>5
  <2>3. << >> \in Position /\ Len(<< >>) = 0 /\ 1..0 = {} /\ 0 < Len(next)
    BY <1>1, <1>2, <1>5 DEF Position
  <2>4. \A i \in 1..Len(<< >>) : << >>[i] = next[i]
    BY <2>3
  <2>5. BeforeNext(next, box) \in Position /\ EndsAboveZero(Numbers(BeforeNext(next, box)))
    BY <2>2, <2>3, <2>4, BeforeNextIsBetween
  <2> QED
    BY <2>1, <2>5 DEF new
<1>6. CASE ~(Len(prev) <= same) /\ Len(next) <= same /\ atEnd
  <2>2. new = <<Boxed(prev[1].n + 1, box)>>
    BY <1>3, <1>6
  <2>3. Boxed(prev[1].n + 1, box) \in JavaInteger /\ Boxed(prev[1].n + 1, box).n = prev[1].n + 1
    BY <1>1, BoxedIsInteger
  <2>4. new \in Position /\ Len(new) = 1 /\ new[1].n = prev[1].n + 1
    BY <2>2, <2>3 DEF Position
  <2>5. Numbers(new) \in Seq(Nat) /\ Len(Numbers(new)) = 1 /\ Numbers(new)[1] = prev[1].n + 1
    BY <2>4, NumbersOfPosition
  <2>6. prev[1].n + 1 >= 1
    BY <1>1
  <2>7. Numbers(new) # <<>>
    <3> SUFFICES ASSUME Numbers(new) = << >> PROVE FALSE
      OBVIOUS
    <3>1. Len(Numbers(new)) = 0
      OBVIOUS
    <3> QED
      BY <2>5, <3>1
  <2>8. EndsAboveZero(Numbers(new))
    BY <2>5, <2>6, <2>7 DEF EndsAboveZero
  <2> QED
    BY <2>4, <2>8 DEF new
<1>7. CASE ~(Len(prev) <= same) /\ ~(Len(next) <= same /\ atEnd)
  <2>1. new = AfterPrev(prev, same, box)
    BY <1>3, <1>7
  <2>2. same < Len(prev)
    BY <1>1, <1>2, <1>7
  <2> QED
    BY <1>2, <2>1, <2>2, AfterPrevFollows DEF new
<1> QED
  BY <1>4, <1>5, <1>6, <1>7

(* A character typed between two of a sorted text, or after the last, is     *)
(* given a position between theirs, unless getChar throws or takes equal     *)
(* numbers for different ones (Notepad.getChar).                             *)
THEOREM NewPositionIsBetween ==
    ASSUME NEW prev \in Position, NEW next \in Position, NEW atEnd \in BOOLEAN, NEW box \in Nat,
           prev # <<>>,
           atEnd => next = <<>>,
           ~atEnd => EndsAboveZero(Numbers(next)) /\ Before(Numbers(prev), Numbers(next)),
           ~Throws(prev, next, atEnd), ~Misread(prev, next)
    PROVE  /\ Before(Numbers(prev), Numbers(NewPosition(prev, next, atEnd, box)))
           /\ ~atEnd => Before(Numbers(NewPosition(prev, next, atEnd, box)), Numbers(next))
<1> DEFINE same == SameLength(prev, next)
           new == NewPosition(prev, next, atEnd, box)
<1>1. /\ Len(prev) \in Nat /\ Len(next) \in Nat /\ Len(prev) >= 1 /\ (next = <<>> => Len(next) = 0)
      /\ \A i \in 1..Len(prev) : prev[i].n \in Nat
      /\ \A i \in 1..Len(next) : next[i].n \in Nat
  BY NumbersOfPosition DEF Position
<1>2. /\ same \in Nat /\ same <= Len(prev) /\ same <= Len(next)
      /\ \A i \in 1..same : prev[i] = next[i]
      /\ same < Len(prev) /\ same < Len(next) => prev[same + 1] # next[same + 1]
  BY SameLengthIs
<1>3. new = IF Len(prev) <= same
            THEN IF Len(next) <= same THEN Append(prev, One) ELSE BeforeNext(next, box)
            ELSE IF Len(next) <= same /\ atEnd THEN <<Boxed(prev[1].n + 1, box)>>
            ELSE AfterPrev(prev, same, box)
  BY DEF NewPosition
<1>4. ~(Len(prev) > same /\ Len(next) <= same /\ ~atEnd)
  BY DEF Throws
<1>5. same + 1 <= Len(prev) /\ same + 1 <= Len(next) => prev[same + 1].n # next[same + 1].n
  BY DEF Misread
<1> HIDE DEF same, new
<1>6. CASE Len(prev) <= same
  <2>1. ~atEnd
    <3> SUFFICES ASSUME atEnd PROVE FALSE
      OBVIOUS
    <3>1. Len(next) = 0
      BY <1>1
    <3> QED
      BY <1>1, <1>2, <1>6, <3>1
  <2>2. Len(prev) = same /\ \A i \in 1..Len(prev) : prev[i] = next[i]
    <3>1. Len(prev) = same
      BY <1>1, <1>2, <1>6 DEF Position
    <3> QED
      BY <1>2, <3>1
  <2>3. Len(prev) < Len(next)
    <3>0. Len(prev) <= Len(next)
      BY <1>2, <2>2
    <3> SUFFICES ASSUME Len(prev) = Len(next) PROVE FALSE
      BY <1>1, <3>0 DEF Position
    <3>1. prev = next
      BY <2>2, SeqEqual DEF Position
    <3>2. Numbers(prev) \in Seq(Nat)
      BY NumbersOfPosition
    <3>3. ComparePositions(Numbers(prev), Numbers(prev)) = -1
      BY <2>1, <3>1, <3>2, ComparedByPlace
    <3>4. ComparePositions(Numbers(prev), Numbers(prev)) = 0
      BY <3>2, ComparedByPlace
    <3> QED
      BY <3>3, <3>4
  <2>4. new = BeforeNext(next, box)
    BY <1>1, <1>2, <1>3, <2>2, <2>3
  <2> QED
    BY <2>1, <2>2, <2>3, <2>4, BeforeNextIsBetween DEF new
<1>7. CASE Len(prev) > same /\ Len(next) <= same
  <2>1. atEnd
    BY <1>4, <1>7
  <2>2. new = <<Boxed(prev[1].n + 1, box)>>
    BY <1>1, <1>2, <1>3, <1>7, <2>1
  <2>3. Boxed(prev[1].n + 1, box) \in JavaInteger /\ Boxed(prev[1].n + 1, box).n = prev[1].n + 1
    BY <1>1, BoxedIsInteger
  <2>4. new \in Position /\ Len(new) = 1 /\ new[1].n = prev[1].n + 1
    BY <2>2, <2>3 DEF Position
  <2>5. Before(Numbers(prev), Numbers(new))
    <3>1. 1 \in 1..Len(new) /\ prev[1].n < new[1].n /\ 1..(1 - 1) = {}
      BY <1>1, <2>4
    <3> QED
      BY <2>4, <3>1, PositionsBefore
  <2> QED
    BY <2>1, <2>5 DEF new
<1>8. CASE Len(prev) > same /\ Len(next) > same
  <2>1. ~atEnd
    BY <1>1, <1>2, <1>8
  <2>2. new = AfterPrev(prev, same, box)
    BY <1>1, <1>2, <1>3, <1>8
  <2>3. prev[same + 1].n < next[same + 1].n
    <3> SUFFICES ASSUME next[same + 1].n < prev[same + 1].n PROVE FALSE
      BY <1>1, <1>2, <1>5, <1>8
    <3>1. same + 1 \in 1..Len(prev) /\ same + 1 \in 1..Len(next)
      BY <1>1, <1>2, <1>8
    <3>2. \A j \in 1..(same + 1 - 1) : j <= Len(next) /\ next[j].n = prev[j].n
      BY <1>2
    <3>3. Before(Numbers(next), Numbers(prev))
      <4>1. same + 1 <= Len(next) => next[same + 1].n < prev[same + 1].n
        OBVIOUS
      <4> QED
        BY <1>2, <3>1, <3>2, <4>1, PositionsBefore
    <3>4. Before(Numbers(prev), Numbers(next))
      BY <2>1
    <3>5. Numbers(prev) \in Seq(Nat) /\ Numbers(next) \in Seq(Nat)
      BY NumbersOfPosition
    <3>6. /\ ComparePositions(Numbers(prev), Numbers(next)) = 1
          /\ ComparePositions(Numbers(prev), Numbers(next)) = -1
      BY <3>3, <3>4, <3>5, ComparedByPlace
    <3> QED
      BY <3>6
  <2> QED
    BY <1>2, <1>8, <2>1, <2>2, <2>3, AfterPrevFollows, AfterPrevIsBetween DEF new
<1> QED
  BY <1>1, <1>2, <1>6, <1>7, <1>8

-----------------------------------------------------------------------------
(* Texts: an invisible character, and those that client me has typed or      *)
(* received, which all bear its id.                                          *)

Typed(S, me) ==
    [c : S, creator : {me}, position : {p \in Position : EndsAboveZero(Numbers(p))}]

Text(S, me, root) ==
    {t \in Seq({root} \cup Typed(S, me)) :
        t # <<>> /\ t[1] = root /\ \A i \in 2..Len(t) : t[i] \in Typed(S, me)}

Place(char) == Numbers(char.position)

Sorted(t) == \A i, j \in 1..Len(t) : i < j => Before(Place(t[i]), Place(t[j]))

(* The invisible character is at <<0>> (Notepad.clearFile).                  *)
IsRoot(root) == root.position \in Position /\ Place(root) = <<0>>

LEMMA PlacesOfText ==
    ASSUME NEW S, NEW me, NEW root, IsRoot(root), NEW t \in Text(S, me, root)
    PROVE  /\ Len(t) \in Nat /\ Len(t) >= 1 /\ t[1] = root
           /\ \A i \in 1..Len(t) : Place(t[i]) \in Seq(Nat) /\ t[i].position \in Position
           /\ \A i \in 2..Len(t) : t[i].creator = me /\ EndsAboveZero(Place(t[i]))
<1>1. t \in Seq({root} \cup Typed(S, me)) /\ t # <<>> /\ t[1] = root
      /\ \A i \in 2..Len(t) : t[i] \in Typed(S, me)
  BY DEF Text
<1>2. Len(t) \in Nat /\ Len(t) >= 1
  BY <1>1, EmptySeq
<1>3. \A i \in 2..Len(t) : /\ t[i].creator = me
                           /\ t[i].position \in Position /\ EndsAboveZero(Place(t[i]))
  BY <1>1 DEF Typed, Place
<1>4. \A i \in 1..Len(t) : t[i].position \in Position
  <2> TAKE i \in 1..Len(t)
  <2>1. CASE i = 1
    BY <1>1, <2>1 DEF IsRoot
  <2>2. CASE i # 1
    <3>1. i \in 2..Len(t)
      BY <1>2, <2>2
    <3> QED
      BY <1>3, <3>1
  <2> QED
    BY <2>1, <2>2
<1>5. \A i \in 1..Len(t) : Place(t[i]) \in Seq(Nat)
  BY <1>4, NumbersOfPosition DEF Place
<1> QED
  BY <1>1, <1>2, <1>3, <1>4, <1>5

LEMMA PlaceOfTyped ==
    ASSUME NEW S, NEW me, NEW char \in Typed(S, me)
    PROVE  /\ Place(char) \in Seq(Nat) /\ EndsAboveZero(Place(char)) /\ char.creator = me
           /\ char.position \in Position
<1>1. char.position \in Position /\ EndsAboveZero(Numbers(char.position)) /\ char.creator = me
  BY DEF Typed
<1> QED
  BY <1>1, NumbersOfPosition DEF Place

(* new is t with one character more.                                         *)
With(new, t, i, char) ==
    /\ Len(new) = Len(t) + 1
    /\ \A j \in 1..Len(new) :
           new[j] = IF j < i THEN t[j] ELSE IF j = i THEN char ELSE t[j - 1]

LEMMA OneMoreIsText ==
    ASSUME NEW S, NEW me, NEW root, NEW t \in Text(S, me, root), NEW char \in Typed(S, me),
           NEW i \in 2..(Len(t) + 1), NEW new \in Seq({root} \cup Typed(S, me)),
           With(new, t, i, char)
    PROVE  new \in Text(S, me, root)
<1> USE DEF With
<1>1. /\ t \in Seq({root} \cup Typed(S, me)) /\ t # <<>> /\ t[1] = root
      /\ \A j \in 2..Len(t) : t[j] \in Typed(S, me)
  BY DEF Text
<1>2. Len(t) \in Nat /\ Len(t) >= 1
  BY <1>1, EmptySeq
<1>3. new[1] = root /\ new # <<>>
  BY <1>1, <1>2, EmptySeq
<1>4. \A j \in 2..Len(new) : new[j] \in Typed(S, me)
  <2> TAKE j \in 2..Len(new)
  <2>1. j \in 1..Len(new)
    OBVIOUS
  <2>2. CASE j < i
    <3>1. j \in 2..Len(t) /\ new[j] = t[j]
      BY <1>2, <2>1, <2>2
    <3> QED
      BY <1>1, <3>1
  <2>3. CASE j = i
    BY <2>1, <2>3
  <2>4. CASE j > i
    <3>1. j - 1 \in 2..Len(t) /\ new[j] = t[j - 1]
      BY <1>2, <2>1, <2>4
    <3> QED
      BY <1>1, <3>1
  <2> QED
    BY <1>2, <2>2, <2>3, <2>4
<1> QED
  BY <1>3, <1>4 DEF Text

LEMMA OneMoreIsSorted ==
    ASSUME NEW S, NEW me, NEW root, IsRoot(root),
           NEW t \in Text(S, me, root), NEW char \in Typed(S, me),
           NEW i \in 2..(Len(t) + 1), NEW new \in Seq({root} \cup Typed(S, me)),
           With(new, t, i, char),
           Sorted(t), Before(Place(t[i - 1]), Place(char)),
           i <= Len(t) => Before(Place(char), Place(t[i]))
    PROVE  Sorted(new)
<1> USE DEF With
<1>1. /\ Len(t) \in Nat /\ Len(t) >= 1 /\ Place(char) \in Seq(Nat)
      /\ \A j \in 1..Len(t) : Place(t[j]) \in Seq(Nat)
  BY PlacesOfText, PlaceOfTyped
<1>2. \A j, k \in 1..Len(t) : j < k => Before(Place(t[j]), Place(t[k]))
  BY DEF Sorted
<1>3. \A j \in 1..(i - 1) : Before(Place(t[j]), Place(char))
  <2> TAKE j \in 1..(i - 1)
  <2>1. CASE j = i - 1
    BY <2>1
  <2>2. CASE j # i - 1
    <3>1. j \in 1..Len(t) /\ i - 1 \in 1..Len(t) /\ j < i - 1
      BY <1>1, <2>2
    <3>2. Before(Place(t[j]), Place(t[i - 1]))
      BY <1>2, <3>1
    <3> QED
      BY <1>1, <3>1, <3>2, BeforeIsTransitive
  <2> QED
    BY <2>1, <2>2
<1>4. \A k \in i..Len(t) : Before(Place(char), Place(t[k]))
  <2> TAKE k \in i..Len(t)
  <2>1. CASE k = i
    BY <2>1
  <2>2. CASE k # i
    <3>1. i \in 1..Len(t) /\ k \in 1..Len(t) /\ i < k
      BY <1>1, <2>2
    <3>2. Before(Place(t[i]), Place(t[k])) /\ Before(Place(char), Place(t[i]))
      BY <1>2, <3>1
    <3> QED
      BY <1>1, <3>1, <3>2, BeforeIsTransitive
  <2> QED
    BY <2>1, <2>2
<1> SUFFICES ASSUME NEW j \in 1..Len(new), NEW k \in 1..Len(new), j < k
             PROVE  Before(Place(new[j]), Place(new[k]))
  BY DEF Sorted
<1>5. CASE k < i
  <2>1. j \in 1..Len(t) /\ k \in 1..Len(t) /\ new[j] = t[j] /\ new[k] = t[k]
    BY <1>1, <1>5
  <2> QED
    BY <1>2, <2>1
<1>6. CASE k = i
  <2>1. j \in 1..(i - 1) /\ new[j] = t[j] /\ new[k] = char
    BY <1>1, <1>6
  <2> QED
    BY <1>3, <2>1
<1>7. CASE k > i /\ j < i
  <2>1. j \in 1..Len(t) /\ k - 1 \in 1..Len(t) /\ j < k - 1 /\ new[j] = t[j] /\ new[k] = t[k - 1]
    BY <1>1, <1>7
  <2> QED
    BY <1>2, <2>1
<1>8. CASE j = i
  <2>1. k - 1 \in i..Len(t) /\ new[j] = char /\ new[k] = t[k - 1]
    BY <1>1, <1>8
  <2> QED
    BY <1>4, <2>1
<1>9. CASE k > i /\ j > i
  <2>1. j - 1 \in 1..Len(t) /\ k - 1 \in 1..Len(t) /\ j - 1 < k - 1
        /\ new[j] = t[j - 1] /\ new[k] = t[k - 1]
    BY <1>1, <1>9
  <2> QED
    BY <1>2, <2>1
<1> QED
  BY <1>1, <1>5, <1>6, <1>7, <1>8, <1>9

LEMMA Inserted ==
    ASSUME NEW S, NEW s \in Seq(S), NEW i \in 1..(Len(s) + 1), NEW e \in S
    PROVE  InsertAt(s, i, e) \in Seq(S) /\ With(InsertAt(s, i, e), s, i, e)
<1> DEFINE head == SubSeq(s, 1, i - 1)
           tail == SubSeq(s, i, Len(s))
           front == head \o <<e>>
<1>0. Len(s) \in Nat /\ i \in Int /\ Len(s) \in Int /\ \A j \in 1..Len(s) : s[j] \in S
  OBVIOUS
<1>1. /\ head \in Seq(S) /\ Len(head) = i - 1
      /\ \A j \in 1..(i - 1) : head[j] = s[j]
  BY <1>0, SubSeqProperties
<1>2. /\ tail \in Seq(S) /\ Len(tail) = Len(s) - i + 1
      /\ \A j \in 1..(Len(s) - i + 1) : tail[j] = s[i + j - 1]
  BY <1>0, SubSeqProperties
<1>3. <<e>> \in Seq(S) /\ Len(<<e>>) = 1 /\ <<e>>[1] = e
  OBVIOUS
<1> HIDE DEF head, tail
<1>4. /\ front \in Seq(S) /\ Len(front) = i
      /\ \A j \in 1..i : front[j] = IF j < i THEN s[j] ELSE e
  <2>1. /\ front \in Seq(S) /\ Len(front) = Len(head) + Len(<<e>>)
        /\ \A j \in 1..(Len(head) + Len(<<e>>)) :
               front[j] = IF j <= Len(head) THEN head[j] ELSE <<e>>[j - Len(head)]
    BY <1>1, <1>3, ConcatProperties
  <2> HIDE DEF front
  <2>2. Len(front) = i
    BY <1>0, <1>1, <1>3, <2>1
  <2>3. ASSUME NEW j \in 1..i PROVE front[j] = IF j < i THEN s[j] ELSE e
    <3>1. CASE j < i
      <4>1. j \in 1..(i - 1) /\ j <= Len(head) /\ j \in 1..(Len(head) + Len(<<e>>))
        BY <1>0, <1>1, <1>3, <3>1
      <4> QED
        BY <1>1, <2>1, <3>1, <4>1
    <3>2. CASE j = i
      <4>1. ~(j <= Len(head)) /\ j - Len(head) = 1 /\ j \in 1..(Len(head) + Len(<<e>>))
        BY <1>0, <1>1, <1>3, <3>2
      <4> QED
        BY <1>3, <2>1, <3>2, <4>1
    <3> QED
      BY <3>1, <3>2
  <2> QED
    BY <2>1, <2>2, <2>3
<1> HIDE DEF front
<1> DEFINE new == front \o tail
<1>5. /\ new \in Seq(S) /\ Len(new) = Len(front) + Len(tail)
      /\ \A j \in 1..(Len(front) + Len(tail)) :
             new[j] = IF j <= Len(front) THEN front[j] ELSE tail[j - Len(front)]
  BY <1>2, <1>4, ConcatProperties
<1> HIDE DEF new
<1>6. Len(new) = Len(s) + 1
  BY <1>0, <1>2, <1>4, <1>5
<1>7. ASSUME NEW j \in 1..Len(new)
      PROVE  new[j] = IF j < i THEN s[j] ELSE IF j = i THEN e ELSE s[j - 1]
  <2>1. CASE j <= i
    <3>1. j \in 1..i /\ j <= Len(front)
      BY <1>4, <2>1
    <3> QED
      BY <1>4, <1>5, <2>1, <3>1
  <2>2. CASE j > i
    <3>1. ~(j <= Len(front)) /\ j - Len(front) \in 1..(Len(s) - i + 1) /\ i + (j - Len(front)) - 1 = j - 1
      BY <1>0, <1>4, <1>6, <2>2
    <3>2. new[j] = tail[j - Len(front)]
      BY <1>5, <3>1
    <3>3. tail[j - Len(front)] = s[i + (j - Len(front)) - 1]
      BY <1>2, <3>1
    <3>4. ~(j < i) /\ j # i
      BY <2>2
    <3> QED
      BY <3>1, <3>2, <3>3, <3>4
  <2> QED
    BY <2>1, <2>2
<1>8. InsertAt(s, i, e) = new
  BY DEF InsertAt, new, front, head, tail
<1>9. With(new, s, i, e)
  BY <1>6, <1>7 DEF With
<1> QED
  BY <1>5, <1>8, <1>9

(* Characters of one client are told apart by their positions alone.         *)
LEMMA ComparedCharacters ==
    ASSUME NEW v, NEW w, Place(v) \in Seq(Nat), Place(w) \in Seq(Nat),
           v.creator \in Nat, v.creator = w.creator
    PROVE  /\ compare(v, w) = 1 => Before(Place(w), Place(v))
           /\ compare(v, w) = -1 => Before(Place(v), Place(w))
<1> DEFINE order == ComparePositions(Place(v), Place(w))
<1>1. /\ order = -1 <=> Before(Place(v), Place(w))
      /\ order = 1 <=> Before(Place(w), Place(v))
  BY ComparedByPlace
<1>2. CASE order # 0
  <2>1. compare(v, w) = order
    BY <1>2 DEF compare, Place
  <2> QED
    BY <1>1, <2>1
<1>3. CASE order = 0
  <2>1. compare(v, w) = IF v.c = w.c THEN 0 ELSE -2
    BY <1>3 DEF compare, Place
  <2> QED
    BY <2>1
<1> QED
  BY <1>2, <1>3

-----------------------------------------------------------------------------
(* Adding and removing.                                                      *)

LEMMA addCharKeepsText ==
    ASSUME NEW S, NEW me \in Nat, NEW root, IsRoot(root),
           NEW t \in Text(S, me, root), NEW char \in Typed(S, me)
    PROVE  /\ addChar(t, char) \in Text(S, me, root)
           /\ Sorted(t) => Sorted(addChar(t, char))
<1> DEFINE stop == {i \in 2..Len(t) : compare(char, t[i]) # 1}
           Chars == {root} \cup Typed(S, me)
<1>1. /\ Len(t) \in Nat /\ Len(t) >= 1 /\ t[1] = root
      /\ \A i \in 1..Len(t) : Place(t[i]) \in Seq(Nat)
      /\ \A i \in 2..Len(t) : t[i].creator = me
  BY PlacesOfText
<1>2. Place(char) \in Seq(Nat) /\ EndsAboveZero(Place(char)) /\ char.creator = me
  BY PlaceOfTyped
<1>3. t \in Seq(Chars) /\ char \in Chars
  BY DEF Text
<1>4. \A i \in 2..Len(t) : /\ compare(char, t[i]) = 1 => Before(Place(t[i]), Place(char))
                           /\ compare(char, t[i]) = -1 => Before(Place(char), Place(t[i]))
  <2> TAKE i \in 2..Len(t)
  <2>1. i \in 1..Len(t)
    OBVIOUS
  <2> QED
    BY <1>1, <1>2, <2>1, ComparedCharacters
<1>5. Before(Place(t[1]), Place(char))
  BY <1>1, <1>2, AfterInvisible DEF IsRoot
<1>6. CASE stop = {}
  <2> DEFINE new == Append(t, char)
             i == Len(t) + 1
  <2>1. addChar(t, char) = new
    BY <1>6 DEF addChar
  <2>2. i \in 2..(Len(t) + 1) /\ i - 1 \in 1..Len(t)
    BY <1>1
  <2>3. new \in Seq(Chars) /\ Len(new) = Len(t) + 1
    BY <1>3
  <2>4. With(new, t, i, char)
    <3>1. \A j \in 1..Len(new) : new[j] = IF j < i THEN t[j] ELSE IF j = i THEN char ELSE t[j - 1]
      BY <1>1, <1>3
    <3> QED
      BY <2>3, <3>1 DEF With
  <2>5. Before(Place(t[Len(t)]), Place(char)) /\ i - 1 = Len(t)
    <3>1. CASE Len(t) = 1
      BY <1>5, <3>1
    <3>2. CASE Len(t) # 1
      <4>0. Len(t) \in Nat /\ Len(t) >= 1
        BY <1>1
      <4> DEFINE last == Len(t)
      <4>1. last \in Nat /\ last >= 1 /\ last # 1
        BY <3>2, <4>0
      <4> HIDE DEF last
      <4>2. last \in 2..last
        BY <4>1
      <4>3. compare(char, t[Len(t)]) = 1
        BY <1>6, <4>2 DEF last
      <4>4. Before(Place(t[Len(t)]), Place(char))
        BY <1>4, <4>2, <4>3 DEF last
      <4> QED
        BY <1>1, <4>4
    <3> QED
      BY <1>1, <3>1, <3>2
  <2>6. ~(i <= Len(t))
    BY <1>1
  <2> HIDE DEF new, i
  <2>7. new \in Text(S, me, root)
    BY <2>2, <2>3, <2>4, OneMoreIsText
  <2>8. Sorted(t) => Sorted(new)
    BY <2>2, <2>3, <2>4, <2>5, <2>6, OneMoreIsSorted
  <2> QED
    BY <2>1, <2>7, <2>8
<1>7. CASE stop # {}
  <2> DEFINE i == CHOOSE k \in stop : \A j \in stop : k <= j
  <2>1. stop \in SUBSET Nat
    OBVIOUS
  <2>2. \E m \in stop : \A j \in stop : m <= j
    <3> HIDE DEF stop
    <3> QED
      BY <1>7, <2>1, LeastNumber
  <2>3. i \in stop /\ \A j \in stop : i <= j
    <3> HIDE DEF stop
    <3> QED
      BY <2>2
  <2>4. addChar(t, char) = IF compare(char, t[i]) = -1 THEN InsertAt(t, i, char) ELSE t
    BY <1>7 DEF addChar
  <2> HIDE DEF i
  <2>5. i \in 2..Len(t) /\ i \in 2..(Len(t) + 1) /\ i \in 1..(Len(t) + 1) /\ i - 1 \in 1..Len(t)
    BY <1>1, <2>3
  <2>6. \A j \in 2..(i - 1) : compare(char, t[j]) = 1
    BY <1>1, <2>3, <2>5
  <2>7. CASE compare(char, t[i]) = -1
    <3> DEFINE new == InsertAt(t, i, char)
    <3>1. new \in Seq(Chars) /\ With(new, t, i, char)
      <4> HIDE DEF Chars
      <4>1. i \in 1..(Len(t) + 1)
        BY <2>5
      <4> QED
        BY <1>3, <4>1, Inserted
    <3>2. Before(Place(t[i - 1]), Place(char))
      <4>1. CASE i - 1 = 1
        BY <1>5, <4>1
      <4>2. CASE i - 1 # 1
        <5>1. i - 1 \in 2..(i - 1) /\ i - 1 \in 2..Len(t)
          BY <2>5, <4>2
        <5> QED
          BY <1>4, <2>6, <5>1
      <4> QED
        BY <4>1, <4>2
    <3>3. Before(Place(char), Place(t[i]))
      BY <1>4, <2>5, <2>7
    <3> HIDE DEF new
    <3>4. new \in Text(S, me, root)
      BY <2>5, <3>1, OneMoreIsText
    <3>5. Sorted(t) => Sorted(new)
      BY <2>5, <3>1, <3>2, <3>3, OneMoreIsSorted
    <3> QED
      BY <2>4, <2>7, <3>4, <3>5 DEF new
  <2>8. CASE compare(char, t[i]) # -1
    BY <2>4, <2>8
  <2> QED
    BY <2>7, <2>8
<1> QED
  BY <1>6, <1>7

(* Leaving characters out, whichever but the first.  places says where those *)
(* that are left come from.                                                  *)
LEMMA FewerKeepText ==
    ASSUME NEW S, NEW me, NEW root, IsRoot(root), NEW t \in Text(S, me, root),
           NEW new \in Seq({root} \cup Typed(S, me)), Len(new) >= 1,
           NEW places \in [1..Len(new) -> 1..Len(t)], places[1] = 1,
           \A j, k \in 1..Len(new) : j < k => places[j] < places[k],
           \A j \in 1..Len(new) : new[j] = t[places[j]]
    PROVE  /\ new \in Text(S, me, root)
           /\ Sorted(t) => Sorted(new)
<1>1. /\ t[1] = root /\ \A j \in 2..Len(t) : t[j] \in Typed(S, me)
      /\ Len(t) \in Nat /\ Len(new) \in Nat
  BY DEF Text
<1>2. new[1] = root /\ new # <<>>
  BY <1>1, EmptySeq
<1>3. \A j \in 2..Len(new) : new[j] \in Typed(S, me)
  <2> TAKE j \in 2..Len(new)
  <2>1. 1 \in 1..Len(new) /\ j \in 1..Len(new) /\ 1 < j
    BY <1>1
  <2>2. places[j] \in 2..Len(t)
    BY <1>1, <2>1
  <2> QED
    BY <1>1, <2>1, <2>2
<1>4. Sorted(t) => Sorted(new)
  BY DEF Sorted
<1> QED
  BY <1>2, <1>3, <1>4 DEF Text

(* The passes of removeChar.                                                 *)
RemoveCharPasses(Chars, t, char) ==
    \E passed \in [0..Len(t) -> [kept : Seq(Chars), skips : BOOLEAN]] :
        /\ removeChar(t, char) = passed[Len(t)].kept
        /\ passed[0] = [kept |-> <<>>, skips |-> TRUE]
        /\ \A i \in 1..Len(t) :
               passed[i] =
                   IF ~passed[i - 1].skips /\ compare(char, t[i]) = 0
                   THEN [kept |-> passed[i - 1].kept, skips |-> TRUE]
                   ELSE [kept |-> Append(passed[i - 1].kept, t[i]), skips |-> FALSE]

LEMMA removeCharRuns ==
    ASSUME NEW Chars, NEW t \in Seq(Chars), NEW char
    PROVE  RemoveCharPasses(Chars, t, char)
<1> DEFINE T == [kept : Seq(Chars), skips : BOOLEAN]
           first == [kept |-> <<>>, skips |-> TRUE]
           Step(i, x) == IF ~x.skips /\ compare(char, t[i]) = 0
                         THEN [kept |-> x.kept, skips |-> TRUE]
                         ELSE [kept |-> Append(x.kept, t[i]), skips |-> FALSE]
           F == [i \in 1..Len(t) |-> [x \in T |-> Step(i, x)]]
           passed == CHOOSE passed : passed = [i \in 0..Len(t) |->
                         IF i = 0 THEN [kept |-> <<>>, skips |-> TRUE]
                         ELSE IF ~passed[i - 1].skips /\ compare(char, t[i]) = 0
                              THEN [kept |-> passed[i - 1].kept, skips |-> TRUE]
                              ELSE [kept |-> Append(passed[i - 1].kept, t[i]), skips |-> FALSE]]
<1>1. removeChar(t, char) = passed[Len(t)].kept
  BY DEF removeChar
<1>2. Len(t) \in Nat /\ \A i \in 1..Len(t) : t[i] \in Chars
  OBVIOUS
<1>3. first \in T
  BY EmptySeq
<1>4. \A i \in 1..Len(t), x \in T : Step(i, x) \in T
  <2> TAKE i \in 1..Len(t), x \in T
  <2>1. x.kept \in Seq(Chars) /\ t[i] \in Chars
    BY <1>2
  <2>2. Append(x.kept, t[i]) \in Seq(Chars)
    BY <2>1
  <2> QED
    BY <2>1, <2>2
<1> HIDE DEF T, first, Step
<1>5. F \in [1..Len(t) -> [T -> T]]
  BY <1>4
<1>6. \A i \in 1..Len(t), x \in T : F[i][x] = Step(i, x)
  OBVIOUS
<1> HIDE DEF F
<1>7. PICK g \in [0..Len(t) -> T] : g[0] = first /\ \A i \in 1..Len(t) : g[i] = F[i][g[i - 1]]
  <2>1. Runs(T, Len(t), first, F)
    BY <1>2, <1>3, <1>5, LoopRuns
  <2> QED
    BY <2>1 DEF Runs
<1>8. \A i \in 1..Len(t) : g[i] = Step(i, g[i - 1])
  <2> TAKE i \in 1..Len(t)
  <2>1. i - 1 \in 0..Len(t)
    BY <1>2
  <2>2. g[i - 1] \in T
    BY <2>1
  <2> QED
    BY <1>6, <1>7, <2>2
<1>9. g = [i \in 0..Len(t) |-> IF i = 0 THEN first ELSE Step(i, g[i - 1])]
  <2> DEFINE f == [i \in 0..Len(t) |-> IF i = 0 THEN first ELSE Step(i, g[i - 1])]
  <2>1. \A i \in 0..Len(t) : g[i] = f[i]
    <3> TAKE i \in 0..Len(t)
    <3>1. CASE i = 0
      BY <1>7, <3>1
    <3>2. CASE i # 0
      <4>1. i \in 1..Len(t)
        BY <1>2, <3>2
      <4> QED
        BY <1>8, <3>2, <4>1
    <3> QED
      BY <3>1, <3>2
  <2>2. g = [i \in 0..Len(t) |-> g[i]]
    OBVIOUS
  <2> QED
    BY <2>1, <2>2
<1>10. passed = [i \in 0..Len(t) |-> IF i = 0 THEN first ELSE Step(i, passed[i - 1])]
  BY <1>9 DEF first, Step
<1> HIDE DEF passed
<1> DEFINE Good == {i \in 0..Len(t) : \A j \in 0..i : passed[j] \in T}
<1>11. 0 \in Good
  <2>1. passed[0] = first /\ 0 \in 0..Len(t) /\ \A j \in 0..0 : j = 0
    BY <1>2, <1>10
  <2> QED
    BY <1>3, <2>1
<1>12. ASSUME NEW i \in 1..Len(t), i - 1 \in Good PROVE i \in Good
  <2>1. i \in 0..Len(t) /\ i - 1 \in 0..(i - 1) /\ i # 0
    BY <1>2
  <2>2. passed[i - 1] \in T
    BY <1>12, <2>1
  <2>3. passed[i] = Step(i, passed[i - 1])
    BY <1>10, <2>1
  <2>4. passed[i] \in T
    BY <1>4, <2>2, <2>3
  <2>5. \A j \in 0..i : j = i \/ j \in 0..(i - 1)
    BY <2>1
  <2>6. \A j \in 0..i : passed[j] \in T
    BY <1>12, <2>4, <2>5
  <2> QED
    BY <2>1, <2>6
<1>13. Len(t) \in Good
  <2> HIDE DEF Good
  <2> QED
    BY <1>2, <1>11, <1>12, LoopKeeps
<1>14. passed \in [0..Len(t) -> T]
  BY <1>10, <1>13
<1>15. /\ passed[0] = first
       /\ \A i \in 1..Len(t) : passed[i] = Step(i, passed[i - 1])
  <2>1. passed[0] = first
    BY <1>2, <1>10
  <2>2. ASSUME NEW i \in 1..Len(t) PROVE passed[i] = Step(i, passed[i - 1])
    <3>1. i \in 0..Len(t) /\ i # 0
      BY <1>2
    <3> QED
      BY <1>10, <3>1
  <2> QED
    BY <2>1, <2>2
<1> QED
  BY <1>1, <1>14, <1>15 DEF T, first, Step, RemoveCharPasses

(* removeChar leaves characters out, never the first.                        *)
LEMMA removeCharKeepsText ==
    ASSUME NEW S, NEW me, NEW root, IsRoot(root), NEW t \in Text(S, me, root), NEW char
    PROVE  /\ removeChar(t, char) \in Text(S, me, root)
           /\ Sorted(t) => Sorted(removeChar(t, char))
<1> DEFINE Chars == {root} \cup Typed(S, me)
<1>1. t \in Seq(Chars) /\ Len(t) \in Nat /\ Len(t) >= 1
  BY PlacesOfText DEF Text
<1> HIDE DEF Chars
<1>2. PICK passed \in [0..Len(t) -> [kept : Seq(Chars), skips : BOOLEAN]] :
               /\ removeChar(t, char) = passed[Len(t)].kept
               /\ passed[0] = [kept |-> <<>>, skips |-> TRUE]
               /\ \A i \in 1..Len(t) :
                      passed[i] =
                          IF ~passed[i - 1].skips /\ compare(char, t[i]) = 0
                          THEN [kept |-> passed[i - 1].kept, skips |-> TRUE]
                          ELSE [kept |-> Append(passed[i - 1].kept, t[i]), skips |-> FALSE]
  <2>1. RemoveCharPasses(Chars, t, char)
    BY <1>1, removeCharRuns
  <2> QED
    BY <2>1 DEF RemoveCharPasses
<1> DEFINE From(i, kept, places) ==
               /\ \A j, k \in 1..Len(kept) : j < k => places[j] < places[k]
               /\ \A j \in 1..Len(kept) : kept[j] = t[places[j]]
               /\ i >= 1 => Len(kept) >= 1 /\ places[1] = 1
           IsPart(i) == \E places \in [1..Len(passed[i].kept) -> 1..i] :
                            From(i, passed[i].kept, places)
           Good == {i \in 0..Len(t) : IsPart(i)}
<1>3. \A i \in 0..Len(t) : passed[i].kept \in Seq(Chars) /\ Len(passed[i].kept) \in Nat
  <2> TAKE i \in 0..Len(t)
  <2>1. passed[i] \in [kept : Seq(Chars), skips : BOOLEAN]
    OBVIOUS
  <2>2. passed[i].kept \in Seq(Chars)
    BY <2>1
  <2> QED
    BY <2>2
<1>4. 0 \in Good
  <2>1. passed[0].kept = <<>> /\ Len(<<>>) = 0 /\ 1..0 = {}
    BY <1>2
  <2> DEFINE places == [j \in 1..0 |-> 1]
  <2>2. places \in [1..Len(passed[0].kept) -> 1..0]
    BY <2>1
  <2>3. From(0, passed[0].kept, places)
    BY <2>1
  <2> HIDE DEF places, From
  <2>4. IsPart(0)
    BY <2>2, <2>3
  <2>5. 0 \in 0..Len(t)
    BY <1>1
  <2> HIDE DEF IsPart
  <2> QED
    BY <2>4, <2>5
<1>5. ASSUME NEW i \in 1..Len(t), i - 1 \in Good PROVE i \in Good
  <2> DEFINE old == passed[i - 1].kept
             new == passed[i].kept
  <2>1. i - 1 \in 0..Len(t) /\ i \in 0..Len(t) /\ i - 1 >= 0 /\ i \in Nat
    BY <1>1
  <2>2. IsPart(i - 1)
    BY <1>5
  <2>3. PICK places \in [1..Len(old) -> 1..(i - 1)] : From(i - 1, old, places)
    BY <2>2
  <2>4. old \in Seq(Chars) /\ Len(old) \in Nat /\ t[i] \in Chars
    BY <1>1, <1>3, <2>1
  <2>5. passed[i] = IF ~passed[i - 1].skips /\ compare(char, t[i]) = 0
                    THEN [kept |-> passed[i - 1].kept, skips |-> TRUE]
                    ELSE [kept |-> Append(passed[i - 1].kept, t[i]), skips |-> FALSE]
    BY <1>2
  <2>6. CASE ~passed[i - 1].skips /\ compare(char, t[i]) = 0
    <3>1. new = old
      BY <2>5, <2>6
    <3>2. i - 1 # 0
      BY <1>2, <2>6
    <3>3. places \in [1..Len(new) -> 1..i]
      BY <2>1, <2>3, <3>1
    <3>4. From(i, new, places)
      BY <2>1, <2>3, <3>1, <3>2
    <3> HIDE DEF From
    <3>5. IsPart(i)
      BY <3>3, <3>4
    <3> HIDE DEF IsPart
    <3> QED
      BY <2>1, <3>5
  <2>7. CASE ~(~passed[i - 1].skips /\ compare(char, t[i]) = 0)
    <3>1. new = Append(old, t[i])
      BY <2>5, <2>7
    <3> DEFINE more == [j \in 1..(Len(old) + 1) |-> IF j = Len(old) + 1 THEN i ELSE places[j]]
    <3> HIDE DEF old, new
    <3>2. /\ Len(new) = Len(old) + 1
          /\ \A j \in 1..Len(old) : new[j] = old[j]
          /\ new[Len(old) + 1] = t[i]
      BY <2>4, <3>1
    <3>3. /\ more[Len(old) + 1] = i
          /\ \A j \in 1..Len(old) : more[j] = places[j] /\ places[j] \in 1..(i - 1)
      BY <2>3, <2>4
    <3>4. more \in [1..Len(new) -> 1..i]
      <4>1. \A j \in 1..(Len(old) + 1) : j = Len(old) + 1 \/ j \in 1..Len(old)
        BY <2>4
      <4>2. \A j \in 1..(Len(old) + 1) : more[j] \in 1..i
        BY <2>1, <3>3, <4>1
      <4> QED
        BY <3>2, <4>2
    <3> HIDE DEF more
    <3>5. \A j \in 1..Len(new) : j = Len(old) + 1 \/ j \in 1..Len(old)
      BY <2>4, <3>2
    <3>6. \A j, k \in 1..Len(new) : j < k => more[j] < more[k]
      <4> SUFFICES ASSUME NEW j \in 1..Len(new), NEW k \in 1..Len(new), j < k
                   PROVE  more[j] < more[k]
        OBVIOUS
      <4>1. j \in 1..Len(old)
        BY <2>4, <3>2, <3>5
      <4>2. CASE k = Len(old) + 1
        BY <2>1, <3>3, <4>1, <4>2
      <4>3. CASE k \in 1..Len(old)
        BY <2>3, <3>3, <4>1, <4>3
      <4> QED
        BY <3>5, <4>2, <4>3
    <3>7. \A j \in 1..Len(new) : new[j] = t[more[j]]
      <4> TAKE j \in 1..Len(new)
      <4>1. CASE j = Len(old) + 1
        BY <3>2, <3>3, <4>1
      <4>2. CASE j \in 1..Len(old)
        BY <2>3, <3>2, <3>3, <4>2
      <4> QED
        BY <3>5, <4>1, <4>2
    <3>8. Len(new) >= 1 /\ more[1] = 1
      <4>1. CASE i - 1 >= 1
        <5>1. Len(old) >= 1 /\ places[1] = 1
          BY <2>3, <4>1
        <5> QED
          BY <2>4, <3>2, <3>3, <5>1
      <4>2. CASE i = 1
        <5>1. Len(old) = 0
          BY <1>2, <4>2 DEF old
        <5> QED
          BY <3>2, <3>3, <4>2, <5>1
      <4> QED
        BY <2>1, <4>1, <4>2
    <3>9. From(i, new, more)
      BY <3>6, <3>7, <3>8
    <3> HIDE DEF From
    <3>10. IsPart(i)
      BY <3>4, <3>9 DEF new
    <3> HIDE DEF IsPart
    <3> QED
      BY <2>1, <3>10
  <2> QED
    BY <2>6, <2>7
<1>6. Len(t) \in Good
  <2> HIDE DEF Good
  <2> QED
    BY <1>1, <1>4, <1>5, LoopKeeps
<1> DEFINE new == passed[Len(t)].kept
<1>7. PICK places \in [1..Len(new) -> 1..Len(t)] : From(Len(t), new, places)
  BY <1>6
<1>8. new \in Seq(Chars)
  BY <1>1, <1>3
<1>9. removeChar(t, char) = new
  BY <1>2
<1> HIDE DEF new
<1> QED
  BY <1>1, <1>7, <1>8, <1>9, FewerKeepText DEF Chars

-----------------------------------------------------------------------------
(* Characters received.                                                      *)

(* A text has finitely many objects, so that there is a number for another.  *)
LEMMA FreshIsNumber ==
    ASSUME NEW t, Len(t) \in Nat, DOMAIN t = 1..Len(t),
           \A i \in 1..Len(t) : t[i].position \in Position
    PROVE  Fresh(t) \in Nat
<1> DEFINE Boxes(i) == {t[i].position[k].box : k \in DOMAIN t[i].position}
           First(n) == UNION {Boxes(i) : i \in 1..n}
           Good == {n \in 0..Len(t) : IsFiniteSet(First(n))}
           inUse == UNION {Boxes(i) : i \in DOMAIN t}
<1>1. ASSUME NEW i \in 1..Len(t) PROVE IsFiniteSet(Boxes(i))
  <2> DEFINE p == t[i].position
             f == [k \in DOMAIN p |-> p[k].box]
  <2>1. p \in Position
    OBVIOUS
  <2>2. Len(p) \in Nat /\ DOMAIN p = 1..Len(p)
    BY <2>1 DEF Position
  <2>3. IsFiniteSet(DOMAIN p)
    <3> DEFINE n == Len(p)
    <3>1. n \in Int /\ DOMAIN p = 1..n
      BY <2>2
    <3> HIDE DEF n, p
    <3>2. IsFiniteSet(1..n)
      BY <3>1, FS_Interval
    <3> QED
      BY <3>1, <3>2
  <2>4. f \in Surjection(DOMAIN p, Boxes(i))
    BY DEF Surjection
  <2> HIDE DEF f, p
  <2> QED
    BY <2>3, <2>4, FS_Surjection
<1>2. 0 \in Good
  <2>1. First(0) = {}
    OBVIOUS
  <2>2. IsFiniteSet({})
    BY FS_EmptySet
  <2>3. 0 \in 0..Len(t)
    OBVIOUS
  <2> HIDE DEF First
  <2> QED
    BY <2>1, <2>2, <2>3
<1>3. ASSUME NEW n \in 1..Len(t), n - 1 \in Good PROVE n \in Good
  <2>1. First(n) = (First(n - 1)) \cup Boxes(n)
    <3>1. \A i : i \in 1..n <=> i = n \/ i \in 1..(n - 1)
      OBVIOUS
    <3> HIDE DEF Boxes
    <3> QED
      BY <3>1
  <2> HIDE DEF First, Boxes
  <2>2. IsFiniteSet(First(n - 1)) /\ IsFiniteSet(Boxes(n))
    BY <1>1, <1>3
  <2>3. IsFiniteSet(First(n))
    <3> DEFINE A == First(n - 1)
               B == Boxes(n)
    <3>1. IsFiniteSet(A) /\ IsFiniteSet(B)
      BY <2>2
    <3> HIDE DEF A, B
    <3>2. IsFiniteSet(A \cup B)
      BY <3>1, FS_Union
    <3> QED
      BY <2>1, <3>2 DEF A, B
  <2> QED
    BY <2>3
<1>4. Len(t) \in Good
  <2> HIDE DEF Good
  <2> QED
    BY <1>2, <1>3, LoopKeeps
<1>5. IsFiniteSet(inUse)
  BY <1>4
<1> HIDE DEF inUse, First, Good
<1> DEFINE C == Cardinality(inUse)
<1>6. C \in Nat
  BY <1>5, FS_CardinalityType
<1>7. \E box \in 1..(C + 1) : box \notin inUse
  <2> SUFFICES ASSUME 1..(C + 1) \subseteq inUse PROVE FALSE
    OBVIOUS
  <2>1. Cardinality(1..(C + 1)) <= C
    BY <1>5, FS_Subset
  <2>2. Cardinality(1..(C + 1)) = C + 1
    BY <1>6, FS_Interval
  <2> QED
    BY <1>6, <2>1, <2>2
<1>8. Fresh(t) = CHOOSE box \in 1..(C + 1) : box \notin inUse
  BY DEF Fresh, inUse
<1> HIDE DEF C
<1>9. Fresh(t) \in 1..(C + 1)
  BY <1>7, <1>8
<1> QED
  BY <1>6, <1>9

(* Additions and removals happen one after the other; what each keeps, all   *)
(* of them keep.                                                             *)
AddAllPasses(T, text, added, me) ==
    \E runs \in [0..Len(added) -> T] :
        /\ AddAll(text, added, me) = runs[Len(added)]
        /\ runs[0] = text
        /\ \A i \in 1..Len(added) :
               runs[i] = addChar(runs[i - 1], toCharacter(added[i], me, Fresh(runs[i - 1])))

LEMMA AddAllRuns ==
    ASSUME NEW T, NEW text \in T, NEW me, NEW added, Len(added) \in Nat,
           \A i \in 1..Len(added), x \in T :
               addChar(x, toCharacter(added[i], me, Fresh(x))) \in T
    PROVE  AddAllPasses(T, text, added, me)
<1> DEFINE n == Len(added)
           Step(i, x) == addChar(x, toCharacter(added[i], me, Fresh(x)))
           F == [i \in 1..n |-> [x \in T |-> Step(i, x)]]
           after == CHOOSE after : after = [i \in 0..n |->
                        IF i = 0 THEN text
                        ELSE addChar(after[i - 1], toCharacter(added[i], me, Fresh(after[i - 1])))]
<1>1. AddAll(text, added, me) = after[n]
  BY DEF AddAll
<1>2. n \in Nat /\ \A i \in 1..n, x \in T : Step(i, x) \in T
  OBVIOUS
<1> HIDE DEF Step, n
<1>3. F \in [1..n -> [T -> T]] /\ \A i \in 1..n, x \in T : F[i][x] = Step(i, x)
  BY <1>2
<1> HIDE DEF F
<1>4. PICK g \in [0..n -> T] : g[0] = text /\ \A i \in 1..n : g[i] = F[i][g[i - 1]]
  <2>1. Runs(T, n, text, F)
    BY <1>2, <1>3, LoopRuns
  <2> QED
    BY <2>1 DEF Runs
<1>5. g = [i \in 0..n |-> IF i = 0 THEN text ELSE Step(i, g[i - 1])]
  <2> DEFINE f == [i \in 0..n |-> IF i = 0 THEN text ELSE Step(i, g[i - 1])]
  <2>1. ASSUME NEW i \in 0..n PROVE g[i] = f[i]
    <3>1. CASE i = 0
      BY <1>4, <3>1
    <3>2. CASE i # 0
      <4>1. i \in 1..n /\ i - 1 \in 0..n
        BY <1>2, <3>2
      <4>2. g[i - 1] \in T
        BY <4>1
      <4> QED
        BY <1>3, <1>4, <3>2, <4>1, <4>2
    <3> QED
      BY <3>1, <3>2
  <2>2. g = [i \in 0..n |-> g[i]]
    OBVIOUS
  <2> QED
    BY <2>1, <2>2
<1>6. after = [i \in 0..n |-> IF i = 0 THEN text ELSE Step(i, after[i - 1])]
  BY <1>5 DEF Step
<1> HIDE DEF after
<1> DEFINE Good == {i \in 0..n : after[i] = g[i]}
<1>7. 0 \in Good
  BY <1>2, <1>4, <1>6
<1>8. ASSUME NEW i \in 1..n, i - 1 \in Good PROVE i \in Good
  <2>1. i \in 0..n /\ i # 0 /\ i - 1 \in 0..n
    BY <1>2
  <2>2. after[i] = Step(i, after[i - 1])
    BY <1>6, <2>1
  <2>3. g[i] = Step(i, g[i - 1])
    BY <1>3, <1>4, <2>1
  <2> QED
    BY <1>8, <2>1, <2>2, <2>3
<1>9. n \in Good
  <2> HIDE DEF Good
  <2> QED
    BY <1>2, <1>7, <1>8, LoopKeeps
<1>10. \A i \in 1..n : g[i] = Step(i, g[i - 1])
  <2> TAKE i \in 1..n
  <2>1. i - 1 \in 0..n
    BY <1>2
  <2> QED
    BY <1>3, <1>4, <2>1
<1> QED
  BY <1>1, <1>4, <1>9, <1>10 DEF Step, n, AddAllPasses

LEMMA AddAllEndsIn ==
    ASSUME NEW T, NEW text \in T, NEW me, NEW added, Len(added) \in Nat,
           \A i \in 1..Len(added), x \in T :
               addChar(x, toCharacter(added[i], me, Fresh(x))) \in T
    PROVE  AddAll(text, added, me) \in T
<1>1. AddAllPasses(T, text, added, me)
  BY AddAllRuns
<1> QED
  BY <1>1 DEF AddAllPasses

RemoveAllPasses(T, text, deleted, me) ==
    \E runs \in [0..Len(deleted) -> T] :
        /\ RemoveAll(text, deleted, me) = runs[Len(deleted)]
        /\ runs[0] = text
        /\ \A i \in 1..Len(deleted) :
               runs[i] = removeChar(runs[i - 1], toCharacter(deleted[i], me, 0))

LEMMA RemoveAllRuns ==
    ASSUME NEW T, NEW text \in T, NEW me, NEW deleted, Len(deleted) \in Nat,
           \A i \in 1..Len(deleted), x \in T :
               removeChar(x, toCharacter(deleted[i], me, 0)) \in T
    PROVE  RemoveAllPasses(T, text, deleted, me)
<1> DEFINE n == Len(deleted)
           Step(i, x) == removeChar(x, toCharacter(deleted[i], me, 0))
           F == [i \in 1..n |-> [x \in T |-> Step(i, x)]]
           after == CHOOSE after : after = [i \in 0..n |->
                        IF i = 0 THEN text
                        ELSE removeChar(after[i - 1], toCharacter(deleted[i], me, 0))]
<1>1. RemoveAll(text, deleted, me) = after[n]
  BY DEF RemoveAll
<1>2. n \in Nat /\ \A i \in 1..n, x \in T : Step(i, x) \in T
  OBVIOUS
<1> HIDE DEF Step, n
<1>3. F \in [1..n -> [T -> T]] /\ \A i \in 1..n, x \in T : F[i][x] = Step(i, x)
  BY <1>2
<1> HIDE DEF F
<1>4. PICK g \in [0..n -> T] : g[0] = text /\ \A i \in 1..n : g[i] = F[i][g[i - 1]]
  <2>1. Runs(T, n, text, F)
    BY <1>2, <1>3, LoopRuns
  <2> QED
    BY <2>1 DEF Runs
<1>5. g = [i \in 0..n |-> IF i = 0 THEN text ELSE Step(i, g[i - 1])]
  <2> DEFINE f == [i \in 0..n |-> IF i = 0 THEN text ELSE Step(i, g[i - 1])]
  <2>1. ASSUME NEW i \in 0..n PROVE g[i] = f[i]
    <3>1. CASE i = 0
      BY <1>4, <3>1
    <3>2. CASE i # 0
      <4>1. i \in 1..n /\ i - 1 \in 0..n
        BY <1>2, <3>2
      <4>2. g[i - 1] \in T
        BY <4>1
      <4> QED
        BY <1>3, <1>4, <3>2, <4>1, <4>2
    <3> QED
      BY <3>1, <3>2
  <2>2. g = [i \in 0..n |-> g[i]]
    OBVIOUS
  <2> QED
    BY <2>1, <2>2
<1>6. after = [i \in 0..n |-> IF i = 0 THEN text ELSE Step(i, after[i - 1])]
  BY <1>5 DEF Step
<1> HIDE DEF after
<1> DEFINE Good == {i \in 0..n : after[i] = g[i]}
<1>7. 0 \in Good
  BY <1>2, <1>4, <1>6
<1>8. ASSUME NEW i \in 1..n, i - 1 \in Good PROVE i \in Good
  <2>1. i \in 0..n /\ i # 0 /\ i - 1 \in 0..n
    BY <1>2
  <2>2. after[i] = Step(i, after[i - 1])
    BY <1>6, <2>1
  <2>3. g[i] = Step(i, g[i - 1])
    BY <1>3, <1>4, <2>1
  <2> QED
    BY <1>8, <2>1, <2>2, <2>3
<1>9. n \in Good
  <2> HIDE DEF Good
  <2> QED
    BY <1>2, <1>7, <1>8, LoopKeeps
<1>10. \A i \in 1..n : g[i] = Step(i, g[i - 1])
  <2> TAKE i \in 1..n
  <2>1. i - 1 \in 0..n
    BY <1>2
  <2> QED
    BY <1>3, <1>4, <2>1
<1> QED
  BY <1>1, <1>4, <1>9, <1>10 DEF Step, n, RemoveAllPasses

LEMMA RemoveAllEndsIn ==
    ASSUME NEW T, NEW text \in T, NEW me, NEW deleted, Len(deleted) \in Nat,
           \A i \in 1..Len(deleted), x \in T :
               removeChar(x, toCharacter(deleted[i], me, 0)) \in T
    PROVE  RemoveAll(text, deleted, me) \in T
<1>1. RemoveAllPasses(T, text, deleted, me)
  BY RemoveAllRuns
<1> QED
  BY <1>1 DEF RemoveAllPasses

(* What is left of a note is some of what was added.                         *)
LEMMA LeftRuns ==
    ASSUME NEW W, NEW note, note.added \in Seq(W)
    PROVE  \E left \in [0..Len(note.added) -> Seq(W)] :
               /\ Left(note) = left[Len(note.added)]
               /\ left[0] = <<>>
               /\ \A i \in 1..Len(note.added) :
                      left[i] = IF note.added[i] \in ToSet(note.deleted) THEN left[i - 1]
                                ELSE Append(left[i - 1], note.added[i])
<1> DEFINE T == Seq(W)
           n == Len(note.added)
           Step(i, x) == IF note.added[i] \in ToSet(note.deleted) THEN x
                         ELSE Append(x, note.added[i])
           F == [i \in 1..n |-> [x \in T |-> Step(i, x)]]
           left == CHOOSE left : left = [i \in 0..n |->
                       IF i = 0 THEN <<>>
                       ELSE IF note.added[i] \in ToSet(note.deleted) THEN left[i - 1]
                       ELSE Append(left[i - 1], note.added[i])]
<1>1. Left(note) = left[n]
  BY DEF Left
<1>2. n \in Nat /\ <<>> \in T /\ \A i \in 1..n, x \in T : Step(i, x) \in T
  <2>1. n \in Nat /\ \A i \in 1..n : note.added[i] \in W
    OBVIOUS
  <2>2. <<>> \in T
    BY EmptySeq
  <2>3. ASSUME NEW i \in 1..n, NEW x \in T PROVE Append(x, note.added[i]) \in T
    BY <2>1
  <2> QED
    BY <2>1, <2>2, <2>3
<1> HIDE DEF T, Step, n
<1>3. F \in [1..n -> [T -> T]] /\ \A i \in 1..n, x \in T : F[i][x] = Step(i, x)
  BY <1>2
<1> HIDE DEF F
<1>4. PICK g \in [0..n -> T] : g[0] = <<>> /\ \A i \in 1..n : g[i] = F[i][g[i - 1]]
  <2>1. Runs(T, n, <<>>, F)
    BY <1>2, <1>3, LoopRuns
  <2> QED
    BY <2>1 DEF Runs
<1>5. g = [i \in 0..n |-> IF i = 0 THEN <<>> ELSE Step(i, g[i - 1])]
  <2> DEFINE f == [i \in 0..n |-> IF i = 0 THEN <<>> ELSE Step(i, g[i - 1])]
  <2>1. ASSUME NEW i \in 0..n PROVE g[i] = f[i]
    <3>1. CASE i = 0
      BY <1>4, <3>1
    <3>2. CASE i # 0
      <4>1. i \in 1..n /\ i - 1 \in 0..n
        BY <1>2, <3>2
      <4>2. g[i - 1] \in T
        BY <4>1
      <4> QED
        BY <1>3, <1>4, <3>2, <4>1, <4>2
    <3> QED
      BY <3>1, <3>2
  <2>2. g = [i \in 0..n |-> g[i]]
    OBVIOUS
  <2> QED
    BY <2>1, <2>2
<1>6. left = [i \in 0..n |-> IF i = 0 THEN <<>> ELSE Step(i, left[i - 1])]
  BY <1>5 DEF Step
<1> HIDE DEF left
<1> DEFINE Good == {i \in 0..n : left[i] = g[i]}
<1>7. 0 \in Good
  BY <1>2, <1>4, <1>6
<1>8. ASSUME NEW i \in 1..n, i - 1 \in Good PROVE i \in Good
  <2>1. i \in 0..n /\ i # 0 /\ i - 1 \in 0..n
    BY <1>2
  <2>2. left[i] = Step(i, left[i - 1])
    BY <1>6, <2>1
  <2>3. g[i] = Step(i, g[i - 1])
    BY <1>3, <1>4, <2>1
  <2> QED
    BY <1>8, <2>1, <2>2, <2>3
<1>9. n \in Good
  <2> HIDE DEF Good
  <2> QED
    BY <1>2, <1>7, <1>8, LoopKeeps
<1>10. \A i \in 1..n : g[i] = Step(i, g[i - 1])
  <2> TAKE i \in 1..n
  <2>1. i - 1 \in 0..n
    BY <1>2
  <2> QED
    BY <1>3, <1>4, <2>1
<1> QED
  BY <1>1, <1>4, <1>9, <1>10 DEF T, Step, n

LEMMA LeftIsWritten ==
    ASSUME NEW W, NEW note, note.added \in Seq(W)
    PROVE  Left(note) \in Seq(W)
<1>1. PICK left \in [0..Len(note.added) -> Seq(W)] : Left(note) = left[Len(note.added)]
  BY LeftRuns
<1>2. Len(note.added) \in Nat
  OBVIOUS
<1> QED
  BY <1>1, <1>2

-----------------------------------------------------------------------------
(* Characters as they are sent, and texts that edits are applied to.         *)

AsWritten(S) == [c : S, position : {p \in Seq(Nat) : EndsAboveZero(p)}, creator : Nat]

LEMMA WrittenIsAsWritten ==
    ASSUME NEW S, NEW me \in Nat, NEW char \in Typed(S, me)
    PROVE  Written(char) \in AsWritten(S)
<1>1. Place(char) \in Seq(Nat) /\ EndsAboveZero(Place(char)) /\ char.creator = me
  BY PlaceOfTyped
<1>2. char.c \in S
  BY DEF Typed
<1> QED
  BY <1>1, <1>2 DEF AsWritten, Written, Place

LEMMA toCharacterIsTyped ==
    ASSUME NEW S, NEW w \in AsWritten(S), NEW me, NEW box \in Nat
    PROVE  toCharacter(w, me, box) \in Typed(S, me)
<1> DEFINE p == w.position
           q == [i \in DOMAIN p |-> Boxed(p[i], box)]
<1>1. p \in Seq(Nat) /\ EndsAboveZero(p) /\ w.c \in S
  BY DEF AsWritten
<1> HIDE DEF p
<1>2. Len(p) \in Nat /\ DOMAIN p = 1..Len(p) /\ \A i \in 1..Len(p) : p[i] \in Nat
  BY <1>1
<1>3. \A i \in 1..Len(p) : Boxed(p[i], box) \in JavaInteger /\ Boxed(p[i], box).n = p[i]
  BY <1>2, BoxedIsInteger
<1>4. q \in Position /\ Len(q) = Len(p)
  BY <1>2, <1>3 DEF Position
<1>5. \A i \in 1..Len(p) : q[i].n = p[i]
  BY <1>2, <1>3
<1>6. toCharacter(w, me, box) = [c |-> w.c, creator |-> me, position |-> q]
  BY DEF toCharacter, p
<1> HIDE DEF q
<1>7. Numbers(q) = p
  <2>1. Numbers(q) \in Seq(Nat) /\ Len(Numbers(q)) = Len(p)
        /\ \A i \in 1..Len(p) : Numbers(q)[i] = p[i]
    BY <1>4, <1>5, NumbersOfPosition
  <2> QED
    BY <1>1, <2>1, SeqEqual
<1> QED
  BY <1>1, <1>4, <1>6, <1>7 DEF Typed

(* Applying an edit keeps a text a text, and a sorted one sorted.            *)
LEMMA applyChangesKeepsText ==
    ASSUME NEW S, NEW me \in Nat, NEW root, IsRoot(root), NEW t \in Text(S, me, root),
           NEW edit, edit.added \in Seq(AsWritten(S)), Len(edit.deleted) \in Nat
    PROVE  /\ applyChanges(t, edit, me) \in Text(S, me, root)
           /\ Sorted(t) => Sorted(applyChanges(t, edit, me))
<1> DEFINE All == Text(S, me, root)
           InOrder == {x \in All : Sorted(x)}
           added == edit.added
           deleted == edit.deleted
<1>1. Len(added) \in Nat /\ Len(deleted) \in Nat /\ \A i \in 1..Len(added) : added[i] \in AsWritten(S)
  OBVIOUS
<1>2. ASSUME NEW i \in 1..Len(added), NEW x \in All
      PROVE  /\ addChar(x, toCharacter(added[i], me, Fresh(x))) \in All
             /\ Sorted(x) => Sorted(addChar(x, toCharacter(added[i], me, Fresh(x))))
  <2>1. Fresh(x) \in Nat
    <3>1. Len(x) \in Nat /\ \A j \in 1..Len(x) : x[j].position \in Position
      BY PlacesOfText
    <3>2. DOMAIN x = 1..Len(x)
      BY DEF Text
    <3> QED
      BY <3>1, <3>2, FreshIsNumber
  <2>2. toCharacter(added[i], me, Fresh(x)) \in Typed(S, me)
    BY <1>1, <2>1, toCharacterIsTyped
  <2> QED
    BY <2>2, addCharKeepsText
<1>3. ASSUME NEW i \in 1..Len(deleted), NEW x \in All
      PROVE  /\ removeChar(x, toCharacter(deleted[i], me, 0)) \in All
             /\ Sorted(x) => Sorted(removeChar(x, toCharacter(deleted[i], me, 0)))
  BY removeCharKeepsText
<1>4. applyChanges(t, edit, me) = RemoveAll(AddAll(t, added, me), deleted, me)
  BY DEF applyChanges
<1> HIDE DEF All, added, deleted
<1>5. applyChanges(t, edit, me) \in All
  <2>1. t \in All
    BY DEF All
  <2>2. AddAll(t, added, me) \in All
    BY <1>1, <1>2, <2>1, AddAllEndsIn
  <2> QED
    BY <1>1, <1>3, <1>4, <2>2, RemoveAllEndsIn
<1>6. ASSUME Sorted(t) PROVE applyChanges(t, edit, me) \in InOrder
  <2>1. t \in InOrder
    BY <1>6 DEF All
  <2>2. /\ \A i \in 1..Len(added), x \in InOrder :
               addChar(x, toCharacter(added[i], me, Fresh(x))) \in InOrder
        /\ \A i \in 1..Len(deleted), x \in InOrder :
               removeChar(x, toCharacter(deleted[i], me, 0)) \in InOrder
    BY <1>2, <1>3
  <2> HIDE DEF InOrder
  <2>3. AddAll(t, added, me) \in InOrder
    BY <1>1, <2>1, <2>2, AddAllEndsIn
  <2> QED
    BY <1>1, <1>4, <2>2, <2>3, RemoveAllEndsIn
<1> QED
  BY <1>5, <1>6 DEF All

(* What a text shows: letters and positions, those of the characters after  *)
(* the invisible one.                                                       *)
Key(w)   == [c |-> w.c, position |-> w.position]
Keys(s)  == {Key(s[i]) : i \in 1..Len(s)}
Mark(char) == [c |-> char.c, position |-> Place(char)]
Marks(t) == {Mark(t[i]) : i \in 2..Len(t)}

LEMMA BeforeIsIrreflexive ==
    ASSUME NEW p \in Seq(Nat), NEW q \in Seq(Nat), Before(p, q)
    PROVE  p # q /\ ~Before(q, p)
BY ComparedByPlace

(* Characters of one client are equal for compare when they show the same. *)
LEMMA ComparedEqual ==
    ASSUME NEW v, NEW w, Place(v) \in Seq(Nat), Place(w) \in Seq(Nat),
           v.creator \in Nat, v.creator = w.creator
    PROVE  /\ compare(v, w) = 0 <=> Mark(v) = Mark(w)
           /\ compare(v, w) \in {1, -1} \/ Place(v) = Place(w)
<1> DEFINE order == ComparePositions(Place(v), Place(w))
<1>1. order \in {-1, 0, 1} /\ (order = 0 <=> Place(v) = Place(w))
  BY ComparedByPlace
<1>2. CASE order # 0
  <2>1. compare(v, w) = order
    BY <1>2 DEF compare, Place
  <2>2. Mark(v) # Mark(w)
    BY <1>1, <1>2 DEF Mark
  <2> QED
    BY <1>1, <1>2, <2>1, <2>2
<1>3. CASE order = 0
  <2>1. compare(v, w) = IF v.c = w.c THEN 0 ELSE -2
    BY <1>3 DEF compare, Place
  <2>2. Place(v) = Place(w)
    BY <1>1, <1>3
  <2>3. Mark(v) = Mark(w) <=> v.c = w.c
    BY <2>2 DEF Mark
  <2> QED
    BY <2>1, <2>2, <2>3
<1> QED
  BY <1>2, <1>3

(* With one character more, a text shows one character more.                *)
LEMMA OneMoreShown ==
    ASSUME NEW new, NEW t, NEW char, Len(t) \in Nat, NEW i \in 2..(Len(t) + 1),
           With(new, t, i, char)
    PROVE  Marks(new) = Marks(t) \cup {Mark(char)}
<1> DEFINE n == Len(t)
<1>1. n \in Nat /\ Len(new) = n + 1 /\ i \in 2..(n + 1)
      /\ \A j \in 1..Len(new) : new[j] = IF j < i THEN t[j] ELSE IF j = i THEN char ELSE t[j - 1]
  BY DEF With
<1> HIDE DEF n
<1>2. ASSUME NEW j \in 2..Len(new) PROVE Mark(new[j]) \in Marks(t) \cup {Mark(char)}
  <2>1. CASE j < i
    <3>1. new[j] = t[j] /\ j \in 2..n
      BY <1>1, <2>1
    <3> QED
      BY <3>1 DEF Marks, n
  <2>2. CASE j = i
    BY <1>1, <2>2
  <2>3. CASE j > i
    <3>1. new[j] = t[j - 1] /\ j - 1 \in 2..n
      BY <1>1, <2>3
    <3> QED
      BY <3>1 DEF Marks, n
  <2> QED
    BY <1>1, <2>1, <2>2, <2>3
<1>3. ASSUME NEW j \in 2..n PROVE \E m \in 2..Len(new) : Mark(t[j]) = Mark(new[m])
  <2>1. CASE j < i
    <3>1. new[j] = t[j] /\ j \in 2..Len(new)
      BY <1>1, <2>1
    <3> QED
      BY <3>1
  <2>2. CASE j >= i
    <3>1. j + 1 \in 2..Len(new) /\ new[j + 1] = t[j + 1 - 1] /\ j + 1 - 1 = j
      BY <1>1, <2>2
    <3> QED
      BY <3>1
  <2>3. j < i \/ j >= i
    BY <1>1
  <2> QED
    BY <2>1, <2>2, <2>3
<1>4. i \in 2..Len(new) /\ new[i] = char
  BY <1>1
<1>5. Marks(new) \subseteq Marks(t) \cup {Mark(char)}
  BY <1>2 DEF Marks
<1>6. Marks(t) \cup {Mark(char)} \subseteq Marks(new)
  <2>1. Mark(char) \in Marks(new)
    BY <1>4 DEF Marks
  <2>2. Marks(t) \subseteq Marks(new)
    BY <1>3 DEF Marks, n
  <2> QED
    BY <2>1, <2>2
<1> QED
  BY <1>5, <1>6

(* addChar shows the character, unless its place is taken by another letter.*)
LEMMA addCharShows ==
    ASSUME NEW S, NEW me \in Nat, NEW root, IsRoot(root),
           NEW t \in Text(S, me, root), NEW char \in Typed(S, me),
           \A m \in Marks(t) : m.position = Place(char) => m = Mark(char)
    PROVE  Marks(addChar(t, char)) = Marks(t) \cup {Mark(char)}
<1> DEFINE stop == {i \in 2..Len(t) : compare(char, t[i]) # 1}
           Chars == {root} \cup Typed(S, me)
<1>1. /\ Len(t) \in Nat /\ Len(t) >= 1 /\ t[1] = root
      /\ \A i \in 1..Len(t) : Place(t[i]) \in Seq(Nat)
      /\ \A i \in 2..Len(t) : t[i].creator = me
  BY PlacesOfText
<1>2. Place(char) \in Seq(Nat) /\ char.creator = me
  BY PlaceOfTyped
<1>3. t \in Seq(Chars) /\ char \in Chars
  BY DEF Text
<1>4. CASE stop = {}
  <2> DEFINE new == Append(t, char)
             i == Len(t) + 1
  <2>1. addChar(t, char) = new
    BY <1>4 DEF addChar
  <2>2. new \in Seq(Chars) /\ Len(new) = Len(t) + 1 /\ i \in 2..(Len(t) + 1)
    BY <1>1, <1>3
  <2>3. With(new, t, i, char)
    <3>1. \A j \in 1..Len(new) : new[j] = IF j < i THEN t[j] ELSE IF j = i THEN char ELSE t[j - 1]
      BY <1>1, <1>3
    <3> QED
      BY <2>2, <3>1 DEF With
  <2> HIDE DEF new, i
  <2> QED
    BY <1>1, <2>1, <2>2, <2>3, OneMoreShown
<1>5. CASE stop # {}
  <2> DEFINE i == CHOOSE k \in stop : \A j \in stop : k <= j
  <2>1. stop \in SUBSET Nat
    OBVIOUS
  <2>2. \E m \in stop : \A j \in stop : m <= j
    <3> HIDE DEF stop
    <3> QED
      BY <1>5, <2>1, LeastNumber
  <2>3. i \in stop
    <3> HIDE DEF stop
    <3> QED
      BY <2>2
  <2>4. addChar(t, char) = IF compare(char, t[i]) = -1 THEN InsertAt(t, i, char) ELSE t
    BY <1>5 DEF addChar
  <2> HIDE DEF i
  <2>5. i \in 2..Len(t) /\ i \in 2..(Len(t) + 1) /\ i \in 1..(Len(t) + 1) /\ i \in 1..Len(t)
        /\ compare(char, t[i]) # 1
    BY <1>1, <2>3
  <2>6. CASE compare(char, t[i]) = -1
    <3> DEFINE new == InsertAt(t, i, char)
    <3>1. With(new, t, i, char)
      <4> HIDE DEF Chars
      <4> QED
        BY <1>3, <2>5, Inserted
    <3> HIDE DEF new
    <3>2. Marks(new) = Marks(t) \cup {Mark(char)}
      BY <1>1, <2>5, <3>1, OneMoreShown
    <3> QED
      BY <2>4, <2>6, <3>2 DEF new
  <2>7. CASE compare(char, t[i]) # -1
    <3>1. Place(char) = Place(t[i])
      BY <1>1, <1>2, <2>5, <2>7, ComparedEqual
    <3>2. Mark(t[i]) \in Marks(t) /\ Mark(t[i]).position = Place(char)
      BY <2>5, <3>1 DEF Marks, Mark
    <3>3. Mark(char) \in Marks(t)
      BY <3>2
    <3> QED
      BY <2>4, <2>7, <3>3
  <2> QED
    BY <2>6, <2>7
<1> QED
  BY <1>4, <1>5

(* One character more at the end.                                           *)
LEMMA AppendedShown ==
    ASSUME NEW Chars, NEW t \in Seq(Chars), NEW e \in Chars
    PROVE  /\ Len(t) >= 1 => Marks(Append(t, e)) = Marks(t) \cup {Mark(e)}
           /\ Len(t) = 0 => Marks(Append(t, e)) = {}
<1> DEFINE new == Append(t, e)
           n == Len(t)
<1>1. n \in Nat /\ Len(new) = n + 1
      /\ \A j \in 1..Len(new) : new[j] = IF j < n + 1 THEN t[j] ELSE e
  OBVIOUS
<1>2. CASE n >= 1
  <2>1. n + 1 \in 2..(n + 1)
    BY <1>1, <1>2
  <2>2. With(new, t, n + 1, e)
    BY <1>1 DEF With
  <2> HIDE DEF new
  <2>3. Marks(new) = Marks(t) \cup {Mark(e)}
    BY <1>1, <2>1, <2>2, OneMoreShown
  <2> QED
    BY <1>2, <2>3 DEF new
<1>3. CASE n = 0
  <2>1. 2..Len(new) = {}
    BY <1>1, <1>3
  <2> HIDE DEF new
  <2>2. Marks(new) = {}
    BY <2>1 DEF Marks
  <2> QED
    BY <1>3, <2>2 DEF new
<1> QED
  BY <1>1, <1>2, <1>3

(* removeChar takes the character out, and no other: what follows it is     *)
(* kept unseen, and is another one in a sorted text.                        *)
LEMMA removeCharShows ==
    ASSUME NEW S, NEW me \in Nat, NEW root, IsRoot(root), NEW t \in Text(S, me, root), Sorted(t),
           NEW char \in Typed(S, me)
    PROVE  Marks(removeChar(t, char)) = Marks(t) \ {Mark(char)}
<1> DEFINE Chars == {root} \cup Typed(S, me)
           T == [kept : Seq(Chars), skips : BOOLEAN]
           k == Mark(char)
           Upto(i) == {Mark(t[j]) : j \in 2..i}
<1>1. /\ Len(t) \in Nat /\ Len(t) >= 1 /\ t \in Seq(Chars)
      /\ \A i \in 1..Len(t) : Place(t[i]) \in Seq(Nat) /\ t[i] \in Chars
      /\ \A i \in 2..Len(t) : t[i].creator = me
  <2>1. t \in Seq(Chars)
    BY DEF Text
  <2>2. \A i \in 1..Len(t) : t[i] \in Chars
    BY <2>1
  <2> QED
    BY <2>1, <2>2, PlacesOfText
<1>2. Place(char) \in Seq(Nat) /\ char.creator = me
  BY PlaceOfTyped
<1> HIDE DEF Chars
<1>3. PICK passed \in [0..Len(t) -> T] :
               /\ removeChar(t, char) = passed[Len(t)].kept
               /\ passed[0] = [kept |-> <<>>, skips |-> TRUE]
               /\ \A i \in 1..Len(t) :
                      passed[i] =
                          IF ~passed[i - 1].skips /\ compare(char, t[i]) = 0
                          THEN [kept |-> passed[i - 1].kept, skips |-> TRUE]
                          ELSE [kept |-> Append(passed[i - 1].kept, t[i]), skips |-> FALSE]
  <2>1. RemoveCharPasses(Chars, t, char)
    BY <1>1, removeCharRuns
  <2> QED
    BY <2>1 DEF RemoveCharPasses
<1> DEFINE kept(i) == passed[i].kept
           Good == {i \in 0..Len(t) : i # 0 => /\ Len(kept(i)) >= 1
                                               /\ Marks(kept(i)) = Upto(i) \ {k}
                                               /\ passed[i].skips => Mark(t[i]) = k /\ i >= 2}
<1>4. 0 \in Good
  BY <1>1
<1>5. ASSUME NEW i \in 1..Len(t), i - 1 \in Good PROVE i \in Good
  <2> DEFINE old == kept(i - 1)
  <2>1. i \in 0..Len(t) /\ i - 1 \in 0..Len(t) /\ i \in Nat
    BY <1>1
  <2>2. old \in Seq(Chars) /\ passed[i - 1].skips \in BOOLEAN /\ t[i] \in Chars
    <3>1. passed[i - 1] \in T
      BY <1>3, <2>1
    <3> QED
      BY <1>1, <3>1
  <2>3. passed[i] = IF ~passed[i - 1].skips /\ compare(char, t[i]) = 0
                    THEN [kept |-> passed[i - 1].kept, skips |-> TRUE]
                    ELSE [kept |-> Append(passed[i - 1].kept, t[i]), skips |-> FALSE]
    BY <1>3
  <2>4. CASE i = 1
    <3>1. passed[0].kept = <<>> /\ passed[0].skips = TRUE /\ i - 1 = 0
      BY <1>3, <2>4
    <3>2. passed[i].kept = Append(old, t[i]) /\ passed[i].skips = FALSE /\ old = <<>>
      BY <2>3, <3>1
    <3> HIDE DEF old
    <3>3. Len(old) = 0
      BY <3>2
    <3>4. Len(Append(old, t[i])) = Len(old) + 1
      BY <2>2
    <3>5. Marks(Append(old, t[i])) = {}
      BY <2>2, <3>3, AppendedShown
    <3>6. Upto(i) = {}
      <4>1. 2..i = {}
        BY <2>4
      <4> QED
        BY <4>1
    <3> HIDE DEF Upto
    <3>7. /\ Len(kept(i)) >= 1 /\ Marks(kept(i)) = Upto(i) \ {k}
          /\ ~passed[i].skips
      BY <3>2, <3>3, <3>4, <3>5, <3>6
    <3> HIDE DEF kept, k
    <3> QED
      BY <2>1, <3>7
  <2>5. CASE i # 1
    <3>1. i \in 2..Len(t) /\ i - 1 # 0 /\ i - 1 \in 1..Len(t) /\ i - 1 < i
      BY <1>1, <2>1, <2>5
    <3>2. /\ Len(old) >= 1 /\ Marks(old) = Upto(i - 1) \ {k}
          /\ passed[i - 1].skips => Mark(t[i - 1]) = k
      BY <1>5, <3>1
    <3>3. Upto(i) = Upto(i - 1) \cup {Mark(t[i])}
      <4>1. \A j : j \in 2..i <=> j = i \/ j \in 2..(i - 1)
        BY <3>1
      <4> QED
        BY <4>1
    <3>4. compare(char, t[i]) = 0 <=> k = Mark(t[i])
      BY <1>1, <1>2, <2>1, <3>1, ComparedEqual
    <3>5. CASE ~passed[i - 1].skips /\ compare(char, t[i]) = 0
      <4>1. kept(i) = old /\ passed[i].skips = TRUE
        BY <2>3, <3>5
      <4>2. Upto(i) \ {k} = Upto(i - 1) \ {k}
        BY <3>3, <3>4, <3>5
      <4> HIDE DEF old, Upto, kept, k
      <4> QED
        BY <2>1, <3>1, <3>2, <3>4, <3>5, <4>1, <4>2
    <3>6. CASE ~(~passed[i - 1].skips /\ compare(char, t[i]) = 0)
      <4>1. kept(i) = Append(old, t[i]) /\ passed[i].skips = FALSE
        BY <2>3, <3>6
      <4>2. Mark(t[i]) # k
        <5>1. CASE passed[i - 1].skips
          <6>1. Mark(t[i - 1]) = k
            BY <3>2, <5>1
          <6>2. Before(Place(t[i - 1]), Place(t[i]))
            BY <3>1 DEF Sorted
          <6>3. Place(t[i - 1]) # Place(t[i])
            BY <1>1, <3>1, <6>2, BeforeIsIrreflexive
          <6> QED
            BY <6>1, <6>3 DEF Mark
        <5>2. CASE ~passed[i - 1].skips
          BY <3>4, <3>6, <5>2
        <5> QED
          BY <2>2, <5>1, <5>2
      <4> HIDE DEF old
      <4>3. Marks(Append(old, t[i])) = Marks(old) \cup {Mark(t[i])} /\ Len(Append(old, t[i])) >= 1
        <5>1. Len(Append(old, t[i])) = Len(old) + 1 /\ Len(old) \in Nat
          BY <2>2
        <5> QED
          BY <2>2, <3>2, <5>1, AppendedShown
      <4>4. Marks(kept(i)) = Upto(i) \ {k}
        <5> HIDE DEF Upto, kept, k
        <5> QED
          BY <3>2, <3>3, <4>1, <4>2, <4>3
      <4>5. Len(kept(i)) >= 1
        BY <4>1, <4>3
      <4> HIDE DEF kept, k
      <4> QED
        BY <2>1, <4>1, <4>4, <4>5
    <3> QED
      BY <3>5, <3>6
  <2> QED
    BY <2>4, <2>5
<1>6. Len(t) \in Good
  <2> HIDE DEF Good
  <2> QED
    BY <1>1, <1>4, <1>5, LoopKeeps
<1>7. Marks(kept(Len(t))) = Upto(Len(t)) \ {k}
  BY <1>1, <1>6
<1>8. Upto(Len(t)) = Marks(t)
  BY DEF Marks
<1> QED
  BY <1>3, <1>7, <1>8

(* A character received shows what was written.                             *)
LEMMA ReceivedShown ==
    ASSUME NEW S, NEW w \in AsWritten(S), NEW me, NEW box \in Nat
    PROVE  Mark(toCharacter(w, me, box)) = Key(w)
<1> DEFINE p == w.position
           q == [i \in DOMAIN p |-> Boxed(p[i], box)]
<1>1. p \in Seq(Nat)
  BY DEF AsWritten
<1> HIDE DEF p
<1>2. Len(p) \in Nat /\ DOMAIN p = 1..Len(p) /\ \A i \in 1..Len(p) : p[i] \in Nat
  BY <1>1
<1>3. \A i \in 1..Len(p) : Boxed(p[i], box) \in JavaInteger /\ Boxed(p[i], box).n = p[i]
  BY <1>2, BoxedIsInteger
<1>4. q \in Position /\ Len(q) = Len(p)
  BY <1>2, <1>3 DEF Position
<1>5. \A i \in 1..Len(p) : q[i].n = p[i]
  BY <1>2, <1>3
<1>6. toCharacter(w, me, box) = [c |-> w.c, creator |-> me, position |-> q]
  BY DEF toCharacter, p
<1> HIDE DEF q
<1>7. Numbers(q) = p
  <2>1. Numbers(q) \in Seq(Nat) /\ Len(Numbers(q)) = Len(p)
        /\ \A i \in 1..Len(p) : Numbers(q)[i] = p[i]
    BY <1>4, <1>5, NumbersOfPosition
  <2> QED
    BY <1>1, <2>1, SeqEqual
<1> QED
  BY <1>6, <1>7 DEF Mark, Key, Place, p

LEMMA TextIsFresh ==
    ASSUME NEW S, NEW me, NEW root, IsRoot(root), NEW t \in Text(S, me, root)
    PROVE  Fresh(t) \in Nat
<1>1. Len(t) \in Nat /\ \A j \in 1..Len(t) : t[j].position \in Position
  BY PlacesOfText
<1>2. DOMAIN t = 1..Len(t)
  BY DEF Text
<1> QED
  BY <1>1, <1>2, FreshIsNumber

(* All that were added are shown, if the letters of one place are the same. *)
LEMMA AddAllShows ==
    ASSUME NEW S, NEW me \in Nat, NEW root, IsRoot(root), NEW t \in Text(S, me, root),
           NEW added \in Seq(AsWritten(S)),
           \A m \in Marks(t) \cup Keys(added), k \in Keys(added) :
               m.position = k.position => m = k
    PROVE  /\ AddAll(t, added, me) \in Text(S, me, root)
           /\ Sorted(t) => Sorted(AddAll(t, added, me))
           /\ Marks(AddAll(t, added, me)) = Marks(t) \cup Keys(added)
<1> DEFINE T == Text(S, me, root)
           n == Len(added)
           Got(i) == {Key(added[j]) : j \in 1..i}
<1>1. n \in Nat /\ \A i \in 1..n : added[i] \in AsWritten(S)
  OBVIOUS
<1>2. ASSUME NEW i \in 1..n, NEW x \in T
      PROVE  /\ toCharacter(added[i], me, Fresh(x)) \in Typed(S, me)
             /\ Mark(toCharacter(added[i], me, Fresh(x))) = Key(added[i])
             /\ addChar(x, toCharacter(added[i], me, Fresh(x))) \in T
             /\ Sorted(x) => Sorted(addChar(x, toCharacter(added[i], me, Fresh(x))))
  <2>1. Fresh(x) \in Nat
    BY TextIsFresh
  <2> QED
    BY <1>1, <2>1, toCharacterIsTyped, ReceivedShown, addCharKeepsText
<1>3. AddAllPasses(T, t, added, me)
  <2> HIDE DEF T
  <2>1. t \in T
    BY DEF T
  <2> QED
    BY <1>1, <1>2, <2>1, AddAllRuns DEF n
<1>4. PICK runs \in [0..n -> T] :
        /\ AddAll(t, added, me) = runs[n]
        /\ runs[0] = t
        /\ \A i \in 1..n : runs[i] = addChar(runs[i - 1], toCharacter(added[i], me, Fresh(runs[i - 1])))
  BY <1>3 DEF AddAllPasses
<1> DEFINE Good == {i \in 0..n : /\ Marks(runs[i]) = Marks(t) \cup Got(i)
                                 /\ Sorted(t) => Sorted(runs[i])}
<1>5. 0 \in Good
  <2>1. Got(0) = {}
    OBVIOUS
  <2> HIDE DEF Got
  <2> QED
    BY <1>1, <1>4, <2>1
<1>6. ASSUME NEW i \in 1..n, i - 1 \in Good PROVE i \in Good
  <2> DEFINE old == runs[i - 1]
             char == toCharacter(added[i], me, Fresh(old))
  <2>1. i \in 0..n /\ i - 1 \in 0..n
    BY <1>1
  <2>2. old \in T /\ runs[i] = addChar(old, char)
    BY <1>4, <2>1
  <2>3. Marks(old) = Marks(t) \cup Got(i - 1) /\ (Sorted(t) => Sorted(old))
    BY <1>6
  <2>4. char \in Typed(S, me) /\ Mark(char) = Key(added[i])
        /\ (Sorted(old) => Sorted(addChar(old, char)))
    BY <1>2, <2>2
  <2>5. Got(i) = Got(i - 1) \cup {Key(added[i])} /\ Got(i) \subseteq Keys(added)
    <3>1. \A j : j \in 1..i <=> j = i \/ j \in 1..(i - 1)
      BY <1>1
    <3>2. \A j \in 1..i : j \in 1..n
      BY <1>1
    <3> QED
      BY <3>1, <3>2 DEF Keys
  <2> HIDE DEF Got, old
  <2>6. \A m \in Marks(old) : m.position = Place(char) => m = Mark(char)
    <3>1. Key(added[i]) \in Keys(added) /\ Marks(old) \subseteq Marks(t) \cup Keys(added)
      BY <2>3, <2>5
    <3>2. Place(char) = Key(added[i]).position
      BY <2>4 DEF Mark
    <3> HIDE DEF char
    <3> QED
      BY <2>4, <3>1, <3>2
  <2> HIDE DEF char
  <2>7. Marks(addChar(old, char)) = Marks(old) \cup {Mark(char)}
    BY <2>2, <2>4, <2>6, addCharShows
  <2>8. Marks(runs[i]) = Marks(t) \cup Got(i)
    BY <2>2, <2>3, <2>4, <2>5, <2>7
  <2> QED
    BY <2>1, <2>2, <2>3, <2>4, <2>8
<1>7. n \in Good
  <2> HIDE DEF Good
  <2> QED
    BY <1>1, <1>5, <1>6, LoopKeeps
<1>8. Got(n) = Keys(added)
  BY DEF Keys
<1>9. runs[n] \in T
  BY <1>1, <1>4
<1> QED
  BY <1>4, <1>7, <1>8, <1>9

(* None that were deleted are shown, and all others.                        *)
LEMMA RemoveAllShows ==
    ASSUME NEW S, NEW me \in Nat, NEW root, IsRoot(root), NEW t \in Text(S, me, root), Sorted(t),
           NEW deleted \in Seq(AsWritten(S))
    PROVE  /\ RemoveAll(t, deleted, me) \in Text(S, me, root)
           /\ Sorted(RemoveAll(t, deleted, me))
           /\ Marks(RemoveAll(t, deleted, me)) = Marks(t) \ Keys(deleted)
<1> DEFINE T == {x \in Text(S, me, root) : Sorted(x)}
           n == Len(deleted)
           Gone(i) == {Key(deleted[j]) : j \in 1..i}
<1>1. n \in Nat /\ \A i \in 1..n : deleted[i] \in AsWritten(S)
  OBVIOUS
<1>2. ASSUME NEW i \in 1..n, NEW x \in T
      PROVE  /\ removeChar(x, toCharacter(deleted[i], me, 0)) \in T
             /\ Marks(removeChar(x, toCharacter(deleted[i], me, 0))) = Marks(x) \ {Key(deleted[i])}
  <2>1. toCharacter(deleted[i], me, 0) \in Typed(S, me)
    BY <1>1, toCharacterIsTyped
  <2>2. Mark(toCharacter(deleted[i], me, 0)) = Key(deleted[i])
    BY <1>1, ReceivedShown
  <2> QED
    BY <2>1, <2>2, removeCharKeepsText, removeCharShows
<1>3. RemoveAllPasses(T, t, deleted, me)
  <2> HIDE DEF T
  <2>1. t \in T
    BY DEF T
  <2> QED
    BY <1>1, <1>2, <2>1, RemoveAllRuns DEF n
<1>4. PICK runs \in [0..n -> T] :
        /\ RemoveAll(t, deleted, me) = runs[n]
        /\ runs[0] = t
        /\ \A i \in 1..n : runs[i] = removeChar(runs[i - 1], toCharacter(deleted[i], me, 0))
  BY <1>3 DEF RemoveAllPasses
<1> DEFINE Good == {i \in 0..n : Marks(runs[i]) = Marks(t) \ Gone(i)}
<1>5. 0 \in Good
  <2>1. Gone(0) = {}
    OBVIOUS
  <2> HIDE DEF Gone
  <2> QED
    BY <1>1, <1>4, <2>1
<1>6. ASSUME NEW i \in 1..n, i - 1 \in Good PROVE i \in Good
  <2>1. i \in 0..n /\ i - 1 \in 0..n
    BY <1>1
  <2>2. runs[i - 1] \in T
    BY <1>4, <2>1
  <2> HIDE DEF T
  <2>3. Marks(runs[i]) = Marks(runs[i - 1]) \ {Key(deleted[i])}
    BY <1>2, <1>4, <2>2
  <2>4. Marks(runs[i - 1]) = Marks(t) \ Gone(i - 1)
    BY <1>6
  <2>5. Gone(i) = Gone(i - 1) \cup {Key(deleted[i])}
    <3>1. \A j : j \in 1..i <=> j = i \/ j \in 1..(i - 1)
      BY <1>1
    <3> QED
      BY <3>1
  <2> HIDE DEF Gone
  <2>6. Marks(runs[i]) = Marks(t) \ Gone(i)
    BY <2>3, <2>4, <2>5
  <2> QED
    BY <2>1, <2>6
<1>7. n \in Good
  <2> HIDE DEF Good
  <2> QED
    BY <1>1, <1>5, <1>6, LoopKeeps
<1>8. Gone(n) = Keys(deleted)
  BY DEF Keys
<1>9. runs[n] \in T
  BY <1>1, <1>4
<1> QED
  BY <1>4, <1>7, <1>8, <1>9

(* An edit applied: what it adds is shown, then what it deletes is not.     *)
LEMMA applyChangesShows ==
    ASSUME NEW S, NEW me \in Nat, NEW root, IsRoot(root), NEW t \in Text(S, me, root), Sorted(t),
           NEW edit, edit.added \in Seq(AsWritten(S)), edit.deleted \in Seq(AsWritten(S)),
           \A m \in Marks(t) \cup Keys(edit.added), k \in Keys(edit.added) :
               m.position = k.position => m = k
    PROVE  Marks(applyChanges(t, edit, me)) = (Marks(t) \cup Keys(edit.added)) \ Keys(edit.deleted)
<1> DEFINE a == edit.added
           d == edit.deleted
           more == AddAll(t, a, me)
<1>1. a \in Seq(AsWritten(S)) /\ d \in Seq(AsWritten(S))
      /\ \A m \in Marks(t) \cup Keys(a), k \in Keys(a) : m.position = k.position => m = k
  OBVIOUS
<1>0. applyChanges(t, edit, me) = RemoveAll(more, d, me)
  BY DEF applyChanges
<1> HIDE DEF a, d
<1>2. more \in Text(S, me, root) /\ Sorted(more) /\ Marks(more) = Marks(t) \cup Keys(a)
  BY <1>1, AddAllShows
<1> HIDE DEF more
<1>3. Marks(RemoveAll(more, d, me)) = Marks(more) \ Keys(d)
  BY <1>1, <1>2, RemoveAllShows
<1>4. Marks(applyChanges(t, edit, me)) = (Marks(t) \cup Keys(a)) \ Keys(d)
  BY <1>2, <1>3, <1>0
<1> QED
  BY <1>4 DEF a, d

(* What is left of a note was added and not deleted, by the same creator.   *)
LEMMA LeftHas ==
    ASSUME NEW W, NEW note, note.added \in Seq(W)
    PROVE  ToSet(Left(note)) = ToSet(note.added) \ ToSet(note.deleted)
<1> DEFINE a == note.added
           n == Len(a)
           gone == ToSet(note.deleted)
           Upto(i) == {a[j] : j \in 1..i}
<1>1. n \in Nat /\ DOMAIN a = 1..n /\ \A i \in 1..n : a[i] \in W
  OBVIOUS
<1>2. PICK left \in [0..n -> Seq(W)] :
        /\ Left(note) = left[n]
        /\ left[0] = <<>>
        /\ \A i \in 1..n : left[i] = IF a[i] \in gone THEN left[i - 1] ELSE Append(left[i - 1], a[i])
  BY LeftRuns
<1> HIDE DEF n, gone
<1> DEFINE Good == {i \in 0..n : ToSet(left[i]) = Upto(i) \ gone}
<1>3. 0 \in Good
  <2>1. Upto(0) = {} /\ ToSet(<<>>) = {}
    BY DEF ToSet
  <2> HIDE DEF Upto
  <2> QED
    BY <1>1, <1>2, <2>1
<1>4. ASSUME NEW i \in 1..n, i - 1 \in Good PROVE i \in Good
  <2>1. i \in 0..n /\ i - 1 \in 0..n
    BY <1>1
  <2>2. left[i - 1] \in Seq(W) /\ a[i] \in W
    BY <1>1, <1>2, <2>1
  <2>3. Upto(i) = Upto(i - 1) \cup {a[i]}
    <3>1. \A j : j \in 1..i <=> j = i \/ j \in 1..(i - 1)
      BY <1>1
    <3> QED
      BY <3>1
  <2>4. ToSet(Append(left[i - 1], a[i])) = ToSet(left[i - 1]) \cup {a[i]}
    <3> DEFINE s == left[i - 1]
               e == a[i]
    <3> HIDE DEF s, e
    <3>1. \A u \in Seq(W), x \in W : ToSet(Append(u, x)) = ToSet(u) \cup {x}
      <4> TAKE u \in Seq(W), x \in W
      <4>1. Len(u) \in Nat /\ DOMAIN u = 1..Len(u) /\ DOMAIN Append(u, x) = 1..(Len(u) + 1)
            /\ \A j \in 1..Len(u) : Append(u, x)[j] = u[j]
            /\ Append(u, x)[Len(u) + 1] = x
        OBVIOUS
      <4>2. \A j : j \in 1..(Len(u) + 1) <=> j = Len(u) + 1 \/ j \in 1..Len(u)
        BY <4>1
      <4> QED
        BY <4>1, <4>2 DEF ToSet
    <3>2. s \in Seq(W) /\ e \in W
      BY <2>2 DEF s, e
    <3> QED
      BY <3>1, <3>2 DEF s, e
  <2>5. left[i] = IF a[i] \in gone THEN left[i - 1] ELSE Append(left[i - 1], a[i])
    BY <1>2
  <2>6. ToSet(left[i - 1]) = Upto(i - 1) \ gone
    BY <1>4
  <2> HIDE DEF Upto
  <2>7. ToSet(left[i]) = Upto(i) \ gone
    <3>1. CASE a[i] \in gone
      BY <2>3, <2>5, <2>6, <3>1
    <3>2. CASE a[i] \notin gone
      BY <2>3, <2>4, <2>5, <2>6, <3>2
    <3> QED
      BY <3>1, <3>2
  <2> QED
    BY <2>1, <2>7
<1>5. n \in Good
  <2> HIDE DEF Good
  <2> QED
    BY <1>1, <1>3, <1>4, LoopKeeps
<1>6. Upto(n) = ToSet(a)
  BY <1>1 DEF ToSet
<1> QED
  BY <1>2, <1>5, <1>6 DEF gone

(* In how many ways can characters be put in order?  In one.                *)
InPlace(f, n) ==
    /\ \A i \in 1..n : f[i].position \in Seq(Nat)
    /\ \A i, j \in 1..n : i < j => Before(f[i].position, f[j].position)
AllOf(f, n, g, m) == \A i \in 1..n : \E j \in 1..m : f[i] = g[j]

LEMMA OrderedTheSame ==
    ASSUME NEW n \in Nat, NEW m \in Nat, NEW f, NEW g, InPlace(f, n), InPlace(g, m),
           AllOf(f, n, g, m), AllOf(g, m, f, n)
    PROVE  n <= m /\ \A i \in 1..n : f[i] = g[i]
<1> DEFINE Good == {i \in 0..n : i <= m /\ \A j \in 1..i : f[j] = g[j]}
<1>1. 0 \in Good
  OBVIOUS
<1>2. ASSUME NEW i \in 1..n, i - 1 \in Good PROVE i \in Good
  <2>1. i \in 0..n /\ i - 1 <= m /\ \A j \in 1..(i - 1) : f[j] = g[j] /\ j \in 1..n /\ j \in 1..m
    BY <1>2
  <2>2. PICK k \in 1..m : f[i] = g[k]
    BY DEF AllOf
  <2>3. k >= i
    <3> SUFFICES ASSUME k < i PROVE FALSE
      BY <2>1, <2>2
    <3>1. k \in 1..(i - 1) /\ k \in 1..n
      BY <2>2
    <3>2. f[k] = f[i]
      BY <2>1, <2>2, <3>1
    <3>3. Before(f[k].position, f[i].position) /\ f[k].position \in Seq(Nat) /\ f[i].position \in Seq(Nat)
      BY <3>1 DEF InPlace
    <3> QED
      BY <3>2, <3>3, BeforeIsIrreflexive
  <2>4. i \in 1..m
    BY <2>2, <2>3
  <2>5. PICK l \in 1..n : g[i] = f[l]
    BY <2>4 DEF AllOf
  <2>6. f[i] = g[i]
    <3> SUFFICES ASSUME f[i] # g[i] PROVE FALSE
      OBVIOUS
    <3>1. k > i
      BY <2>2, <2>3
    <3>2. Before(g[i].position, g[k].position) /\ g[i].position \in Seq(Nat)
      BY <2>4, <3>1 DEF InPlace
    <3>3. ~(l < i)
      <4> SUFFICES ASSUME l < i PROVE FALSE
        OBVIOUS
      <4>1. l \in 1..(i - 1) /\ l \in 1..m
        BY <2>1, <2>5
      <4>2. g[l] = g[i]
        BY <2>1, <2>5, <4>1
      <4>3. Before(g[l].position, g[i].position)
        BY <2>4, <4>1 DEF InPlace
      <4> QED
        BY <3>2, <4>2, <4>3, BeforeIsIrreflexive
    <3>4. l > i
      BY <2>5, <3>3
    <3>5. Before(f[i].position, f[l].position) /\ f[i].position \in Seq(Nat)
      BY <3>4 DEF InPlace
    <3> QED
      BY <2>2, <2>5, <3>2, <3>5, BeforeIsIrreflexive
  <2>7. \A j \in 1..i : f[j] = g[j]
    BY <2>1, <2>6
  <2> QED
    BY <2>1, <2>4, <2>7
<1>3. n \in Good
  <2> HIDE DEF Good
  <2> QED
    BY <1>1, <1>2, LoopKeeps
<1> QED
  BY <1>3

LEMMA OrderedOnce ==
    ASSUME NEW n \in Nat, NEW m \in Nat, NEW f, NEW g, InPlace(f, n), InPlace(g, m),
           AllOf(f, n, g, m), AllOf(g, m, f, n)
    PROVE  n = m /\ \A i \in 1..n : f[i] = g[i]
<1>1. n <= m /\ \A i \in 1..n : f[i] = g[i]
  BY OrderedTheSame
<1>2. m <= n
  BY OrderedTheSame
<1> QED
  BY <1>1, <1>2

(* The marks of a sorted text are in order.                                 *)
LEMMA TextInPlace ==
    ASSUME NEW S, NEW me, NEW root, IsRoot(root), NEW t \in Text(S, me, root), Sorted(t)
    PROVE  /\ Len(t) - 1 \in Nat
           /\ InPlace([i \in 1..(Len(t) - 1) |-> Mark(t[i + 1])], Len(t) - 1)
<1> DEFINE n == Len(t) - 1
           f == [i \in 1..n |-> Mark(t[i + 1])]
<1>1. n \in Nat /\ Len(t) = n + 1 /\ \A i \in 1..Len(t) : Place(t[i]) \in Seq(Nat)
  BY PlacesOfText
<1> HIDE DEF n
<1>2. \A i \in 1..n : i + 1 \in 1..Len(t) /\ f[i].position = Place(t[i + 1])
  BY <1>1 DEF Mark
<1>3. \A i \in 1..n : f[i].position \in Seq(Nat)
  BY <1>1, <1>2
<1>4. \A i, j \in 1..n : i < j => Before(f[i].position, f[j].position)
  <2> SUFFICES ASSUME NEW i \in 1..n, NEW j \in 1..n, i < j
               PROVE  Before(f[i].position, f[j].position)
    OBVIOUS
  <2>1. i + 1 \in 1..Len(t) /\ j + 1 \in 1..Len(t) /\ i + 1 < j + 1
    BY <1>1
  <2>2. Before(Place(t[i + 1]), Place(t[j + 1]))
    BY <2>1 DEF Sorted
  <2> QED
    BY <1>2, <2>2
<1> HIDE DEF f
<1>5. InPlace(f, n)
  BY <1>3, <1>4 DEF InPlace
<1> QED
  BY <1>1, <1>5 DEF f, n

(* Sorted texts that show the same characters show them at the same places. *)
LEMMA SameMarksSameText ==
    ASSUME NEW S, NEW me, NEW you, NEW root, IsRoot(root),
           NEW t \in Text(S, me, root), NEW u \in Text(S, you, root), Sorted(t), Sorted(u),
           Marks(t) = Marks(u)
    PROVE  Len(t) = Len(u) /\ \A i \in 1..Len(t) : Mark(t[i]) = Mark(u[i])
<1> DEFINE n == Len(t) - 1
           m == Len(u) - 1
           f == [i \in 1..n |-> Mark(t[i + 1])]
           g == [i \in 1..m |-> Mark(u[i + 1])]
<1>1. n \in Nat /\ m \in Nat /\ InPlace(f, n) /\ InPlace(g, m)
  BY TextInPlace
<1>2. Len(t) = n + 1 /\ Len(u) = m + 1 /\ t[1] = u[1]
  BY PlacesOfText
<1> HIDE DEF n, m
<1>3. AllOf(f, n, g, m)
  <2>1. ASSUME NEW i \in 1..n PROVE \E j \in 1..m : f[i] = g[j]
    <3>1. i + 1 \in 2..Len(t)
      BY <1>1, <1>2
    <3>2. Mark(t[i + 1]) \in Marks(u)
      BY <3>1 DEF Marks
    <3>3. PICK j \in 2..Len(u) : Mark(t[i + 1]) = Mark(u[j])
      BY <3>2 DEF Marks
    <3>4. j - 1 \in 1..m /\ (j - 1) + 1 = j
      BY <1>1, <1>2
    <3>5. g[j - 1] = Mark(u[j])
      BY <3>4
    <3> QED
      BY <3>3, <3>4, <3>5
  <2> QED
    BY <2>1 DEF AllOf
<1>4. AllOf(g, m, f, n)
  <2>1. ASSUME NEW i \in 1..m PROVE \E j \in 1..n : g[i] = f[j]
    <3>1. i + 1 \in 2..Len(u)
      BY <1>1, <1>2
    <3>2. Mark(u[i + 1]) \in Marks(t)
      BY <3>1 DEF Marks
    <3>3. PICK j \in 2..Len(t) : Mark(u[i + 1]) = Mark(t[j])
      BY <3>2 DEF Marks
    <3>4. j - 1 \in 1..n /\ (j - 1) + 1 = j
      BY <1>1, <1>2
    <3>5. f[j - 1] = Mark(t[j])
      BY <3>4
    <3> QED
      BY <3>3, <3>4, <3>5
  <2> QED
    BY <2>1 DEF AllOf
<1> HIDE DEF f, g
<1>5. n = m /\ \A i \in 1..n : f[i] = g[i]
  BY <1>1, <1>3, <1>4, OrderedOnce
<1>6. \A i \in 1..n : Mark(t[i + 1]) = Mark(u[i + 1])
  BY <1>1, <1>5 DEF f, g
<1>7. \A i \in 2..Len(t) : i - 1 \in 1..n /\ (i - 1) + 1 = i
  BY <1>1, <1>2
<1>8. \A i \in 2..Len(t) : Mark(t[i]) = Mark(u[i])
  BY <1>6, <1>7
<1>9. \A i \in 1..Len(t) : i = 1 \/ i \in 2..Len(t)
  BY <1>1, <1>2
<1> QED
  BY <1>1, <1>2, <1>5, <1>8, <1>9

(* No character is there twice.                                              *)
Distinct(s) == \A i, j \in 1..Len(s) : Key(s[i]) = Key(s[j]) => i = j

LEMMA DistinctWithOneMore ==
    ASSUME NEW W, NEW s \in Seq(W), NEW w \in W, Distinct(s), \A i \in 1..Len(s) : Key(s[i]) # Key(w)
    PROVE  Distinct(Append(s, w))
<1> DEFINE n == Len(s)
           new == Append(s, w)
<1>1. n \in Nat /\ Len(new) = n + 1 /\ new[n + 1] = w /\ \A i \in 1..n : new[i] = s[i]
  OBVIOUS
<1>2. \A i, j \in 1..n : Key(s[i]) = Key(s[j]) => i = j
  BY DEF Distinct
<1> HIDE DEF n, new
<1>3. \A i \in 1..(n + 1) : i = n + 1 \/ i \in 1..n
  BY <1>1
<1>4. \A i \in 1..n : Key(new[i]) # Key(w)
  BY <1>1 DEF n
<1>5. \A i, j \in 1..(n + 1) : Key(new[i]) = Key(new[j]) => i = j
  BY <1>1, <1>2, <1>3, <1>4
<1> QED
  BY <1>1, <1>5 DEF Distinct, new

(* What is left of a note that has no character twice has none twice.        *)
LEMMA LeftOnce ==
    ASSUME NEW W, NEW note, note.added \in Seq(W), Distinct(note.added)
    PROVE  Distinct(Left(note))
<1> DEFINE a == note.added
           n == Len(a)
           gone == ToSet(note.deleted)
<1>1. n \in Nat /\ \A i \in 1..n : a[i] \in W
  OBVIOUS
<1>2. PICK left \in [0..n -> Seq(W)] :
        /\ Left(note) = left[n]
        /\ left[0] = <<>>
        /\ \A i \in 1..n : left[i] = IF a[i] \in gone THEN left[i - 1] ELSE Append(left[i - 1], a[i])
  BY LeftRuns
<1>3. \A i, j \in 1..n : Key(a[i]) = Key(a[j]) => i = j
  BY DEF Distinct
<1> HIDE DEF a, n, gone
<1> DEFINE Good == {i \in 0..n : /\ Distinct(left[i])
                                 /\ \A k \in 1..Len(left[i]) : \E j \in 1..i : left[i][k] = a[j]}
<1>4. 0 \in Good
  <2>1. 1..Len(<<>>) = {}
    OBVIOUS
  <2> QED
    BY <1>1, <1>2, <2>1 DEF Distinct
<1>5. ASSUME NEW i \in 1..n, i - 1 \in Good PROVE i \in Good
  <2> DEFINE s == left[i - 1]
             w == a[i]
  <2>1. i \in 0..n /\ i - 1 \in 0..n
    BY <1>1
  <2>2. s \in Seq(W) /\ w \in W /\ left[i] = IF w \in gone THEN s ELSE Append(s, w)
    BY <1>1, <1>2, <2>1
  <2>3. Distinct(s) /\ \A k \in 1..Len(s) : \E j \in 1..(i - 1) : s[k] = a[j]
    BY <1>5
  <2> HIDE DEF s, w
  <2>4. \A j \in 1..(i - 1) : j \in 1..n /\ j \in 1..i /\ j # i
    BY <1>1
  <2>5. CASE w \in gone
    <3>1. left[i] = s
      BY <2>2, <2>5
    <3>2. \A k \in 1..Len(s) : \E j \in 1..i : s[k] = a[j]
      BY <2>3, <2>4
    <3> QED
      BY <2>1, <2>3, <3>1, <3>2
  <2>6. CASE w \notin gone
    <3>1. left[i] = Append(s, w)
      BY <2>2, <2>6
    <3>2. \A k \in 1..Len(s) : Key(s[k]) # Key(w)
      BY <1>3, <2>3, <2>4 DEF w
    <3>3. Distinct(Append(s, w))
      BY <2>2, <2>3, <3>2, DistinctWithOneMore
    <3>4. ASSUME NEW k \in 1..Len(Append(s, w)) PROVE \E j \in 1..i : Append(s, w)[k] = a[j]
      <4>1. (k \in 1..Len(s) /\ Append(s, w)[k] = s[k]) \/ Append(s, w)[k] = w
        BY <2>2
      <4>2. i \in 1..i
        BY <1>1
      <4> QED
        BY <2>3, <2>4, <4>1, <4>2 DEF w
    <3> QED
      BY <2>1, <3>1, <3>3, <3>4
  <2> QED
    BY <2>5, <2>6
<1>6. n \in Good
  <2> HIDE DEF Good
  <2> QED
    BY <1>1, <1>4, <1>5, LoopKeeps
<1> QED
  BY <1>2, <1>6

(* A set of as many places as another has.                                   *)
LEMMA AsMany ==
    ASSUME NEW n \in Nat, NEW m \in Nat, NEW h \in [1..m -> 1..n],
           \A i, j \in 1..m : h[i] = h[j] => i = j,
           \A j \in 1..n : \E i \in 1..m : h[i] = j
    PROVE  n = m /\ h \in Bijection(1..n, 1..n)
<1>1. h \in Bijection(1..m, 1..n)
  BY DEF Bijection, Injection, Surjection, IsInjective
<1>2. ExistsBijection(1..m, 1..n)
  BY <1>1 DEF ExistsBijection
<1>3. ExistsBijection(1..n, 1..n)
  BY Fun_ExistsBijReflexive
<1>4. n = m
  BY <1>2, <1>3, Fun_NatBijSame
<1> QED
  BY <1>1, <1>4

(* What is saved are the letters of any sorted text that shows what is left. *)
LEMMA toStringIsText ==
    ASSUME NEW S, NEW me, NEW root, IsRoot(root), NEW t \in Text(S, me, root), Sorted(t),
           NEW note, note.added \in Seq(AsWritten(S)), Distinct(note.added),
           Marks(t) = Keys(Left(note))
    PROVE  toString(note) = [i \in 1..(Len(t) - 1) |-> t[i + 1].c]
<1> DEFINE left == Left(note)
           n == Len(left)
           m == Len(t) - 1
           g == [i \in 1..m |-> Mark(t[i + 1])]
<1>1. left \in Seq(AsWritten(S)) /\ Distinct(left)
  BY LeftIsWritten, LeftOnce
<1>2. m \in Nat /\ InPlace(g, m) /\ Len(t) \in Nat
  BY TextInPlace, PlacesOfText
<1> HIDE DEF left
<1>3. n \in Nat /\ DOMAIN left = 1..n /\ \A i \in 1..n : left[i].position \in Seq(Nat)
  <2>1. \A i \in 1..n : left[i] \in AsWritten(S)
    BY <1>1
  <2> QED
    BY <1>1, <2>1 DEF AsWritten
<1>4. \A i, j \in 1..n : Key(left[i]) = Key(left[j]) => i = j
  BY <1>1 DEF Distinct
<1>5. \A i \in 1..m : i + 1 \in 2..Len(t) /\ g[i] = Mark(t[i + 1])
  BY <1>2
<1>6. \A i \in 2..Len(t) : i - 1 \in 1..m /\ g[i - 1] = Mark(t[i])
  <2> TAKE i \in 2..Len(t)
  <2>1. i - 1 \in 1..m /\ (i - 1) + 1 = i
    BY <1>2
  <2> QED
    BY <1>5, <2>1
<1> HIDE DEF n, m, g
<1>7. \A i \in 1..m : \E j \in 1..n : Key(left[j]) = g[i]
  <2> TAKE i \in 1..m
  <2>1. g[i] \in Keys(left)
    BY <1>5 DEF Marks, left
  <2> QED
    BY <2>1 DEF Keys, n
<1>8. \A j \in 1..n : \E i \in 1..m : Key(left[j]) = g[i]
  <2> TAKE j \in 1..n
  <2>1. Key(left[j]) \in Marks(t)
    BY DEF Keys, left, n
  <2>2. PICK i \in 2..Len(t) : Key(left[j]) = Mark(t[i])
    BY <2>1 DEF Marks
  <2> QED
    BY <1>6, <2>2
<1>9. /\ \A i \in 1..m : g[i].position \in Seq(Nat)
      /\ \A i, j \in 1..m : i < j => Before(g[i].position, g[j].position)
  BY <1>2 DEF InPlace
<1>10. \A i, j \in 1..m : g[i].position = g[j].position => i = j
  <2> SUFFICES ASSUME NEW i \in 1..m, NEW j \in 1..m, i < j, g[i].position = g[j].position PROVE FALSE
    BY <1>2
  <2> QED
    BY <1>9, BeforeIsIrreflexive
<1> DEFINE InOrder(p) == \A i, j \in 1..n :
               i < j => ComparePositions(left[p[j]].position, left[p[i]].position) # -1
           order == CHOOSE p \in Bijection(1..n, 1..n) : InOrder(p)
<1>11. \E p \in Bijection(1..n, 1..n) : InOrder(p)
  <2> DEFINE h == [i \in 1..m |-> CHOOSE j \in 1..n : Key(left[j]) = g[i]]
  <2>1. \A i \in 1..m : h[i] \in 1..n /\ Key(left[h[i]]) = g[i]
    BY <1>7
  <2>2. h = [i \in 1..m |-> h[i]]
    OBVIOUS
  <2> HIDE DEF h
  <2>3. h \in [1..m -> 1..n]
    BY <2>1, <2>2
  <2>4. \A i, j \in 1..m : h[i] = h[j] => i = j
    BY <1>10, <2>1
  <2>5. \A j \in 1..n : \E i \in 1..m : h[i] = j
    BY <1>4, <1>8, <2>1
  <2>6. n = m /\ h \in Bijection(1..n, 1..n)
    BY <1>2, <1>3, <2>3, <2>4, <2>5, AsMany
  <2>7. InOrder(h)
    <3> SUFFICES ASSUME NEW i \in 1..n, NEW j \in 1..n, i < j
                 PROVE  ComparePositions(left[h[j]].position, left[h[i]].position) # -1
      OBVIOUS
    <3>1. i \in 1..m /\ j \in 1..m
      BY <2>6
    <3>2. left[h[i]].position = g[i].position /\ left[h[j]].position = g[j].position
      <4>1. \A k \in 1..m : Key(left[h[k]]).position = left[h[k]].position
        BY DEF Key
      <4> QED
        BY <2>1, <3>1, <4>1
    <3>3. ~Before(g[j].position, g[i].position)
      BY <1>9, <3>1, BeforeIsIrreflexive
    <3> QED
      BY <1>9, <3>1, <3>2, <3>3, ComparedByPlace
  <2> QED
    BY <2>6, <2>7
<1>12. order \in Bijection(1..n, 1..n) /\ InOrder(order)
  <2> HIDE DEF InOrder
  <2> QED
    BY <1>11
<1>13. toString(note) = [i \in 1..n |-> left[order[i]].c]
  BY <1>3 DEF toString, left
<1> HIDE DEF order
<1>14. /\ \A i \in 1..n : order[i] \in 1..n
       /\ \A i, j \in 1..n : order[i] = order[j] => i = j
       /\ \A j \in 1..n : \E i \in 1..n : order[i] = j
  BY <1>12 DEF Bijection, Injection, Surjection, IsInjective
<1> DEFINE f == [i \in 1..n |-> Key(left[order[i]])]
<1>15. \A i \in 1..n : f[i].position = left[order[i]].position /\ f[i].c = left[order[i]].c
  BY DEF Key
<1>16. \A i \in 1..n : f[i] = Key(left[order[i]])
  OBVIOUS
<1> HIDE DEF f
<1>17. AllOf(f, n, g, m)
  <2> SUFFICES ASSUME NEW i \in 1..n PROVE \E j \in 1..m : f[i] = g[j]
    BY DEF AllOf
  <2>1. order[i] \in 1..n
    BY <1>14
  <2>2. PICK j \in 1..m : Key(left[order[i]]) = g[j]
    BY <1>8, <2>1
  <2> QED
    BY <1>16, <2>2
<1>18. AllOf(g, m, f, n)
  <2> SUFFICES ASSUME NEW i \in 1..m PROVE \E j \in 1..n : g[i] = f[j]
    BY DEF AllOf
  <2>1. PICK k \in 1..n : Key(left[k]) = g[i]
    BY <1>7
  <2>2. PICK j \in 1..n : order[j] = k
    BY <1>14
  <2> QED
    BY <1>16, <2>1, <2>2
<1>19. InPlace(f, n)
  <2>1. \A i \in 1..n : f[i].position \in Seq(Nat)
    <3> TAKE i \in 1..n
    <3>1. order[i] \in 1..n
      BY <1>14
    <3>2. left[order[i]].position \in Seq(Nat)
      BY <1>3, <3>1
    <3> QED
      BY <1>15, <3>2
  <2>2. ASSUME NEW i \in 1..n, NEW j \in 1..n, i < j PROVE Before(f[i].position, f[j].position)
    <3>1. ComparePositions(f[j].position, f[i].position) # -1
      BY <1>12, <1>15, <2>2
    <3>2. f[j].position # f[i].position
      <4> SUFFICES ASSUME f[j].position = f[i].position PROVE FALSE
        OBVIOUS
      <4>1. PICK k \in 1..m : f[i] = g[k]
        BY <1>17 DEF AllOf
      <4>2. PICK l \in 1..m : f[j] = g[l]
        BY <1>17 DEF AllOf
      <4>3. f[i] = f[j]
        BY <1>10, <4>1, <4>2
      <4>4. order[i] = order[j]
        <5>1. order[i] \in 1..n /\ order[j] \in 1..n
          BY <1>14
        <5>2. Key(left[order[i]]) = Key(left[order[j]])
          BY <1>16, <4>3
        <5> QED
          BY <1>4, <5>1, <5>2
      <4>5. i = j
        BY <1>14, <4>4
      <4> QED
        BY <1>3, <2>2, <4>5
    <3> QED
      BY <2>1, <3>1, <3>2, ComparedByPlace
  <2> QED
    BY <2>1, <2>2 DEF InPlace
<1>20. n = m /\ \A i \in 1..n : f[i] = g[i]
  BY <1>2, <1>3, <1>17, <1>18, <1>19, OrderedOnce
<1>21. ASSUME NEW i \in 1..n PROVE left[order[i]].c = t[i + 1].c
  <2>1. f[i] = Mark(t[i + 1])
    BY <1>5, <1>20
  <2>2. f[i].c = t[i + 1].c
    BY <2>1 DEF Mark
  <2> QED
    BY <1>15, <2>2
<1>22. [i \in 1..n |-> left[order[i]].c] = [i \in 1..m |-> t[i + 1].c]
  BY <1>20, <1>21
<1> QED
  BY <1>13, <1>22 DEF m
=============================================================================
