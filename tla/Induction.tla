------------------------------- MODULE Induction -------------------------------
(***************************************************************************)
(* Induction without operator parameters: a set of natural numbers has a   *)
(* least element.  To show that all numbers have a property one takes the  *)
(* set of those that do not, and looks at its least element.  Beside it:   *)
(* division, and what flattening a sequence of sequences does.             *)
(***************************************************************************)
EXTENDS SequencesExt, FiniteSetTheorems, TLAPS

\* A set of natural numbers that is not empty has a least element: what a
\* query that orders its rows, or a walk that counts its steps, relies on.
THEOREM NatLeast ==
  ASSUME NEW S \in SUBSET Nat, S # {}
  PROVE  \E n \in S : \A m \in S : n <= m
<1>. DEFINE T == {1..n : n \in S}
<1>1. T \subseteq FiniteSubsetsOf(Nat) /\ T # {}
  <2>1. ASSUME NEW n \in S PROVE IsFiniteSet(1..n) /\ 1..n \in SUBSET Nat
    BY FS_Interval
  <2>. QED BY <2>1 DEF FiniteSubsetsOf
<1>2. PICK x \in T : \A y \in T : ~ <<y, x>> \in StrictSubsetOrdering(Nat)
  <2>. HIDE DEF T
  <2>. QED BY <1>1, FS_StrictSubsetOrderingWellFounded, WFMin
<1>3. PICK n \in S : x = 1..n
  OBVIOUS
<1>4. ASSUME NEW m \in S, m < n PROVE FALSE
  <2>1. 1..m \in T /\ 1..m \in SUBSET Nat /\ 1..n \in SUBSET Nat
    OBVIOUS
  <2>2. 1..m \subseteq 1..n /\ n \in 1..n /\ n \notin 1..m
    BY <1>4
  <2>3. <<1..m, x>> \in StrictSubsetOrdering(Nat)
    BY <1>3, <2>1, <2>2 DEF StrictSubsetOrdering
  <2>. QED BY <1>2, <2>1, <2>3
<1>. QED BY <1>4

\* A set that holds a number and with each one the next holds all from there on.
THEOREM NatInductionFrom ==
  ASSUME NEW base \in Nat, NEW S, base \in S,
         \A n \in Nat : (n >= base /\ n \in S) => n + 1 \in S
  PROVE  \A n \in Nat : n >= base => n \in S
<1>. DEFINE Missing == {n \in Nat : n >= base /\ n \notin S}
<1>. SUFFICES ASSUME Missing # {} PROVE FALSE
  OBVIOUS
<1>1. PICK n \in Missing : \A m \in Missing : n <= m
  BY NatLeast
<1>2. n # base /\ n - 1 \in Nat /\ n - 1 >= base
  OBVIOUS
<1>3. n - 1 \in S
  BY <1>1, <1>2
<1>4. (n - 1) + 1 \in S
  BY <1>2, <1>3
<1>. QED BY <1>4

(***************************************************************************)
(* Division.                                                               *)
(***************************************************************************)
\* Division with remainder.
LEMMA Divided ==
  ASSUME NEW a \in Int, NEW n \in Nat \ {0}
  PROVE  a = n * (a \div n) + (a % n) /\ a % n \in 0..(n - 1) /\ a \div n \in Int
  OBVIOUS

\* There is one way only to divide.
LEMMA QuotientIsUnique ==
  ASSUME NEW n \in Nat \ {0}, NEW p \in Int, NEW q \in Int,
         NEW r \in 0..(n - 1), NEW s \in 0..(n - 1), n * p + r = n * q + s
  PROVE  p = q /\ r = s
<1>1. ASSUME NEW x \in Int, NEW y \in Int, x < y PROVE n * x + n <= n * y
  <2>1. y - x - 1 \in Nat
    BY <1>1
  <2>2. n * (y - x - 1) >= 0
    BY <2>1
  <2>3. n * (y - x - 1) = n * y - n * x - n
    BY <1>1
  <2>. QED BY <1>1, <2>2, <2>3
<1>2. ~(p < q)
  <2>1. n * p \in Int /\ n * q \in Int
    OBVIOUS
  <2>. QED BY <1>1, <2>1
<1>3. ~(q < p)
  <2>1. n * p \in Int /\ n * q \in Int
    OBVIOUS
  <2>. QED BY <1>1, <2>1
<1>4. p = q
  BY <1>2, <1>3
<1>. QED BY <1>4

\* What is a multiple and a rest is divided into them.
LEMMA DividedInto ==
  ASSUME NEW n \in Nat \ {0}, NEW q \in Int, NEW r \in 0..(n - 1)
  PROVE  (n * q + r) \div n = q /\ (n * q + r) % n = r
<1>1. PICK a \in Int : a = n * q + r
  OBVIOUS
<1>2. a = n * (a \div n) + (a % n) /\ a % n \in 0..(n - 1) /\ a \div n \in Int
  BY Divided
<1>. QED BY <1>1, <1>2, QuotientIsUnique

(***************************************************************************)
(* Sequences: which are the same, and what flattening does piece by piece. *)
(***************************************************************************)
\* What is given for each number up to one is a sequence.
LEMMA IsSequence ==
  ASSUME NEW S, NEW n \in Nat, NEW s, s = [i \in 1..n |-> s[i]], \A i \in 1..n : s[i] \in S
  PROVE  s \in Seq(S) /\ Len(s) = n
  OBVIOUS

\* What appending does.
LEMMA Appended ==
  ASSUME NEW S, NEW s \in Seq(S), NEW n, n = Len(s), NEW e \in S
  PROVE  /\ Append(s, e) \in Seq(S) /\ Len(Append(s, e)) = n + 1
         /\ Append(s, e)[n + 1] = e /\ \A i \in 1..n : Append(s, e)[i] = s[i]
  OBVIOUS

\* Sequences with the same elements in the same order are the same.
LEMMA SameElements ==
  ASSUME NEW S, NEW a \in Seq(S), NEW b \in Seq(S), Len(a) = Len(b),
         \A i \in 1..Len(a) : a[i] = b[i]
  PROVE  a = b
  OBVIOUS

Flattens(f, pieces, k) ==
  f = [i \in 1..k |-> IF i = 1 THEN pieces[i] ELSE f[i - 1] \o pieces[i]]

\* There is a function that flattens the first k pieces, for every k.
LEMMA FlattensExists ==
  ASSUME NEW pieces, NEW n \in Nat, n >= 1
  PROVE  \E f : Flattens(f, pieces, n)
<1>. DEFINE Good == {k \in Nat : \E f : Flattens(f, pieces, k)}
<1>1. 1 \in Good
  <2>1. Flattens([i \in 1..1 |-> pieces[1]], pieces, 1)
    BY DEF Flattens
  <2>. QED BY <2>1
<1>2. ASSUME NEW k \in Nat, k >= 1, k \in Good PROVE k + 1 \in Good
  <2>1. PICK f : Flattens(f, pieces, k)
    BY <1>2
  <2>2. PICK g : g = [i \in 1..(k + 1) |-> IF i <= k THEN f[i] ELSE f[k] \o pieces[k + 1]]
    OBVIOUS
  <2>3. ASSUME NEW i \in 1..(k + 1)
        PROVE  g[i] = IF i = 1 THEN pieces[i] ELSE g[i - 1] \o pieces[i]
    <3>1. CASE i <= k
      <4>1. i \in 1..k
        BY <3>1
      <4>2. f[i] = IF i = 1 THEN pieces[i] ELSE f[i - 1] \o pieces[i]
        BY <2>1, <4>1 DEF Flattens
      <4>3. i # 1 => i - 1 \in 1..(k + 1) /\ i - 1 <= k
        BY <3>1
      <4>4. g[i] = f[i] /\ (i # 1 => g[i - 1] = f[i - 1])
        BY <2>2, <3>1, <4>3
      <4>. QED BY <4>2, <4>4
    <3>2. CASE i = k + 1
      <4>1. k \in 1..(k + 1) /\ i # 1 /\ i - 1 = k /\ ~(i <= k)
        BY <1>2, <3>2
      <4>2. g[k] = f[k]
        BY <2>2, <4>1
      <4>3. g[i] = f[k] \o pieces[k + 1]
        BY <2>2, <4>1
      <4>. QED BY <3>2, <4>1, <4>2, <4>3
    <3>. QED BY <1>2, <3>1, <3>2
  <2>4. Flattens(g, pieces, k + 1)
    <3>1. g = [i \in 1..(k + 1) |-> g[i]]
      BY <2>2
    <3>. QED BY <2>3, <3>1 DEF Flattens
  <2>. QED BY <2>4
<1>. HIDE DEF Good
<1>3. \A k \in Nat : k >= 1 => k \in Good
  BY <1>1, <1>2, NatInductionFrom
<1>4. n \in Good
  BY <1>3
<1>. QED BY <1>4 DEF Good

\* The library's FlattenSeq puts the pieces together from the first to the last.
LEMMA FlattenSteps ==
  ASSUME NEW pieces, Len(pieces) \in Nat, Len(pieces) >= 1
  PROVE  \E f : Flattens(f, pieces, Len(pieces)) /\ FlattenSeq(pieces) = f[Len(pieces)]
<1>. DEFINE n == Len(pieces)
            flat == CHOOSE f : Flattens(f, pieces, n)
<1>1. Flattens(flat, pieces, n)
  <2>. HIDE DEF n
  <2>1. n \in Nat /\ n >= 1
    BY DEF n
  <2>. QED BY <2>1, FlattensExists
<1>2. FlattenSeq(pieces) = flat[n]
  BY DEF FlattenSeq, Flattens
<1>. QED BY <1>1, <1>2

\* Nothing is flattened to nothing.
LEMMA FlattenNothing ==
  ASSUME NEW S, NEW pieces \in Seq(S), Len(pieces) = 0
  PROVE  FlattenSeq(pieces) = << >>
<1>1. pieces = << >>
  OBVIOUS
<1>2. FlattenSeq(pieces) = pieces
  BY DEF FlattenSeq
<1>. QED BY <1>1, <1>2

\* Sequences are flattened into one over the same set.
LEMMA FlattenType ==
  ASSUME NEW S, NEW pieces \in Seq(Seq(S))
  PROVE  FlattenSeq(pieces) \in Seq(S)
<1>1. PICK n \in Nat : n = Len(pieces)
  OBVIOUS
<1>2. CASE n = 0
  <2>1. FlattenSeq(pieces) = << >>
    BY <1>1, <1>2, FlattenNothing
  <2>. QED BY <2>1
<1>3. CASE n # 0
  <2>1. PICK f : Flattens(f, pieces, n) /\ FlattenSeq(pieces) = f[n]
    BY <1>1, <1>3, FlattenSteps
  <2>. DEFINE Good == {k \in Nat : k <= n => f[k] \in Seq(S)}
  <2>2. \A k \in 1..n : pieces[k] \in Seq(S)
    BY <1>1
  <2>3. 1 \in Good
    <3>1. f[1] = pieces[1]
      BY <1>3, <2>1 DEF Flattens
    <3>. QED BY <1>3, <2>2, <3>1
  <2>4. ASSUME NEW k \in Nat, k >= 1, k \in Good PROVE k + 1 \in Good
    <3>1. SUFFICES ASSUME k + 1 <= n PROVE f[k + 1] \in Seq(S)
      OBVIOUS
    <3>2. k + 1 \in 1..n /\ k + 1 # 1 /\ (k + 1) - 1 = k
      BY <2>4, <3>1
    <3>3. f[k + 1] = f[k] \o pieces[k + 1]
      BY <2>1, <3>2 DEF Flattens
    <3>4. f[k] \in Seq(S) /\ pieces[k + 1] \in Seq(S)
      BY <2>2, <2>4, <3>1, <3>2
    <3>. QED BY <3>3, <3>4
  <2>. HIDE DEF Good
  <2>5. \A k \in Nat : k >= 1 => k \in Good
    BY <2>3, <2>4, NatInductionFrom
  <2>6. n \in Good
    BY <1>3, <2>5
  <2>. QED BY <2>1, <2>6 DEF Good
<1>. QED BY <1>2, <1>3

\* One more piece is appended.
LEMMA FlattenOneMore ==
  ASSUME NEW S, NEW pieces \in Seq(Seq(S)), NEW p \in Seq(S)
  PROVE  FlattenSeq(Append(pieces, p)) = FlattenSeq(pieces) \o p
<1>1. PICK n \in Nat : n = Len(pieces)
  OBVIOUS
<1>2. PICK more \in Seq(Seq(S)) : more = Append(pieces, p)
  <2>1. Append(pieces, p) \in Seq(Seq(S))
    OBVIOUS
  <2>. QED BY <2>1
<1>3. Len(more) = n + 1 /\ more[n + 1] = p /\ \A i \in 1..n : pieces[i] = more[i]
  BY <1>1, <1>2
<1>4. PICK g : Flattens(g, more, n + 1) /\ FlattenSeq(more) = g[n + 1]
  BY <1>3, FlattenSteps
<1>5. CASE n = 0
  <2>1. FlattenSeq(pieces) = << >>
    BY <1>1, <1>5, FlattenNothing
  <2>2. g[1] = p
    BY <1>3, <1>4, <1>5 DEF Flattens
  <2>3. << >> \o p = p
    OBVIOUS
  <2>. QED BY <1>2, <1>4, <1>5, <2>1, <2>2, <2>3
<1>6. CASE n # 0
  <2>1. PICK f : Flattens(f, pieces, n) /\ FlattenSeq(pieces) = f[n]
    BY <1>1, <1>6, FlattenSteps
  <2>2. f[n] = g[n]
    <3>. DEFINE Same == {k \in Nat : k <= n => f[k] = g[k]}
    <3>1. 1 \in Same
      <4>1. f[1] = pieces[1] /\ g[1] = more[1]
        BY <1>4, <1>6, <2>1 DEF Flattens
      <4>. QED BY <1>3, <1>6, <4>1
    <3>2. ASSUME NEW k \in Nat, k >= 1, k \in Same PROVE k + 1 \in Same
      <4>1. SUFFICES ASSUME k + 1 <= n PROVE f[k + 1] = g[k + 1]
        OBVIOUS
      <4>2. k + 1 \in 1..n /\ k + 1 \in 1..(n + 1) /\ k + 1 # 1 /\ (k + 1) - 1 = k
        BY <3>2, <4>1
      <4>3. f[k + 1] = f[k] \o pieces[k + 1]
        BY <2>1, <4>2 DEF Flattens
      <4>4. g[k + 1] = g[k] \o more[k + 1]
        BY <1>4, <4>2 DEF Flattens
      <4>5. f[k] = g[k] /\ pieces[k + 1] = more[k + 1]
        BY <1>3, <3>2, <4>1, <4>2
      <4>. QED BY <4>3, <4>4, <4>5
    <3>. HIDE DEF Same
    <3>3. \A k \in Nat : k >= 1 => k \in Same
      BY <3>1, <3>2, NatInductionFrom
    <3>4. n \in Same
      BY <1>6, <3>3
    <3>. QED BY <3>4 DEF Same
  <2>3. n + 1 \in 1..(n + 1) /\ n + 1 # 1 /\ (n + 1) - 1 = n
    BY <1>6
  <2>4. g[n + 1] = g[n] \o more[n + 1]
    BY <1>4, <2>3 DEF Flattens
  <2>. QED BY <1>2, <1>3, <1>4, <2>1, <2>2, <2>4
<1>. QED BY <1>5, <1>6
===============================================================================
