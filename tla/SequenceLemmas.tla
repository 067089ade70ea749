--------------------------- MODULE SequenceLemmas ---------------------------
(***************************************************************************)
(* Lemmas about FlattenSeq and about sums over sequences, by induction     *)
(* over the natural numbers.  The induction is over a set, as the provers  *)
(* cannot instantiate theorems about an operator.                          *)
(***************************************************************************)
EXTENDS Integers, SequencesExt, SequenceTheorems, WellFoundedInduction, TLAPS

\* A non-empty set of natural numbers has a smallest element.
LEMMA LeastNatural ==
    ASSUME NEW T, T \subseteq Nat, T # {}
    PROVE  \E i \in T : \A j \in T : i <= j
<1>1. \E i \in T : \A j \in T : ~ (<<j, i>> \in OpToRel(<, Nat))
      BY NatLessThanWellFounded, WFMin
<1>2. \A i, j \in Nat : <<j, i>> \in OpToRel(<, Nat) <=> j < i
      BY DEF OpToRel
<1>3. PICK i \in T : \A j \in T : ~ (<<j, i>> \in OpToRel(<, Nat)) BY <1>1
<1>4. ASSUME NEW j \in T PROVE i <= j
  <2>1. i \in Nat /\ j \in Nat OBVIOUS
  <2>2. ~ (j < i) BY <1>2, <1>3, <2>1
  <2> QED BY <2>1, <2>2
<1> QED BY <1>4

\* Induction over the natural numbers.
LEMMA Induction ==
    ASSUME NEW S, 0 \in S, \A n, k \in Nat : n \in S /\ k = n + 1 => k \in S
    PROVE  \A n \in Nat : n \in S
<1> DEFINE T == {n \in Nat : n \notin S}
<1>1. SUFFICES ASSUME T # {} PROVE FALSE BY <1>1
<1>2. PICK m \in T : \A j \in T : m <= j BY <1>1, LeastNatural
<1>3. m \in Nat /\ m \notin S /\ m # 0 OBVIOUS
<1>4. m - 1 \in Nat /\ m = (m - 1) + 1 BY <1>3
<1>5. m - 1 \notin T BY <1>2, <1>4
<1>6. m - 1 \in S BY <1>4, <1>5
<1>7. m \in S BY <1>3, <1>4, <1>6
<1> QED BY <1>3, <1>7

-----------------------------------------------------------------------------
(* FlattenSeq *)

\* s \o t; under its name the provers do not look into the sequences
Join(s, t) == s \o t

LEMMA JoinSeq ==
    ASSUME NEW S, NEW x \in Seq(S), NEW y \in Seq(S), NEW z \in Seq(S)
    PROVE  /\ Join(x, y) \in Seq(S)
           /\ Join(Join(x, y), z) = Join(x, Join(y, z))
           /\ Join(<<>>, x) = x /\ Join(x, <<>>) = x
<1>1. x \o y \in Seq(S) BY ConcatProperties
<1>2. (x \o y) \o z = x \o (y \o z) BY ConcatAssociative
<1>3. <<>> \o x = x /\ x \o <<>> = x BY ConcatEmptySeq
<1> QED BY <1>1, <1>2, <1>3 DEF Join

\* what the first i of seqs are together, if f tells it for fewer of them
Upto(f, seqs, i) == IF i = 1 THEN seqs[i] ELSE Join(f[i - 1], seqs[i])
Flattens(f, seqs, n) == f = [i \in 1 .. n |-> Upto(f, seqs, i)]

\* The values of such a function, one by one.
LEMMA FlattensAt ==
    ASSUME NEW f, NEW seqs, NEW n \in Nat, Flattens(f, seqs, n)
    PROVE  /\ \A i \in 1 .. n : f[i] = Upto(f, seqs, i)
           /\ n > 0 => f[1] = seqs[1]
           /\ \A i, k \in 1 .. n : k = i + 1 => f[k] = Join(f[i], seqs[k])
<1>1. \A i \in 1 .. n : f[i] = Upto(f, seqs, i) BY DEF Flattens
<1>2. ASSUME n > 0 PROVE f[1] = seqs[1]
  <2>1. 1 \in 1 .. n BY <1>2
  <2>2. f[1] = Upto(f, seqs, 1) BY <1>1, <2>1
  <2> QED BY <2>2 DEF Upto
<1>3. ASSUME NEW i \in 1 .. n, NEW k \in 1 .. n, k = i + 1
      PROVE  f[k] = Join(f[i], seqs[k])
  <2>1. k # 1 /\ k - 1 = i BY <1>3
  <2>2. f[k] = Upto(f, seqs, k) BY <1>1
  <2>3. Upto(f, seqs, k) = Join(f[i], seqs[k]) BY <2>1 DEF Upto
  <2> QED BY <2>2, <2>3
<1> QED BY <1>1, <1>2, <1>3

\* It depends on the sequences up to n only.
LEMMA FlattensUnique ==
    ASSUME NEW f, NEW g, NEW s, NEW t, NEW n \in Nat, NEW m \in Nat,
           Flattens(f, s, n), Flattens(g, t, m),
           m <= n, \A i \in 1 .. m : s[i] = t[i]
    PROVE  \A i \in 1 .. m : f[i] = g[i]
<1> DEFINE T == {j \in Nat : j \in 1 .. m => f[j] = g[j]}
<1>1. 0 \in T OBVIOUS
<1>2. ASSUME NEW j \in Nat, NEW k \in Nat, j \in T, k = j + 1, k \in 1 .. m
      PROVE  f[k] = g[k]
  <2>1. k \in 1 .. n /\ s[k] = t[k] BY <1>2
  <2>2. CASE j = 0
    <3>1. k = 1 /\ n > 0 /\ m > 0 BY <1>2, <2>2
    <3>2. f[1] = s[1] BY <3>1, FlattensAt
    <3>3. g[1] = t[1] BY <3>1, FlattensAt
    <3> QED BY <2>1, <3>1, <3>2, <3>3
  <2>3. CASE j # 0
    <3>1. j \in 1 .. n /\ j \in 1 .. m BY <1>2, <2>3
    <3>2. f[k] = Join(f[j], s[k]) BY <1>2, <2>1, <3>1, FlattensAt
    <3>3. g[k] = Join(g[j], t[k]) BY <1>2, <3>1, FlattensAt
    <3>4. f[j] = g[j] BY <1>2, <3>1
    <3> QED BY <2>1, <3>2, <3>3, <3>4
  <2> QED BY <2>2, <2>3
<1>3. \A j, k \in Nat : j \in T /\ k = j + 1 => k \in T BY <1>2
<1> HIDE DEF T
<1>4. \A j \in Nat : j \in T BY <1>1, <1>3, Induction
<1> QED BY <1>4 DEF T

\* There is such a function.
LEMMA FlattensExists ==
    ASSUME NEW seqs
    PROVE  \A n \in Nat : \E f : Flattens(f, seqs, n)
<1> DEFINE T == {n \in Nat : \E f : Flattens(f, seqs, n)}
<1>1. 0 \in T
  <2>1. Flattens([i \in 1 .. 0 |-> <<>>], seqs, 0) BY DEF Flattens
  <2> QED BY <2>1
<1>2. ASSUME NEW n \in Nat, n \in T, NEW k \in Nat, k = n + 1 PROVE k \in T
  <2>1. PICK f : Flattens(f, seqs, n) BY <1>2
  <2> DEFINE g == [i \in 1 .. k |-> Upto(f, seqs, i)]
  <2>2. \A i \in 1 .. n : g[i] = f[i]
    <3>1. \A i \in 1 .. n : f[i] = Upto(f, seqs, i) BY <2>1, FlattensAt
    <3> QED BY <3>1, <1>2
  <2>3. ASSUME NEW i \in 1 .. k PROVE g[i] = Upto(g, seqs, i)
    <3>1. g[i] = Upto(f, seqs, i) OBVIOUS
    <3>2. CASE i = 1 BY <3>1, <3>2 DEF Upto
    <3>3. CASE i # 1
      <4>1. i - 1 \in 1 .. n BY <1>2, <3>3
      <4>2. g[i - 1] = f[i - 1] BY <4>1, <2>2
      <4> HIDE DEF g
      <4> QED BY <3>1, <3>3, <4>2 DEF Upto
    <3> QED BY <3>2, <3>3
  <2>4. g = [i \in 1 .. k |-> Upto(g, seqs, i)]
    <3> DEFINE h == [i \in 1 .. k |-> Upto(g, seqs, i)]
    <3>1. \A i \in 1 .. k : h[i] = Upto(g, seqs, i) OBVIOUS
    <3>2. \A i \in 1 .. k : g[i] = h[i] BY <2>3, <3>1
    <3>3. DOMAIN g = 1 .. k /\ DOMAIN h = 1 .. k OBVIOUS
    <3>4. g = [i \in DOMAIN g |-> g[i]] /\ h = [i \in DOMAIN h |-> h[i]] OBVIOUS
    <3> HIDE DEF g, h
    <3>5. g = h BY <3>2, <3>3, <3>4
    <3> QED BY <3>5 DEF h
  <2> HIDE DEF g
  <2>5. Flattens(g, seqs, k) BY <2>4 DEF Flattens
  <2> QED BY <2>5
<1>3. \A n, k \in Nat : n \in T /\ k = n + 1 => k \in T BY <1>2
<1> HIDE DEF T
<1>4. \A n \in Nat : n \in T BY <1>1, <1>3, Induction
<1> QED BY <1>4 DEF T

\* FlattenSeq takes the last of its values.
LEMMA FlattenValue ==
    ASSUME NEW seqs, NEW n \in Nat, Len(seqs) = n, n > 0, NEW f, Flattens(f, seqs, n)
    PROVE  FlattenSeq(seqs) = f[n]
<1> DEFINE g == CHOOSE g : Flattens(g, seqs, n)
<1>1. Flattens(g, seqs, n) OBVIOUS
<1>2. FlattenSeq(seqs) = g[n] BY DEF FlattenSeq, Flattens, Upto, Join
<1> HIDE DEF g
<1>3. \A i \in 1 .. n : f[i] = g[i] BY <1>1, FlattensUnique
<1>4. n \in 1 .. n OBVIOUS
<1> QED BY <1>2, <1>3, <1>4

\* Its values are sequences.
LEMMA FlattensType ==
    ASSUME NEW S, NEW seqs, NEW n \in Nat, \A i \in 1 .. n : seqs[i] \in Seq(S),
           NEW f, Flattens(f, seqs, n)
    PROVE  \A i \in 1 .. n : f[i] \in Seq(S)
<1> DEFINE T == {j \in Nat : j \in 1 .. n => f[j] \in Seq(S)}
<1>1. 0 \in T OBVIOUS
<1>2. ASSUME NEW j \in Nat, NEW k \in Nat, j \in T, k = j + 1, k \in 1 .. n
      PROVE  f[k] \in Seq(S)
  <2>1. seqs[k] \in Seq(S) BY <1>2
  <2>2. CASE j = 0
    <3>1. k = 1 /\ n > 0 BY <1>2, <2>2
    <3>2. f[1] = seqs[1] BY <3>1, FlattensAt
    <3> QED BY <2>1, <3>1, <3>2
  <2>3. CASE j # 0
    <3>1. j \in 1 .. n BY <1>2, <2>3
    <3>2. f[k] = Join(f[j], seqs[k]) BY <1>2, <3>1, FlattensAt
    <3>3. f[j] \in Seq(S) BY <1>2, <3>1
    <3> QED BY <2>1, <3>2, <3>3, JoinSeq
  <2> QED BY <2>2, <2>3
<1>3. \A j, k \in Nat : j \in T /\ k = j + 1 => k \in T BY <1>2
<1> HIDE DEF T
<1>4. \A j \in Nat : j \in T BY <1>1, <1>3, Induction
<1> QED BY <1>4 DEF T

\* What FlattenSeq returns is a sequence.
LEMMA FlattenType ==
    ASSUME NEW S, NEW seqs \in Seq(Seq(S))
    PROVE  FlattenSeq(seqs) \in Seq(S)
<1>1. CASE seqs = <<>>
  <2>1. FlattenSeq(seqs) = <<>> BY <1>1 DEF FlattenSeq
  <2> QED BY <2>1
<1>2. CASE seqs # <<>>
  <2>1. Len(seqs) \in Nat /\ Len(seqs) > 0 BY <1>2
  <2>2. PICK f : Flattens(f, seqs, Len(seqs)) BY <2>1, FlattensExists
  <2>3. FlattenSeq(seqs) = f[Len(seqs)] BY <2>1, <2>2, FlattenValue
  <2>4. \A i \in 1 .. Len(seqs) : seqs[i] \in Seq(S) OBVIOUS
  <2>5. \A i \in 1 .. Len(seqs) : f[i] \in Seq(S) BY <2>1, <2>2, <2>4, FlattensType
  <2> QED BY <2>1, <2>3, <2>5
<1> QED BY <1>1, <1>2

LEMMA FlattenEmpty == FlattenSeq(<<>>) = <<>>
BY DEF FlattenSeq

LEMMA FlattensLast ==
    ASSUME NEW s, NEW t, NEW n \in Nat, NEW m \in Nat, m > 0, m < n, n <= m + 1,
           \A i \in 1 .. m : t[i] = s[i],
           NEW f, Flattens(f, t, n), NEW g, Flattens(g, s, m)
    PROVE  f[n] = Join(g[m], t[n])
<1>1. m <= n OBVIOUS
<1>2. \A i \in 1 .. m : f[i] = g[i] BY <1>1, FlattensUnique
<1>3. m \in 1 .. m /\ m \in 1 .. n /\ n \in 1 .. n OBVIOUS
<1>4. f[n] = Join(f[m], t[n]) BY <1>3, FlattensAt
<1> QED BY <1>2, <1>3, <1>4

\* A sequence at the end is flattened last.
LEMMA FlattenAppend ==
    ASSUME NEW S, NEW seqs \in Seq(Seq(S)), NEW x \in Seq(S)
    PROVE  FlattenSeq(Append(seqs, x)) = Join(FlattenSeq(seqs), x)
<1> DEFINE m == Len(seqs)
           n == m + 1
           app == Append(seqs, x)
<1>1. m \in Nat /\ n \in Nat /\ n > 0 /\ n = m + 1 /\ m < n /\ n <= m + 1 /\ Len(app) = n OBVIOUS
<1>2. app[n] = x OBVIOUS
<1>3. \A i \in 1 .. m : app[i] = seqs[i] OBVIOUS
<1>4. m = 0 => seqs = <<>> OBVIOUS
<1>5. Len(seqs) = m /\ Append(seqs, x) = app OBVIOUS
<1> HIDE DEF m, n, app
<1>6. PICK f : Flattens(f, app, n) BY <1>1, FlattensExists
<1>7. FlattenSeq(app) = f[n] BY <1>1, <1>6, FlattenValue
<1>8. CASE m = 0
  <2>1. FlattenSeq(seqs) = <<>> BY <1>4, <1>8, FlattenEmpty
  <2>2. f[1] = app[1] BY <1>1, <1>6, FlattensAt
  <2>3. n = 1 BY <1>1, <1>8
  <2>4. Join(<<>>, x) = x BY JoinSeq
  <2> QED BY <1>2, <1>5, <1>7, <2>1, <2>2, <2>3, <2>4
<1>9. CASE m # 0
  <2>1. PICK g : Flattens(g, seqs, m) BY <1>1, FlattensExists
  <2>2. m > 0 BY <1>1, <1>9
  <2>3. FlattenSeq(seqs) = g[m] BY <1>1, <1>5, <2>1, <2>2, FlattenValue
  <2>4. f[n] = Join(g[m], app[n]) BY <1>1, <1>3, <1>6, <2>1, <2>2, FlattensLast
  <2> QED BY <1>2, <1>5, <1>7, <2>3, <2>4
<1> QED BY <1>8, <1>9

\* t, of length m, is what follows the first element of s, of length n; all are in Seq(S)
Follows(s, t, n, m, S) ==
    /\ m > 0 /\ m < n /\ n <= m + 1
    /\ s[1] \in Seq(S)
    /\ \A i \in 1 .. m : t[i] \in Seq(S)
    /\ \A i \in 1 .. m : \A k \in 1 .. n : i < k /\ k <= i + 1 => s[k] = t[i]

LEMMA FlattensShift ==
    ASSUME NEW S, NEW s, NEW t, NEW n \in Nat, NEW m \in Nat, Follows(s, t, n, m, S),
           NEW f, Flattens(f, s, n), NEW g, Flattens(g, t, m)
    PROVE  f[n] = Join(s[1], g[m])
<1> USE DEF Follows
<1> DEFINE x == s[1]
<1>0. s[1] = x /\ x \in Seq(S) OBVIOUS
<1> HIDE DEF x
<1>1. \A i \in 1 .. m : g[i] \in Seq(S) BY FlattensType
<1>2. f[1] = x
  <2>1. n > 0 OBVIOUS
  <2> QED BY <2>1, <1>0, FlattensAt
<1>3. g[1] = t[1] BY FlattensAt
<1> DEFINE T == {j \in Nat : j \in 1 .. m => \A i \in 1 .. n : i = j + 1 => f[i] = Join(x, g[j])}
<1>4. 0 \in T OBVIOUS
<1>5. ASSUME NEW j \in Nat, NEW k \in Nat, j \in T, k = j + 1, k \in 1 .. m,
             NEW i \in 1 .. n, i = k + 1
      PROVE  f[i] = Join(x, g[k])
  <2>1. f[i] = Join(f[k], t[k])
    <3>1. k \in 1 .. n BY <1>5
    <3>2. f[i] = Join(f[k], s[i]) BY <1>5, <3>1, FlattensAt
    <3>3. s[i] = t[k] BY <1>5
    <3> QED BY <3>2, <3>3
  <2>2. CASE j = 0
    <3>1. k = 1 BY <1>5, <2>2
    <3> QED BY <1>2, <1>3, <2>1, <3>1
  <2>3. CASE j # 0
    <3>1. j \in 1 .. m /\ k \in 1 .. n BY <1>5, <2>3
    <3>2. g[k] = Join(g[j], t[k]) BY <1>5, <3>1, FlattensAt
    <3>3. f[k] = Join(x, g[j]) BY <1>5, <3>1
    <3>4. g[j] \in Seq(S) /\ t[k] \in Seq(S) BY <1>1, <1>5, <3>1
    <3>5. Join(Join(x, g[j]), t[k]) = Join(x, Join(g[j], t[k]))
      <4> DEFINE y == g[j]
                 z == t[k]
      <4>1. y \in Seq(S) /\ z \in Seq(S) BY <3>4
      <4> HIDE DEF y, z
      <4>2. Join(Join(x, y), z) = Join(x, Join(y, z)) BY <1>0, <4>1, JoinSeq
      <4> QED BY <4>2 DEF y, z
    <3> QED BY <2>1, <3>2, <3>3, <3>5
  <2> QED BY <2>2, <2>3
<1>6. \A j, k \in Nat : j \in T /\ k = j + 1 => k \in T BY <1>5
<1> HIDE DEF T
<1>7. \A j \in Nat : j \in T BY <1>4, <1>6, Induction
<1>8. m \in 1 .. m /\ n \in 1 .. n OBVIOUS
<1> QED BY <1>0, <1>7, <1>8 DEF T

\* The first sequence is flattened first.
LEMMA FlattenCons ==
    ASSUME NEW S, NEW seqs \in Seq(Seq(S)), seqs # <<>>
    PROVE  FlattenSeq(seqs) = Join(Head(seqs), FlattenSeq(Tail(seqs)))
<1> DEFINE n == Len(seqs)
           m == n - 1
           t == Tail(seqs)
           x == Head(seqs)
<1>1. n \in Nat /\ n > 0 /\ m \in Nat /\ n = m + 1 /\ m < n /\ n <= m + 1 /\ Len(t) = m OBVIOUS
<1>2. x \in Seq(S) /\ seqs[1] = x /\ t \in Seq(Seq(S)) OBVIOUS
<1>3. \A i \in 1 .. m : \A k \in 1 .. n : i < k /\ k <= i + 1 => seqs[k] = t[i]
      OBVIOUS
<1>4. \A i \in 1 .. m : t[i] \in Seq(S) BY <1>1, <1>2
<1>5. Len(seqs) = n /\ Tail(seqs) = t /\ Head(seqs) = x OBVIOUS
<1> HIDE DEF n, m, t, x
<1>6. PICK f : Flattens(f, seqs, n) BY <1>1, FlattensExists
<1>7. FlattenSeq(seqs) = f[n] BY <1>1, <1>5, <1>6, FlattenValue
<1>8. CASE m = 0
  <2>1. t = <<>> BY <1>1, <1>2, <1>8, EmptySeq
  <2>2. FlattenSeq(t) = <<>> BY <2>1, FlattenEmpty
  <2>3. Join(x, <<>>) = x BY <1>2, JoinSeq
  <2>4. f[1] = x BY <1>1, <1>2, <1>6, FlattensAt
  <2>5. n = 1 BY <1>1, <1>8
  <2> QED BY <1>5, <1>7, <2>2, <2>3, <2>4, <2>5
<1>9. CASE m # 0
  <2>1. PICK g : Flattens(g, t, m) BY <1>1, FlattensExists
  <2>2. m > 0 BY <1>1, <1>9
  <2>3. FlattenSeq(t) = g[m] BY <1>1, <2>1, <2>2, FlattenValue
  <2>4. f[n] = Join(seqs[1], g[m])
    <3>1. seqs[1] \in Seq(S) BY <1>2
    <3>2. Follows(seqs, t, n, m, S) BY <1>1, <1>3, <1>4, <2>2, <3>1 DEF Follows
    <3> QED BY <1>1, <1>6, <2>1, <3>2, FlattensShift
  <2> QED BY <1>2, <1>5, <1>7, <2>3, <2>4
<1> QED BY <1>8, <1>9
=============================================================================
